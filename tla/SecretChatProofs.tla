-------------------------- MODULE SecretChatProofs --------------------------
(***************************************************************************)
(* For any limits and any exchanges of keys: the messages of a secret chat *)
(* are processed in order, and none is held back without a hole before it. *)
(* While the messages arrive once and an exchange begins when the last one *)
(* is over: none is lost, each can be read, and in the end both sides have *)
(* the same key.                                                           *)
(***************************************************************************)
EXTENDS MCSecretChat, SequenceTheorems, WellFoundedInduction, TLAPS

-----------------------------------------------------------------------------
(* The two sides.                                                          *)

(* The other side of a chat is the other of the two.                       *)
LEMMA OtherSide ==
  ASSUME NEW s \in Sides
  PROVE  Other(s) \in Sides /\ Other(s) # s /\ Other(Other(s)) = s
         /\ \A t \in Sides : t = s \/ t = Other(s)
  <1>1. PICK x, y : x # y /\ Sides = {x, y}
    BY SecretChatAssumption
  <1>2. \A t \in Sides : Other(t) \in Sides /\ Other(t) # t
    BY <1>1 DEF Other
  <1>. QED  BY <1>1, <1>2

-----------------------------------------------------------------------------
(* The sequences: what is left after one is taken out, and the first one   *)
(* of a queue of held messages.                                            *)

(* Taking a held message out of the queue leaves the others.               *)
LEMMA TakeOut ==
  ASSUME NEW S, NEW q \in Seq(S), NEW i \in DOMAIN q
  PROVE  /\ RemoveAt(q, i) \in Seq(S)
         /\ Len(RemoveAt(q, i)) = Len(q) - 1
         /\ \A j \in DOMAIN RemoveAt(q, i) : \E k \in DOMAIN q : RemoveAt(q, i)[j] = q[k]
  <1>. DEFINE a == SubSeq(q, 1, i - 1)
              b == SubSeq(q, i + 1, Len(q))
  <1>1. Len(q) \in Nat /\ i \in 1 .. Len(q) /\ DOMAIN q = 1 .. Len(q) /\ \A j \in 1 .. Len(q) : q[j] \in S
    BY LenProperties, ElementOfSeq
  <1>2. /\ a \in Seq(S) /\ Len(a) = i - 1
        /\ \A j \in 1 .. i - 1 : a[j] = q[j]
    <2>1. \A j \in 1 .. i - 1 : q[j] \in S
      BY <1>1
    <2>. QED  BY <1>1, <2>1, SubSeqProperties
  <1>3. /\ b \in Seq(S) /\ Len(b) = Len(q) - i
        /\ \A j \in 1 .. Len(q) - i : b[j] = q[i + j]
    <2>1. \A j \in i + 1 .. Len(q) : q[j] \in S
      BY <1>1
    <2>2. /\ b \in Seq(S) /\ Len(b) = IF i + 1 <= Len(q) THEN Len(q) - (i + 1) + 1 ELSE 0
          /\ \A j \in 1 .. Len(q) - (i + 1) + 1 : b[j] = q[i + 1 + j - 1]
      BY <1>1, <2>1, SubSeqProperties
    <2>. QED  BY <1>1, <2>2, SMTT(60)
  <1>. HIDE DEF a, b
  <1>4. RemoveAt(q, i) = a \o b
    BY DEF RemoveAt, a, b
  <1>5. /\ a \o b \in Seq(S) /\ Len(a \o b) = Len(q) - 1
        /\ \A j \in 1 .. Len(q) - 1 : (a \o b)[j] = IF j <= i - 1 THEN a[j] ELSE b[j - (i - 1)]
    <2>1. /\ a \o b \in Seq(S) /\ Len(a \o b) = Len(a) + Len(b)
          /\ \A j \in 1 .. Len(a) + Len(b) : (a \o b)[j] = IF j <= Len(a) THEN a[j] ELSE b[j - Len(a)]
      BY <1>2, <1>3, ConcatProperties
    <2>. QED  BY <1>1, <1>2, <1>3, <2>1
  <1>6. ASSUME NEW j \in 1 .. Len(q) - 1
        PROVE  \E k \in DOMAIN q : (a \o b)[j] = q[k]
    <2>1. CASE j <= i - 1
      BY <1>1, <1>2, <1>5, <2>1
    <2>2. CASE j > i - 1
      <3>1. (a \o b)[j] = b[j - (i - 1)] /\ j - (i - 1) \in 1 .. Len(q) - i
        BY <1>1, <1>5, <2>2
      <3>. QED  BY <1>1, <1>3, <3>1
    <2>3. j <= i - 1 \/ j > i - 1
      BY <1>1
    <2>. QED  BY <2>1, <2>2, <2>3
  <1>7. DOMAIN (a \o b) = 1 .. Len(q) - 1
    BY <1>5, LenProperties
  <1>. QED  BY <1>4, <1>5, <1>6, <1>7

(* Among natural numbers there is a least one.                             *)
LEMMA Least ==
  ASSUME NEW T \in SUBSET Nat, T # {}
  PROVE  \E x \in T : \A y \in T : x <= y
  <1>1. PICK x \in T : \A y \in T : ~(<<y, x>> \in OpToRel(<, Nat))
    BY NatLessThanWellFounded, WFMin
  <1>2. \A y \in T : ~(y < x)
    BY <1>1 DEF OpToRel
  <1>. QED  BY <1>2

(* The sort of checkSecretHoles puts a message first, if there is one.     *)
LEMMA SomeFirst ==
  ASSUME NEW s, holes[s] \in Seq(HeldSet), NEW k \in DOMAIN holes[s]
  PROVE  \E i \in DOMAIN holes[s] : FirstHole(s, i) /\ holes[s][i].message.n <= holes[s][k].message.n
  <1>. DEFINE q == holes[s]
              N(i) == q[i].message.n
  <1>1. DOMAIN q \subseteq Nat /\ \A i \in DOMAIN q : N(i) \in Nat
    <2>1. DOMAIN q = 1 .. Len(q) /\ \A i \in 1 .. Len(q) : q[i] \in HeldSet
      BY LenProperties, ElementOfSeq
    <2>. QED  BY <2>1 DEF HeldSet, MessageSet
  <1>2. PICK n \in {N(i) : i \in DOMAIN q} : \A m \in {N(i) : i \in DOMAIN q} : n <= m
    <2>1. {N(i) : i \in DOMAIN q} \in SUBSET Nat /\ {N(i) : i \in DOMAIN q} # {}
      BY <1>1
    <2>. QED  BY <2>1, Least
  <1>3. PICK i \in {j \in DOMAIN q : N(j) = n} : \A j \in {m \in DOMAIN q : N(m) = n} : i <= j
    <2>1. {j \in DOMAIN q : N(j) = n} \in SUBSET Nat /\ {j \in DOMAIN q : N(j) = n} # {}
      BY <1>1, <1>2
    <2>. HIDE DEF N, q
    <2>. QED  BY <2>1, Least
  <1>4. i \in DOMAIN q /\ N(i) = n /\ \A j \in DOMAIN q : N(i) <= N(j)
    BY <1>2, <1>3
  <1>5. \A j \in DOMAIN q : N(i) < N(j) \/ (N(i) = N(j) /\ i <= j)
    BY <1>1, <1>3, <1>4
  <1>. QED  BY <1>4, <1>5 DEF FirstHole

-----------------------------------------------------------------------------
(* The types.                                                              *)

(* The exchange of keys does not touch the numbers of the messages.        *)
LEMMA HandledKeeps ==
  ASSUME NEW c \in ChatSet, NEW a \in ActionSet, NEW new \in BOOLEAN, NEW fresh \in Nat
  PROVE  LET r == Handled(Switched(c, new), a, fresh) IN
         /\ r.chat \in ChatSet /\ r.post \in Seq(ActionSet)
         /\ r.chat.in = c.in /\ r.chat.out = c.out
  <1>. DEFINE d == Switched(c, new)
              Keeps(r) == /\ r.chat \in ChatSet /\ r.post \in Seq(ActionSet)
                          /\ r.chat.in = c.in /\ r.chat.out = c.out
  <1>1. d \in ChatSet /\ d.in = c.in /\ d.out = c.out
    BY DEF Switched, ChatSet
  <1>. HIDE DEF d
  <1>2. /\ a.exchange \in {0} \cup ExchangeIds /\ a.key \in Nat /\ d.exchange \in {0} \cup ExchangeIds
        /\ d.key \in Nat /\ d.future \in Nat
    BY <1>1 DEF ActionSet, ChatSet
  <1>3. /\ <<Noop>> \in Seq(ActionSet)
        /\ <<AbortKey(a.exchange)>> \in Seq(ActionSet)
        /\ <<AbortKey(d.exchange)>> \in Seq(ActionSet)
        /\ <<AcceptKey(a.exchange, fresh)>> \in Seq(ActionSet)
        /\ <<CommitKey(a.exchange, a.key)>> \in Seq(ActionSet)
    <2>1. /\ Noop \in ActionSet /\ AbortKey(a.exchange) \in ActionSet
          /\ AbortKey(d.exchange) \in ActionSet /\ AcceptKey(a.exchange, fresh) \in ActionSet
          /\ CommitKey(a.exchange, a.key) \in ActionSet
      BY <1>2 DEF ActionSet, Action, Noop, AbortKey, AcceptKey, CommitKey
    <2>. QED  BY <2>1
  <1>4. Abandoned(d) \in ChatSet /\ Abandoned(d).in = c.in /\ Abandoned(d).out = c.out
    BY <1>1 DEF Abandoned, ChatSet
  <1>5. Keeps(OnRequestKey(d, a.exchange, fresh))
    <2>. DEFINE p == IF d.exchange # 0 THEN <<AbortKey(d.exchange)>> ELSE <<>>
    <2>1. p \in Seq(ActionSet) /\ <<AcceptKey(a.exchange, fresh)>> \in Seq(ActionSet)
      <3>1. <<>> \in Seq(ActionSet)
        OBVIOUS
      <3>. QED  BY <1>3, <3>1
    <2>2. p \o <<AcceptKey(a.exchange, fresh)>> \in Seq(ActionSet)
      BY <2>1, ConcatProperties
    <2>3. LET x == [d EXCEPT !.exchange = a.exchange, !.future = fresh] IN
          x \in ChatSet /\ x.in = c.in /\ x.out = c.out
      BY <1>1, <1>2 DEF ChatSet
    <2>4. <<>> \in Seq(ActionSet)
      OBVIOUS
    <2>. HIDE DEF p
    <2>5. OnRequestKey(d, a.exchange, fresh) =
            IF d.exchange > a.exchange THEN Result(d, <<>>)
            ELSE Result([d EXCEPT !.exchange = a.exchange, !.future = fresh],
                        p \o <<AcceptKey(a.exchange, fresh)>>)
      BY DEF OnRequestKey, p
    <2>. QED  BY <1>1, <2>2, <2>3, <2>4, <2>5 DEF Result
  <1>6. Keeps(OnAcceptKey(d, a.exchange, a.key))
    <2>1. LET x == [d EXCEPT !.future = a.key] IN
          x \in ChatSet /\ x.in = c.in /\ x.out = c.out
      BY <1>1, <1>2 DEF ChatSet
    <2>. QED  BY <1>3, <1>4, <2>1 DEF OnAcceptKey, Result
  <1>7. Keeps(OnCommitKey(d, a.exchange, a.key))
    <2>1. LET x == [d EXCEPT !.key = a.key, !.future = d.key, !.exchange = 0, !.due = FALSE] IN
          x \in ChatSet /\ x.in = c.in /\ x.out = c.out
      BY <1>1, <1>2 DEF ChatSet
    <2>. QED  BY <1>3, <1>4, <2>1 DEF OnCommitKey, Result
  <1>8. Keeps(OnAbortKey(d, a.exchange))
    BY <1>1, <1>4 DEF OnAbortKey, Result
  <1>9. Keeps(Result(d, <<>>))
    BY <1>1 DEF Result
  <1>. HIDE DEF Keeps
  <1>10. Keeps(Handled(d, a, fresh))
    BY <1>5, <1>6, <1>7, <1>8, <1>9 DEF Handled
  <1>. QED  BY <1>10 DEF Keeps, d

(* Processing a message moves the count of messages received to its number *)
(* and leaves the count of messages sent alone.                            *)
LEMMA ProcessKeeps ==
  ASSUME TypeOK, NEW s \in Sides, NEW m \in MessageSet, NEW new \in BOOLEAN, Process(s, m, new)
  PROVE  /\ chat' \in [Sides -> ChatSet] /\ posted' \in [Sides -> Seq(ActionSet)]
         /\ keys' \in Nat /\ exchanges' \subseteq ExchangeIds /\ overlapped' \in BOOLEAN
         /\ chat'[s].in = m.n /\ chat'[s].out = chat[s].out
         /\ \A t \in Sides \ {s} : chat'[t] = chat[t]
  <1>1. PICK e \in {0} \cup ExchangeIds :
          LET c0 == [chat[s] EXCEPT !.in = m.n]
              c1 == IF e = 0 THEN c0 ELSE Requested(c0, e)
              r  == Handled(Switched(c1, new), m.action, keys + 1) IN
          /\ chat' = [chat EXCEPT ![s] = r.chat]
          /\ posted' = [posted EXCEPT ![s] =
                           @ \o (IF e = 0 THEN <<>> ELSE <<RequestKey(e)>>) \o r.post]
          /\ keys' = IF r.chat.future = keys + 1 THEN keys + 1 ELSE keys
          /\ exchanges' = exchanges \cup ({e} \ {0})
          /\ overlapped' = (overlapped \/ (e # 0 /\ Unsettled(s)))
    BY DEF Process
  <1>. DEFINE c0 == [chat[s] EXCEPT !.in = m.n]
              c1 == IF e = 0 THEN c0 ELSE Requested(c0, e)
              r  == Handled(Switched(c1, new), m.action, keys + 1)
              p  == IF e = 0 THEN <<>> ELSE <<RequestKey(e)>>
  <1>2. m.n \in Nat /\ m.action \in ActionSet /\ keys + 1 \in Nat
    BY DEF MessageSet, TypeOK
  <1>3. c1 \in ChatSet /\ c1.in = m.n /\ c1.out = chat[s].out
    BY <1>2 DEF TypeOK, ChatSet, Requested
  <1>4. p \in Seq(ActionSet)
    <2>1. e # 0 => RequestKey(e) \in ActionSet
      BY DEF RequestKey, Action, ActionSet
    <2>. QED  BY <2>1
  <1>. HIDE DEF c1
  <1>5. /\ r.chat \in ChatSet /\ r.post \in Seq(ActionSet)
        /\ r.chat.in = m.n /\ r.chat.out = chat[s].out
    BY <1>2, <1>3, HandledKeeps
  <1>6. /\ chat' = [chat EXCEPT ![s] = r.chat]
        /\ posted' = [posted EXCEPT ![s] = posted[s] \o p \o r.post]
        /\ keys' = IF r.chat.future = keys + 1 THEN keys + 1 ELSE keys
        /\ exchanges' = exchanges \cup ({e} \ {0})
        /\ overlapped' = (overlapped \/ (e # 0 /\ Unsettled(s)))
    BY <1>1 DEF c1
  <1>. HIDE DEF r, p
  <1>7. posted[s] \o p \o r.post \in Seq(ActionSet)
    BY <1>4, <1>5, ConcatProperties DEF TypeOK
  <1>8. overlapped' \in BOOLEAN
    BY <1>6
  <1>. QED  BY <1>5, <1>6, <1>7, <1>8 DEF TypeOK

-----------------------------------------------------------------------------
(* The invariant.                                                          *)

(* Every message on its way, in error or held was sent.                    *)
Known ==
    \A s \in Sides :
        /\ \A m \in net[s] \cup copies[s] \cup failed[s] : m.n < chat[s].out
        /\ \A i \in DOMAIN holes[s] : holes[s][i].message.n < chat[Other(s)].out

(* A held message is not older than what was processed, and is behind a    *)
(* hole unless the queue is just being looked at.                          *)
HeldAhead ==
    \A s \in Sides : \A i \in DOMAIN holes[s] :
        /\ chat[s].in <= holes[s][i].message.n
        /\ ~busy[s] => chat[s].in + 1 < holes[s][i].message.n

Inv == TypeOK /\ Known /\ HeldAhead

(* The chat begins with nothing under way.                                 *)
LEMMA InitInv == Init => Inv
  <1>. SUFFICES ASSUME Init PROVE Inv
    OBVIOUS
  <1>1. TypeOK
    <2>1. [in |-> 0, out |-> Started, key |-> 1, future |-> 0, exchange |-> 0, due |-> FALSE] \in ChatSet
      BY SecretChatAssumption DEF ChatSet
    <2>2. HolesLimit \in Nat /\ <<>> \in Seq(HeldSet) /\ Len(<<>>) = 0 /\ <<>> \in Seq(ActionSet)
      BY SecretChatAssumption
    <2>3. chat \in [Sides -> ChatSet]
      BY <2>1 DEF Init
    <2>4. /\ holes \in [Sides -> Seq(HeldSet)] /\ posted \in [Sides -> Seq(ActionSet)]
          /\ \A s \in Sides : Len(holes[s]) <= HolesLimit
      BY <2>2 DEF Init
    <2>5. /\ net \in [Sides -> SUBSET MessageSet] /\ copies \in [Sides -> SUBSET MessageSet]
          /\ failed \in [Sides -> SUBSET MessageSet]
          /\ open \in [Sides -> {"open", "closing", "closed"}] /\ busy \in [Sides -> BOOLEAN]
      BY DEF Init
    <2>. QED  BY <2>3, <2>4, <2>5 DEF Init, TypeOK
  <1>2. Known /\ HeldAhead
    BY DEF Init, Known, HeldAhead
  <1>. QED  BY <1>1, <1>2 DEF Inv

(* A new message gets the next number.                                     *)
LEMMA SendNextKeeps ==
  ASSUME Inv, NEW s \in Sides, NEW action \in ActionSet, NEW rest \in Seq(ActionSet),
         SendNext(s, action, rest)
  PROVE  Inv'
  <1>. DEFINE c == [chat[s] EXCEPT !.out = @ + 1]
              m == Message(chat[s].out, chat[s].key, action)
  <1>. USE DEF Inv
  <1>1. /\ c \in ChatSet /\ c.in = chat[s].in /\ c.out = chat[s].out + 1
        /\ m \in MessageSet /\ m.n = chat[s].out /\ chat[s].out \in Nat
    <2>1. chat[s] \in ChatSet
      BY DEF TypeOK
    <2>2. c \in ChatSet /\ c.in = chat[s].in /\ c.out = chat[s].out + 1
      BY <2>1 DEF ChatSet
    <2>3. chat[s].out \in Nat /\ chat[s].key \in Nat
      BY <2>1 DEF ChatSet
    <2>4. m \in MessageSet /\ m.n = chat[s].out
      BY <2>3 DEF MessageSet, Message
    <2>. QED  BY <2>2, <2>3, <2>4
  <1>2. ASSUME NEW e \in ExchangeIds
        PROVE  /\ Requested(c, e) \in ChatSet /\ Requested(c, e).in = c.in
               /\ Requested(c, e).out = c.out
               /\ Append(rest, RequestKey(e)) \in Seq(ActionSet)
    <2>1. Requested(c, e) \in ChatSet /\ Requested(c, e).in = c.in /\ Requested(c, e).out = c.out
      BY <1>1 DEF Requested, ChatSet
    <2>2. RequestKey(e) \in ActionSet
      BY DEF RequestKey, Action, ActionSet
    <2>. QED  BY <2>1, <2>2, AppendProperties
  <1>3. /\ net' = [net EXCEPT ![s] = net[s] \cup {m}]
        /\ UNCHANGED <<open, holes, busy, copies, failed, declined, keys, repeats, fails, misjudged>>
    BY DEF SendNext
  <1>4. PICK d \in ChatSet, p \in Seq(ActionSet) :
          /\ chat' = [chat EXCEPT ![s] = d] /\ posted' = [posted EXCEPT ![s] = p]
          /\ d.in = chat[s].in /\ d.out = chat[s].out + 1
    <2>1. CASE chat' = [chat EXCEPT ![s] = c] /\ posted' = [posted EXCEPT ![s] = rest]
      BY <1>1, <2>1
    <2>2. ASSUME NEW e \in ExchangeIds, chat' = [chat EXCEPT ![s] = Requested(c, e)],
                 posted' = [posted EXCEPT ![s] = Append(rest, RequestKey(e))]
          PROVE  \E d \in ChatSet, p \in Seq(ActionSet) :
                   /\ chat' = [chat EXCEPT ![s] = d] /\ posted' = [posted EXCEPT ![s] = p]
                   /\ d.in = chat[s].in /\ d.out = chat[s].out + 1
      <3>. HIDE DEF c
      <3>. QED  BY <1>1, <1>2, <2>2
    <2>. HIDE DEF m
    <2>. QED  BY <2>1, <2>2 DEF SendNext
  <1>5. exchanges' \subseteq ExchangeIds /\ overlapped' \in BOOLEAN
    BY DEF SendNext, TypeOK
  <1>. HIDE DEF m
  <1>6. TypeOK'
    BY <1>1, <1>3, <1>4, <1>5 DEF TypeOK
  <1>7. \A t \in Sides : /\ chat'[t].in = chat[t].in /\ chat'[t].in \in Nat /\ chat[t].out <= chat'[t].out
                        /\ chat[t].out \in Nat /\ chat'[t].out \in Nat
    BY <1>4, SMTT(60) DEF TypeOK, ChatSet
  <1>8. Known'
    <2>1. ASSUME NEW t \in Sides, NEW x \in net'[t] \cup copies'[t] \cup failed'[t]
          PROVE  x.n < chat'[t].out
      <3>1. CASE x \in net[t] \cup copies[t] \cup failed[t]
        <4>1. x.n < chat[t].out /\ x.n \in Nat
          BY <3>1 DEF Known, TypeOK, MessageSet
        <4>. QED  BY <4>1, <1>7
      <3>2. CASE t = s /\ x = m
        BY <3>2, <1>1, <1>4 DEF TypeOK
      <3>3. x \in net[t] \cup copies[t] \cup failed[t] \/ (t = s /\ x = m)
        BY <1>3 DEF TypeOK
      <3>. QED  BY <3>1, <3>2, <3>3
    <2>2. ASSUME NEW t \in Sides, NEW i \in DOMAIN holes'[t]
          PROVE  holes'[t][i].message.n < chat'[Other(t)].out
      <3>1. holes[t][i].message.n < chat[Other(t)].out /\ holes'[t][i] = holes[t][i]
        BY <1>3 DEF Known
      <3>2. holes[t][i].message.n \in Nat
        <4>1. holes[t][i] \in HeldSet
          BY <1>3, ElementOfSeq, LenProperties DEF TypeOK
        <4>. QED  BY <4>1 DEF HeldSet, MessageSet
      <3>. QED  BY <3>1, <3>2, <1>7, OtherSide
    <2>. QED  BY <2>1, <2>2 DEF Known
  <1>9. HeldAhead'
    BY <1>3, <1>7 DEF HeldAhead
  <1>. QED  BY <1>6, <1>8, <1>9

(* The numbers of the messages that a side holds are numbers.              *)
LEMMA HeldNumbers ==
  ASSUME TypeOK, NEW s \in Sides
  PROVE  /\ chat[s].in \in Nat /\ chat[s].out \in Nat /\ chat[s] \in ChatSet
         /\ \A i \in DOMAIN holes[s] :
              holes[s][i] \in HeldSet /\ holes[s][i].message \in MessageSet
              /\ holes[s][i].message.n \in Nat /\ holes[s][i].new \in BOOLEAN
  <1>1. chat[s] \in ChatSet /\ holes[s] \in Seq(HeldSet)
    BY DEF TypeOK
  <1>2. \A i \in DOMAIN holes[s] : holes[s][i] \in HeldSet
    BY <1>1, ElementOfSeq, LenProperties
  <1>. QED  BY <1>1, <1>2 DEF ChatSet, HeldSet, MessageSet

(* A text or a service message is sent with the next number.               *)
LEMMA SendKeeps ==
  ASSUME Inv, NEW s \in Sides, SendText(s) \/ SendPosted(s)
  PROVE  Inv'
  <1>1. posted[s] \in Seq(ActionSet)
    BY DEF Inv, TypeOK
  <1>2. CASE SendText(s)
    <2>1. Text \in ActionSet
      BY DEF Text, Action, ActionSet
    <2>. QED  BY <1>1, <1>2, <2>1, SendNextKeeps DEF SendText
  <1>3. CASE SendPosted(s)
    <2>1. Head(posted[s]) \in ActionSet /\ Tail(posted[s]) \in Seq(ActionSet)
      BY <1>1, <1>3, HeadTailProperties DEF SendPosted
    <2>. QED  BY <1>3, <2>1, SendNextKeeps DEF SendPosted
  <1>. QED  BY <1>2, <1>3

(* An error moves a message from one set to the other.                     *)
LEMMA SendFailsKeeps ==
  ASSUME Inv, NEW s \in Sides, SendFails(s)
  PROVE  Inv'
  <1>. USE DEF Inv
  <1>1. PICK m \in net[s] : /\ net' = [net EXCEPT ![s] = net[s] \ {m}]
                            /\ failed' = [failed EXCEPT ![s] = failed[s] \cup {t \in {m} : t.action = Text}]
    BY DEF SendFails
  <1>2. /\ fails' = fails + 1
        /\ UNCHANGED <<chat, open, holes, busy, posted, copies, declined, exchanges, keys,
                       repeats, overlapped, misjudged>>
    BY DEF SendFails
  <1>3. TypeOK'
    BY <1>1, <1>2 DEF TypeOK
  <1>4. \A t \in Sides : net'[t] \cup copies'[t] \cup failed'[t] \subseteq net[t] \cup copies[t] \cup failed[t]
    BY <1>1, <1>2 DEF TypeOK
  <1>5. Known'
    BY <1>2, <1>4, OtherSide DEF Known
  <1>6. HeldAhead'
    BY <1>2 DEF HeldAhead
  <1>. QED  BY <1>3, <1>5, <1>6

(* A text that is sent again keeps its number.                             *)
LEMMA SendAgainKeeps ==
  ASSUME Inv, NEW s \in Sides, SendAgain(s)
  PROVE  Inv'
  <1>. USE DEF Inv
  <1>1. PICK m \in failed[s] : /\ net' = [net EXCEPT ![s] = net[s] \cup {[m EXCEPT !.key = chat[s].key]}]
                               /\ failed' = [failed EXCEPT ![s] = failed[s] \ {m}]
    BY DEF SendAgain
  <1>2. UNCHANGED <<chat, open, holes, busy, posted, copies, declined, exchanges, keys,
                    repeats, fails, overlapped, misjudged>>
    BY DEF SendAgain
  <1>. DEFINE x == [m EXCEPT !.key = chat[s].key]
  <1>3. x \in MessageSet /\ x.n = m.n
    <2>1. m \in MessageSet /\ chat[s].key \in Nat
      BY HeldNumbers DEF TypeOK, ChatSet
    <2>. QED  BY <2>1 DEF MessageSet
  <1>. HIDE DEF x
  <1>4. TypeOK'
    BY <1>1, <1>2, <1>3 DEF TypeOK, x
  <1>5. \A t \in Sides : \A y \in net'[t] \cup copies'[t] \cup failed'[t] :
          y \in net[t] \cup copies[t] \cup failed[t] \/ (t = s /\ y = x)
    BY <1>1, <1>2 DEF TypeOK, x
  <1>6. x.n < chat[s].out
    BY <1>3 DEF Known
  <1>7. Known'
    BY <1>2, <1>5, <1>6, OtherSide DEF Known
  <1>8. HeldAhead'
    BY <1>2 DEF HeldAhead
  <1>. QED  BY <1>4, <1>7, <1>8

(* The age of the key, the end of the loop over the held messages, and the *)
(* end of the chat.                                                        *)
LEMMA KeyGrowsOldKeeps ==
  ASSUME Inv, NEW s \in Sides, KeyGrowsOld(s)
  PROVE  Inv'
  <1>. USE DEF Inv
  <1>1. /\ chat' = [chat EXCEPT ![s] = [chat[s] EXCEPT !.due = TRUE]]
        /\ UNCHANGED <<open, holes, busy, posted, net, copies, failed, declined, exchanges, keys,
                       repeats, fails, overlapped, misjudged>>
    BY DEF KeyGrowsOld
  <1>2. LET d == [chat[s] EXCEPT !.due = TRUE] IN
        d \in ChatSet /\ d.in = chat[s].in /\ d.out = chat[s].out
    BY HeldNumbers DEF ChatSet
  <1>3. \A t \in Sides : chat'[t].in = chat[t].in /\ chat'[t].out = chat[t].out
    BY <1>1, <1>2 DEF TypeOK
  <1>4. TypeOK'
    BY <1>1, <1>2 DEF TypeOK
  <1>5. Known'
    BY <1>1, <1>3, OtherSide DEF Known
  <1>6. HeldAhead'
    BY <1>1, <1>3 DEF HeldAhead
  <1>. QED  BY <1>4, <1>5, <1>6

(* The loop over the held messages ends at the first hole and leaves all   *)
(* that are held.                                                          *)
LEMMA CheckEndsKeeps ==
  ASSUME Inv, NEW s \in Sides, CheckEnds(s)
  PROVE  Inv'
  <1>. USE DEF Inv
  <1>1. /\ busy' = [busy EXCEPT ![s] = FALSE]
        /\ UNCHANGED <<chat, open, holes, posted, net, copies, failed, declined, exchanges, keys,
                       repeats, fails, overlapped, misjudged>>
    BY DEF CheckEnds
  <1>2. TypeOK'
    BY <1>1 DEF TypeOK
  <1>3. Known'
    BY <1>1, OtherSide DEF Known
  <1>4. ASSUME NEW i \in DOMAIN holes[s]
        PROVE  chat[s].in + 1 < holes[s][i].message.n
    <2>1. PICK j \in DOMAIN holes[s] : FirstHole(s, j) /\ holes[s][j].message.n <= holes[s][i].message.n
      BY SomeFirst DEF TypeOK
    <2>2. ~InOrder(s, holes[s][j].message)
      BY <2>1 DEF CheckEnds
    <2>3. chat[s].in <= holes[s][j].message.n
      BY DEF HeldAhead
    <2>. QED  BY <2>1, <2>2, <2>3, HeldNumbers DEF InOrder
  <1>5. HeldAhead'
    BY <1>1, <1>4 DEF HeldAhead, TypeOK
  <1>. QED  BY <1>2, <1>3, <1>5

(* The end of the chat touches no message and no number.                   *)
LEMMA DiscardKeeps ==
  ASSUME Inv, NEW s \in Sides, Discard(s)
  PROVE  Inv'
  <1>1. TypeOK'
    BY DEF Discard, Inv, TypeOK
  <1>2. Known' /\ HeldAhead'
    BY OtherSide DEF Discard, Inv, Known, HeldAhead
  <1>. QED  BY <1>1, <1>2 DEF Inv

(* A delivered message was sent by the other side, and delivering it makes *)
(* no other.                                                               *)
LEMMA DeliverFacts ==
  ASSUME Inv, NEW s \in Sides, NEW m, Deliver(s, m)
  PROVE  /\ m \in MessageSet /\ m.n < chat[Other(s)].out /\ ~busy[s]
         /\ net' \in [Sides -> SUBSET MessageSet] /\ copies' \in [Sides -> SUBSET MessageSet]
         /\ repeats' \in Nat
         /\ \A t \in Sides : net'[t] \cup copies'[t] \subseteq net[t] \cup copies[t]
         /\ failed' = failed /\ fails' = fails /\ misjudged' = misjudged
  <1>. DEFINE t == Other(s)
  <1>. USE DEF Inv
  <1>1. t \in Sides
    BY OtherSide
  <1>2. m \in net[t] \cup copies[t]
    BY DEF Deliver
  <1>3. m \in MessageSet /\ m.n < chat[t].out
    BY <1>1, <1>2 DEF TypeOK, Known
  <1>. HIDE DEF t
  <1>4. /\ net' \in [Sides -> SUBSET MessageSet] /\ copies' \in [Sides -> SUBSET MessageSet]
        /\ repeats' \in Nat
        /\ \A u \in Sides : net'[u] \cup copies'[u] \subseteq net[u] \cup copies[u]
    <2>1. CASE copies' = [copies EXCEPT ![t] = copies[t] \ {m}] /\ UNCHANGED <<net, repeats>>
      BY <2>1 DEF TypeOK
    <2>2. CASE net' = [net EXCEPT ![t] = net[t] \ {m}] /\ UNCHANGED <<copies, repeats>>
      BY <2>2 DEF TypeOK
    <2>3. CASE /\ m \in net[t] /\ net' = [net EXCEPT ![t] = net[t] \ {m}] /\ repeats' = repeats + 1
               /\ copies' = [copies EXCEPT ![t] = copies[t] \cup {m}]
      <3>1. net' \in [Sides -> SUBSET MessageSet] /\ copies' \in [Sides -> SUBSET MessageSet]
        BY <1>1, <1>3, <2>3 DEF TypeOK
      <3>2. repeats' \in Nat
        BY <2>3 DEF TypeOK
      <3>3. ASSUME NEW u \in Sides
            PROVE  net'[u] \cup copies'[u] \subseteq net[u] \cup copies[u]
        BY <1>1, <2>3 DEF TypeOK
      <3>. QED  BY <3>1, <3>2, <3>3
    <2>4. \/ copies' = [copies EXCEPT ![t] = copies[t] \ {m}] /\ UNCHANGED <<net, repeats>>
          \/ net' = [net EXCEPT ![t] = net[t] \ {m}] /\ UNCHANGED <<copies, repeats>>
          \/ /\ m \in net[t] /\ net' = [net EXCEPT ![t] = net[t] \ {m}] /\ repeats' = repeats + 1
             /\ copies' = [copies EXCEPT ![t] = copies[t] \cup {m}]
      BY DEF Deliver, t
    <2>. QED  BY <2>1, <2>2, <2>3, <2>4
  <1>. QED  BY <1>3, <1>4 DEF Deliver, Ready, t

(* A step that processes m, which the other side sent and which is next in *)
(* order, keeps the invariant, if the messages that are held afterwards    *)
(* were held before and are not older than m.                              *)
LEMMA ProcessInv ==
  ASSUME Inv, NEW s \in Sides, NEW m \in MessageSet, NEW new \in BOOLEAN, Process(s, m, new),
         m.n < chat[Other(s)].out, InOrder(s, m), busy' = [busy EXCEPT ![s] = TRUE],
         holes' \in [Sides -> Seq(HeldSet)],
         \A t \in Sides : Len(holes'[t]) <= HolesLimit,
         \A t \in Sides \ {s} : holes'[t] = holes[t],
         \A j \in DOMAIN holes'[s] : \E k \in DOMAIN holes[s] : holes'[s][j] = holes[s][k],
         \A k \in DOMAIN holes[s] : m.n <= holes[s][k].message.n,
         net' \in [Sides -> SUBSET MessageSet], copies' \in [Sides -> SUBSET MessageSet],
         repeats' \in Nat,
         \A t \in Sides : net'[t] \cup copies'[t] \subseteq net[t] \cup copies[t],
         misjudged' \in BOOLEAN, UNCHANGED <<open, declined, failed, fails>>
  PROVE  Inv'
  <1>. USE DEF Inv
  <1>1. /\ chat' \in [Sides -> ChatSet] /\ posted' \in [Sides -> Seq(ActionSet)]
        /\ keys' \in Nat /\ exchanges' \subseteq ExchangeIds /\ overlapped' \in BOOLEAN
        /\ chat'[s].in = m.n /\ chat'[s].out = chat[s].out
        /\ \A t \in Sides \ {s} : chat'[t] = chat[t]
    BY ProcessKeeps
  <1>2. TypeOK'
    BY <1>1 DEF TypeOK
  <1>3. \A t \in Sides : chat'[t].out = chat[t].out
    BY <1>1
  <1>4. Known'
    <2>1. ASSUME NEW t \in Sides, NEW x \in net'[t] \cup copies'[t] \cup failed'[t]
          PROVE  x.n < chat'[t].out
      BY <1>3 DEF Known
    <2>2. ASSUME NEW t \in Sides, NEW i \in DOMAIN holes'[t]
          PROVE  holes'[t][i].message.n < chat'[Other(t)].out
      <3>1. PICK k \in DOMAIN holes[t] : holes'[t][i] = holes[t][k]
        OBVIOUS
      <3>. QED  BY <1>3, <3>1, OtherSide DEF Known
    <2>. QED  BY <2>1, <2>2 DEF Known
  <1>5. HeldAhead'
    <2>1. ASSUME NEW i \in DOMAIN holes'[s]
          PROVE  chat'[s].in <= holes'[s][i].message.n
      BY <1>1
    <2>2. busy'[s]
      BY DEF TypeOK
    <2>3. \A t \in Sides \ {s} : busy'[t] = busy[t]
      BY DEF TypeOK
    <2>. QED  BY <1>1, <2>1, <2>2, <2>3 DEF HeldAhead
  <1>. QED  BY <1>2, <1>4, <1>5

(* A message that comes in order.                                          *)
LEMMA ReceiveNextKeeps ==
  ASSUME Inv, NEW s \in Sides, NEW m, ReceiveNext(s, m)
  PROVE  Inv'
  <1>1. Deliver(s, m) /\ InOrder(s, m) /\ Process(s, m, UsesNew(s, m))
        /\ busy' = [busy EXCEPT ![s] = TRUE] /\ UNCHANGED <<open, holes, declined>>
    BY DEF ReceiveNext
  <1>2. /\ m \in MessageSet /\ m.n < chat[Other(s)].out /\ ~busy[s]
        /\ net' \in [Sides -> SUBSET MessageSet] /\ copies' \in [Sides -> SUBSET MessageSet]
        /\ repeats' \in Nat
        /\ \A t \in Sides : net'[t] \cup copies'[t] \subseteq net[t] \cup copies[t]
        /\ failed' = failed /\ fails' = fails /\ misjudged' = misjudged
    BY <1>1, DeliverFacts
  <1>3. UsesNew(s, m) \in BOOLEAN
    BY DEF UsesNew
  <1>4. \A k \in DOMAIN holes[s] : m.n <= holes[s][k].message.n
    BY <1>1, <1>2, HeldNumbers DEF Inv, HeldAhead, InOrder, MessageSet
  <1>5. /\ holes' \in [Sides -> Seq(HeldSet)] /\ misjudged' \in BOOLEAN
        /\ \A t \in Sides : Len(holes'[t]) <= HolesLimit
    BY <1>1, <1>2 DEF Inv, TypeOK
  <1>. QED  BY <1>1, <1>2, <1>3, <1>4, <1>5, ProcessInv

(* A held message whose turn has come.                                     *)
LEMMA CheckHoleKeeps ==
  ASSUME Inv, NEW s \in Sides, CheckHole(s)
  PROVE  Inv'
  <1>1. PICK i \in DOMAIN holes[s] :
          /\ FirstHole(s, i) /\ InOrder(s, holes[s][i].message)
          /\ Process(s, holes[s][i].message, holes[s][i].new)
          /\ holes' = [holes EXCEPT ![s] = RemoveAt(holes[s], i)]
          /\ misjudged' = (misjudged \/ (~holes[s][i].new /\ holes[s][i].message.key # chat[s].key))
    BY DEF CheckHole
  <1>2. busy[s] /\ UNCHANGED <<open, busy, net, copies, failed, declined, repeats, fails>>
    BY DEF CheckHole
  <1>. DEFINE m == holes[s][i].message
              new == holes[s][i].new
  <1>3. m \in MessageSet /\ new \in BOOLEAN /\ m.n < chat[Other(s)].out
    BY HeldNumbers DEF Inv, Known
  <1>4. \A k \in DOMAIN holes[s] : m.n <= holes[s][k].message.n
    BY <1>1, HeldNumbers DEF FirstHole, Inv
  <1>5. /\ RemoveAt(holes[s], i) \in Seq(HeldSet)
        /\ Len(RemoveAt(holes[s], i)) = Len(holes[s]) - 1
        /\ \A j \in DOMAIN RemoveAt(holes[s], i) :
             \E k \in DOMAIN holes[s] : RemoveAt(holes[s], i)[j] = holes[s][k]
    BY TakeOut DEF Inv, TypeOK
  <1>6. /\ holes' \in [Sides -> Seq(HeldSet)]
        /\ \A t \in Sides \ {s} : holes'[t] = holes[t]
        /\ holes'[s] = RemoveAt(holes[s], i)
    BY <1>1, <1>5 DEF Inv, TypeOK
  <1>7. \A t \in Sides : Len(holes'[t]) <= HolesLimit
    <2>1. Len(holes[s]) \in Nat /\ HolesLimit \in Nat
      BY LenProperties, SecretChatAssumption DEF Inv, TypeOK
    <2>2. Len(holes[s]) <= HolesLimit /\ \A t \in Sides \ {s} : Len(holes'[t]) <= HolesLimit
      BY <1>6 DEF Inv, TypeOK
    <2>3. Len(holes'[s]) <= HolesLimit
      BY <1>5, <1>6, <2>1, <2>2
    <2>. QED  BY <2>2, <2>3
  <1>8. /\ net' \in [Sides -> SUBSET MessageSet] /\ copies' \in [Sides -> SUBSET MessageSet]
        /\ repeats' \in Nat /\ misjudged' \in BOOLEAN /\ busy' = [busy EXCEPT ![s] = TRUE]
        /\ \A t \in Sides : net'[t] \cup copies'[t] \subseteq net[t] \cup copies[t]
    BY <1>1, <1>2 DEF Inv, TypeOK
  <1>. HIDE DEF m, new
  <1>9. Process(s, m, new) /\ InOrder(s, m)
    BY <1>1 DEF m, new
  <1>10. \A j \in DOMAIN holes'[s] : \E k \in DOMAIN holes[s] : holes'[s][j] = holes[s][k]
    BY <1>5, <1>6
  <1>. QED  BY <1>2, <1>3, <1>4, <1>6, <1>7, <1>8, <1>9, <1>10, ProcessInv

(* A message that comes too early is held, or is the one too many.         *)
LEMMA ReceiveAheadKeeps ==
  ASSUME Inv, NEW s \in Sides, NEW m, ReceiveAhead(s, m)
  PROVE  Inv'
  <1>. USE DEF Inv
  <1>. DEFINE h == [message |-> m, new |-> UsesNew(s, m)]
  <1>1. /\ m \in MessageSet /\ m.n < chat[Other(s)].out /\ ~busy[s]
        /\ net' \in [Sides -> SUBSET MessageSet] /\ copies' \in [Sides -> SUBSET MessageSet]
        /\ repeats' \in Nat
        /\ \A t \in Sides : net'[t] \cup copies'[t] \subseteq net[t] \cup copies[t]
        /\ failed' = failed /\ fails' = fails /\ misjudged' = misjudged
    BY DeliverFacts DEF ReceiveAhead
  <1>2. /\ chat[s].in + 1 < m.n
        /\ UNCHANGED <<chat, busy, posted, exchanges, keys, overlapped>>
    BY DEF ReceiveAhead
  <1>3. h \in HeldSet
    BY <1>1 DEF HeldSet, UsesNew
  <1>4. HolesLimit \in Nat /\ Len(holes[s]) \in Nat /\ holes[s] \in Seq(HeldSet)
    BY SecretChatAssumption, LenProperties DEF TypeOK
  <1>. HIDE DEF h
  <1>5. PICK q \in Seq(HeldSet) :
          /\ holes' = [holes EXCEPT ![s] = q] /\ Len(q) <= HolesLimit
          /\ \A j \in DOMAIN q : q[j] = h \/ \E k \in DOMAIN holes[s] : q[j] = holes[s][k]
    <2>1. CASE Len(holes[s]) < HolesLimit
      <3>1. holes' = [holes EXCEPT ![s] = Append(holes[s], h)]
        BY <2>1 DEF ReceiveAhead, h
      <3>. DEFINE q == Append(holes[s], h)
      <3>2. /\ q \in Seq(HeldSet) /\ Len(q) = Len(holes[s]) + 1
            /\ \A j \in 1 .. Len(holes[s]) : q[j] = holes[s][j]
            /\ q[Len(holes[s]) + 1] = h
        BY <1>3, <1>4, AppendProperties
      <3>. HIDE DEF q
      <3>3. DOMAIN q = 1 .. Len(holes[s]) + 1 /\ DOMAIN holes[s] = 1 .. Len(holes[s])
        BY <1>4, <3>2, LenProperties
      <3>4. \A j \in DOMAIN q : q[j] = h \/ \E k \in DOMAIN holes[s] : q[j] = holes[s][k]
        BY <1>4, <3>2, <3>3
      <3>5. holes' = [holes EXCEPT ![s] = q] /\ Len(q) <= HolesLimit
        BY <1>4, <2>1, <3>1, <3>2 DEF q
      <3>. QED  BY <3>2, <3>4, <3>5
    <2>2. CASE ~(Len(holes[s]) < HolesLimit)
      <3>1. holes' = [holes EXCEPT ![s] = <<>>]
        BY <2>2 DEF ReceiveAhead
      <3>. DEFINE q == <<>>
      <3>2. q \in Seq(HeldSet) /\ Len(q) <= HolesLimit /\ DOMAIN q = {}
        BY <1>4
      <3>. HIDE DEF q
      <3>3. holes' = [holes EXCEPT ![s] = q]
        BY <3>1 DEF q
      <3>. QED  BY <3>2, <3>3
    <2>. QED  BY <2>1, <2>2
  <1>6. open' \in [Sides -> {"open", "closing", "closed"}] /\ declined' \in BOOLEAN
    BY DEF ReceiveAhead, TypeOK
  <1>7. TypeOK'
    BY <1>1, <1>2, <1>5, <1>6 DEF TypeOK
  <1>8. \A t \in Sides \ {s} : holes'[t] = holes[t]
    BY <1>5 DEF TypeOK
  <1>9. holes'[s] = q
    BY <1>5 DEF TypeOK
  <1>10. Known'
    <2>1. ASSUME NEW i \in DOMAIN q PROVE q[i].message.n < chat[Other(s)].out
      BY <1>1, <1>5 DEF Known, h
    <2>. QED  BY <1>1, <1>2, <1>8, <1>9, <2>1, OtherSide DEF Known
  <1>11. HeldAhead'
    <2>1. ASSUME NEW i \in DOMAIN q
          PROVE  chat[s].in <= q[i].message.n /\ chat[s].in + 1 < q[i].message.n
      <3>1. CASE q[i] = h
        BY <1>1, <1>2, <3>1, HeldNumbers DEF h, MessageSet
      <3>2. CASE \E k \in DOMAIN holes[s] : q[i] = holes[s][k]
        BY <1>1, <3>2 DEF HeldAhead
      <3>. QED  BY <1>5, <3>1, <3>2
    <2>. QED  BY <1>2, <1>8, <1>9, <2>1 DEF HeldAhead
  <1>. QED  BY <1>7, <1>10, <1>11

(* A message that is not looked at.                                        *)
LEMMA ReceiveNothingKeeps ==
  ASSUME Inv, NEW s \in Sides, NEW m, ReceiveNothing(s, m)
  PROVE  Inv'
  <1>. USE DEF Inv
  <1>1. /\ net' \in [Sides -> SUBSET MessageSet] /\ copies' \in [Sides -> SUBSET MessageSet]
        /\ repeats' \in Nat
        /\ \A t \in Sides : net'[t] \cup copies'[t] \subseteq net[t] \cup copies[t]
        /\ failed' = failed /\ fails' = fails /\ misjudged' = misjudged
    BY DeliverFacts DEF ReceiveNothing
  <1>2. UNCHANGED <<chat, open, holes, busy, posted, declined, exchanges, keys, overlapped>>
    BY DEF ReceiveNothing
  <1>3. TypeOK'
    BY <1>1, <1>2 DEF TypeOK
  <1>4. Known'
    BY <1>1, <1>2, OtherSide DEF Known
  <1>5. HeldAhead'
    BY <1>2 DEF HeldAhead
  <1>. QED  BY <1>3, <1>4, <1>5

(* Every step keeps the invariant.                                         *)
LEMMA NextInv == Inv /\ [Next]_vars => Inv'
  <1>. SUFFICES ASSUME Inv, [Next]_vars PROVE Inv'
    OBVIOUS
  <1>1. CASE UNCHANGED vars
    <2>1. TypeOK' /\ Known' /\ HeldAhead'
      BY <1>1 DEF vars, Inv, TypeOK, Known, HeldAhead
    <2>. QED  BY <2>1 DEF Inv
  <1>2. ASSUME NEW s \in Sides, Receive(s)
        PROVE  Inv'
    BY <1>2, ReceiveNextKeeps, ReceiveAheadKeeps, ReceiveNothingKeeps DEF Receive
  <1>. QED
    BY <1>1, <1>2, SendKeeps, SendFailsKeeps, SendAgainKeeps, KeyGrowsOldKeeps, CheckHoleKeeps,
       CheckEndsKeeps, DiscardKeeps DEF Next

(* The invariant holds in every state of the chat.                         *)
THEOREM AlwaysInv == Spec => []Inv
  BY InitInv, NextInv, PTL DEF Spec

(* The types, and never more messages are held back than the limit allows. *)
THEOREM AlwaysTypeOK == Spec => []TypeOK
  <1>1. Inv => TypeOK
    BY DEF Inv
  <1>. QED  BY <1>1, AlwaysInv, PTL

(* No message is held back without a hole before it.                       *)
THEOREM AlwaysHeldForAReason == Spec => []HeldForAReason
  <1>1. Inv => HeldForAReason
    <2>. SUFFICES ASSUME Inv, NEW s \in Sides, ~busy[s], NEW i \in DOMAIN holes[s]
                  PROVE  holes[s][i].message.n > chat[s].in + 1
      BY DEF HeldForAReason
    <2>. QED  BY HeldNumbers DEF Inv, HeldAhead
  <1>. QED  BY <1>1, AlwaysInv, PTL

-----------------------------------------------------------------------------
(* The order.                                                              *)

(* How a step changes the numbers of one side: it sends one more message,  *)
(* or processes one that the other side sent, or leaves them alone.        *)
Steps(s) ==
    \/ chat'[s].out = chat[s].out + 1 /\ chat'[s].in = chat[s].in
    \/ /\ chat'[s].out = chat[s].out
       /\ \/ chat'[s].in = chat[s].in
          \/ chat'[s].in = chat[s].in + 1 /\ chat'[s].in < chat[Other(s)].out

(* A step changes the numbers of one side only, and in one of those ways.  *)
LEMMA NumbersStep ==
  ASSUME Inv, [Next]_vars
  PROVE  \E s \in Sides : Steps(s) /\ chat'[Other(s)].in = chat[Other(s)].in
                         /\ chat'[Other(s)].out = chat[Other(s)].out
  <1>. DEFINE Goal(s) == Steps(s) /\ chat'[Other(s)].in = chat[Other(s)].in
                         /\ chat'[Other(s)].out = chat[Other(s)].out
  <1>1. ASSUME chat' = chat PROVE \E s \in Sides : Goal(s)
    <2>1. PICK s : s \in Sides
      BY SecretChatAssumption
    <2>. QED  BY <1>1, <2>1 DEF Steps
  <1>2. ASSUME NEW s \in Sides, SendText(s) \/ SendPosted(s) PROVE Goal(s)
    <2>1. PICK action, rest : SendNext(s, action, rest)
      BY <1>2 DEF SendText, SendPosted
    <2>. DEFINE c == [chat[s] EXCEPT !.out = @ + 1]
    <2>2. chat[s] \in ChatSet /\ chat \in [Sides -> ChatSet]
      BY HeldNumbers DEF Inv, TypeOK
    <2>3. c.in = chat[s].in /\ c.out = chat[s].out + 1 /\ c \in ChatSet
      BY <2>2 DEF ChatSet
    <2>4. \A e : Requested(c, e).in = c.in /\ Requested(c, e).out = c.out
      BY <2>3 DEF Requested, ChatSet
    <2>5. chat' = [chat EXCEPT ![s] = c] \/ \E e : chat' = [chat EXCEPT ![s] = Requested(c, e)]
      BY <2>1 DEF SendNext
    <2>. HIDE DEF c
    <2>6. chat'[s].in = chat[s].in /\ chat'[s].out = chat[s].out + 1 /\ chat'[Other(s)] = chat[Other(s)]
      BY <2>2, <2>3, <2>4, <2>5, OtherSide
    <2>. QED  BY <2>6 DEF Steps
  <1>3. ASSUME NEW s \in Sides, KeyGrowsOld(s) PROVE Goal(s)
    <2>1. chat \in [Sides -> ChatSet] /\ chat' = [chat EXCEPT ![s] = [chat[s] EXCEPT !.due = TRUE]]
      BY <1>3 DEF Inv, TypeOK, KeyGrowsOld
    <2>2. LET d == [chat[s] EXCEPT !.due = TRUE] IN d.in = chat[s].in /\ d.out = chat[s].out
      BY <2>1 DEF ChatSet
    <2>3. chat'[s].in = chat[s].in /\ chat'[s].out = chat[s].out /\ chat'[Other(s)] = chat[Other(s)]
      BY <2>1, <2>2, OtherSide
    <2>. QED  BY <2>3 DEF Steps
  <1>4. ASSUME NEW s \in Sides, NEW m \in MessageSet, NEW new \in BOOLEAN, Process(s, m, new),
               InOrder(s, m), m.n < chat[Other(s)].out
        PROVE  Goal(s)
    <2>1. chat'[s].in = m.n /\ chat'[s].out = chat[s].out /\ chat'[Other(s)] = chat[Other(s)]
      BY <1>4, ProcessKeeps, OtherSide DEF Inv
    <2>. QED  BY <1>4, <2>1 DEF Steps, InOrder
  <1>5. ASSUME NEW s \in Sides, NEW m, ReceiveNext(s, m) PROVE Goal(s)
    <2>1. m \in MessageSet /\ m.n < chat[Other(s)].out /\ UsesNew(s, m) \in BOOLEAN
      BY <1>5, DeliverFacts DEF ReceiveNext, UsesNew
    <2>. QED  BY <1>4, <1>5, <2>1 DEF ReceiveNext
  <1>6. ASSUME NEW s \in Sides, CheckHole(s) PROVE Goal(s)
    <2>1. PICK i \in DOMAIN holes[s] : /\ InOrder(s, holes[s][i].message)
                                     /\ Process(s, holes[s][i].message, holes[s][i].new)
      BY <1>6 DEF CheckHole
    <2>2. /\ holes[s][i].message \in MessageSet /\ holes[s][i].new \in BOOLEAN
          /\ holes[s][i].message.n < chat[Other(s)].out
      BY HeldNumbers DEF Inv, Known
    <2>. QED  BY <1>4, <2>1, <2>2
  <1>7. ASSUME NEW s \in Sides,
               \/ SendFails(s) \/ SendAgain(s) \/ CheckEnds(s) \/ Discard(s)
               \/ \E m : ReceiveAhead(s, m) \/ ReceiveNothing(s, m)
        PROVE  chat' = chat
    BY <1>7 DEF SendFails, SendAgain, CheckEnds, Discard, ReceiveAhead, ReceiveNothing
  <1>8. CASE UNCHANGED vars
    BY <1>1, <1>8 DEF vars
  <1>9. CASE Next
    <2>1. PICK s \in Sides :
            \/ SendText(s) \/ SendPosted(s) \/ SendFails(s) \/ SendAgain(s) \/ KeyGrowsOld(s)
            \/ Receive(s) \/ CheckHole(s) \/ CheckEnds(s) \/ Discard(s)
      BY <1>9 DEF Next
    <2>2. Receive(s) => \/ \E m : ReceiveNext(s, m)
                        \/ \E m : ReceiveAhead(s, m) \/ ReceiveNothing(s, m)
      BY DEF Receive
    <2>3. Goal(s) \/ chat' = chat
      <3>. HIDE DEF Goal
      <3>. QED  BY <1>2, <1>3, <1>5, <1>6, <1>7, <2>1, <2>2
    <2>. QED  BY <1>1, <2>3
  <1>. QED  BY <1>8, <1>9

(* In each direction a step is a step of the channel or none at all.       *)
LEMMA ChannelStep ==
  ASSUME Inv, [Next]_vars, NEW t \in Sides
  PROVE  [Channel(t)!Next]_<<chat[t].out, chat[Other(t)].in>>
  <1>1. PICK s \in Sides : Steps(s) /\ chat'[Other(s)].in = chat[Other(s)].in
                         /\ chat'[Other(s)].out = chat[Other(s)].out
    BY NumbersStep
  <1>2. CASE t = s
    BY <1>1, <1>2 DEF Steps, Channel!Next, Channel!Send, Channel!Show
  <1>3. CASE t = Other(s)
    BY <1>1, <1>3, OtherSide DEF Steps, Channel!Next, Channel!Send, Channel!Show
  <1>. QED  BY <1>2, <1>3, OtherSide

(* What is processed in either direction is what InOrderChannel brings,    *)
(* whatever the network does to the messages: each right after the one     *)
(* before it.  But the last one processed may come again and be processed  *)
(* again (the number stays), and as long as that number is 0 the first may *)
(* be passed over.                                                         *)
THEOREM KeepsOrder == Spec => InOrderBothWays
  <1>1. Inv /\ [Next]_vars =>
          [\A s \in Sides : [Channel(s)!Next]_<<chat[s].out, chat[Other(s)].in>>]_vars
    BY ChannelStep
  <1>. QED  BY <1>1, AlwaysInv, PTL DEF Spec, InOrderBothWays

(* The messages of a side implement the channel, with the same exceptions. *)
THEOREM ImplementsChannel ==
  ASSUME NEW s \in Sides
  PROVE  Spec => Channel(s)!Spec
  <1>1. Init => Channel(s)!Init
    BY SecretChatAssumption, OtherSide DEF Init, Channel!Init
  <1>2. Inv /\ [Next]_vars => [Channel(s)!Next]_<<chat[s].out, chat[Other(s)].in>>
    BY ChannelStep
  <1>. QED  BY <1>1, <1>2, AlwaysInv, PTL DEF Spec, Channel!Spec

-----------------------------------------------------------------------------
(* Exchanging keys.  What the invariant says of the two sides is said of   *)
(* values: of a side, its chat c, the messages I that it has still to      *)
(* process, the service messages q that it has posted, those of I that it  *)
(* holds, N under a new key and O under the present one when they came,    *)
(* and w, that it misses no message.                                       *)

Control(a) == a.op \notin {"text", "noop"}

(* The stream to a side, what it has still to process and then what the    *)
(* other has posted: no control message is in it; or only those of C and   *)
(* the last one, a; or a is in it.                                         *)
Quietly(I, q) == (\A m \in I : ~Control(m.action)) /\ \A i \in DOMAIN q : ~Control(q[i])
OnlyLast(I, q, C, a) ==
    /\ \A m \in I : Control(m.action) => m.action \in C \cup {a}
    /\ \A i \in DOMAIN q : Control(q[i]) => q[i] \in C \cup {a}
    /\ \A m \in I : m.action = a => /\ \A x \in I : x.n > m.n => ~Control(x.action)
                                    /\ \A i \in DOMAIN q : ~Control(q[i])
    /\ \A i, j \in DOMAIN q : q[i] = a /\ i < j => ~Control(q[j])
Comes(I, q, a) == (\E m \in I : m.action = a) \/ \E i \in DOMAIN q : q[i] = a

(* The keys of the messages: all k, or first o and then k.                 *)
Under(I, k) == \A m \in I : m.key = k
FirstThen(I, o, k) ==
    /\ \A m \in I : m.key = k \/ (m.key = o /\ o # 0)
    /\ \A m, x \in I : m.key = k /\ x.key # k => x.n < m.n

(* The request that lost against a later one, and its end.                 *)
Older(e) == {a \in ActionSet : a.op \in {"requestKey", "abortKey"} /\ a.exchange < e}

(* The stages of an exchange that r asked for.                             *)
Idle(cr, cp, Ir, Ip, qr, qp) ==
    /\ cr.exchange = 0 /\ cr.future = 0 /\ cp.exchange = 0 /\ cp.key = cr.key /\ cp.future # cr.key
    /\ Under(Ir, cr.key) /\ FirstThen(Ip, cp.future, cr.key)
    /\ Quietly(Ir, qp) /\ Quietly(Ip, qr)

Asked(cr, cp, Ir, Ip, qr, qp, Nr, Np, wp) ==
    /\ cr.exchange # 0 /\ cr.future = 0 /\ cp.exchange = 0 /\ cp.key = cr.key /\ cp.future # cr.key
    /\ Under(Ir, cr.key) /\ FirstThen(Ip, cp.future, cr.key) /\ Nr = {}
    /\ Quietly(Ir, qp) /\ OnlyLast(Ip, qr, {}, RequestKey(cr.exchange))
    /\ \A x \in Ip : Control(x.action) => x.key = cr.key /\ \A m \in Np : m.n < x.n
    /\ wp => Comes(Ip, qr, RequestKey(cr.exchange))

BothAsked(cr, cp, Ir, Ip, qr, qp, Nr, Np, wp) ==
    /\ cr.exchange > cp.exchange /\ cp.exchange # 0 /\ cr.future = 0 /\ cp.future = 0 /\ cp.key = cr.key
    /\ Under(Ir, cr.key) /\ Under(Ip, cr.key) /\ Nr = {} /\ Np = {}
    /\ OnlyLast(Ip, qr, {}, RequestKey(cr.exchange)) /\ OnlyLast(Ir, qp, {}, RequestKey(cp.exchange))
    /\ wp => Comes(Ip, qr, RequestKey(cr.exchange))

Accepted(cr, cp, Ir, Ip, qr, qp, Nr, Np, wr) ==
    /\ cr.exchange = cp.exchange /\ cr.exchange # 0 /\ cr.future = 0 /\ cp.future \notin {0, cr.key} /\ cp.key = cr.key
    /\ Under(Ir, cr.key) /\ Under(Ip, cr.key) /\ Nr = {} /\ Np = {}
    /\ Quietly(Ip, qr) /\ OnlyLast(Ir, qp, Older(cr.exchange), AcceptKey(cr.exchange, cp.future))
    /\ wr => Comes(Ir, qp, AcceptKey(cr.exchange, cp.future))

Committed(cr, cp, Ir, Ip, qr, qp, Nr, Np, wp) ==
    /\ cr.exchange = cp.exchange /\ cr.exchange # 0 /\ cr.future = cp.future /\ cp.future \notin {0, cr.key} /\ cp.key = cr.key
    /\ Under(Ir, cr.key) /\ Under(Ip, cr.key) /\ Nr = {} /\ Np = {}
    /\ Quietly(Ir, qp) /\ OnlyLast(Ip, qr, {}, CommitKey(cr.exchange, cr.future))
    /\ wp => Comes(Ip, qr, CommitKey(cr.exchange, cr.future))

Switching(cr, cp, Ir, Ip, qr, qp, Nr, Or, wr) ==
    /\ cr.exchange # 0 /\ cp.exchange = 0 /\ cr.future = cp.key /\ cp.future = cr.key /\ cr.key # cp.key
    /\ Under(Ip, cr.key) /\ FirstThen(Ir, cr.key, cp.key)
    /\ Under(Nr, cp.key) /\ Under(Or, cr.key)
    /\ Quietly(Ir, qp) /\ Quietly(Ip, qr)
    /\ wr => qp # <<>> \/ \E m \in Ir : m.key = cp.key

Between(cr, cp, Ir, Ip, qr, qp, Nr, Np, Or, wr, wp) ==
    \/ Idle(cr, cp, Ir, Ip, qr, qp)
    \/ Asked(cr, cp, Ir, Ip, qr, qp, Nr, Np, wp)
    \/ BothAsked(cr, cp, Ir, Ip, qr, qp, Nr, Np, wp)
    \/ Accepted(cr, cp, Ir, Ip, qr, qp, Nr, Np, wr)
    \/ Committed(cr, cp, Ir, Ip, qr, qp, Nr, Np, wp)
    \/ Switching(cr, cp, Ir, Ip, qr, qp, Nr, Or, wr)

(* One of the sides asked for the exchange.                                *)
Link(c, d, I, J, q, p, N, M, O, P, w, v) ==
    /\ c.key # 0 /\ d.key # 0
    /\ \/ Between(c, d, I, J, q, p, N, M, O, w, v)
       \/ Between(d, c, J, I, p, q, M, N, P, v, w)

Held(l) == {l[i].message : i \in DOMAIN l}
HeldNew(l) == {l[i].message : i \in {j \in DOMAIN l : l[j].new}}
HeldOld(l) == {l[i].message : i \in {j \in DOMAIN l : ~l[j].new}}
Coming(s) == net[Other(s)] \cup Held(holes[s])
Awaited(s) == {m \in Coming(s) : m.n >= chat[s].in}
Whole(s) == Started = 1 /\ open[s] = "open"

LinkedAt(s) ==
    LET t == Other(s)
    IN  Link(chat[s], chat[t], Awaited(s), Awaited(t), posted[s], posted[t], HeldNew(holes[s]),
             HeldNew(holes[t]), HeldOld(holes[s]), HeldOld(holes[t]), Whole(s), Whole(t))
Exchanging == AsPlanned => \A s \in Sides : LinkedAt(s)

(* No side has processed more than was sent.                               *)
Counted == \A s \in Sides : Started <= chat[s].out /\ (chat[s].in = 0 \/ chat[s].in < chat[Other(s)].out)

(* The keys and the exchanges are among those that were made.              *)
Made(X, k, a) == a.exchange \in {0} \cup X /\ a.key <= k
ChatMade(X, k, c) == Made(X, k, c) /\ c.future <= k
AllMade(X, k, q) == \A i \in DOMAIN q : Made(X, k, q[i])
KnownIn(X, k) ==
    \A s \in Sides :
        /\ ChatMade(X, k, chat[s]) /\ AllMade(X, k, posted[s])
        /\ \A m \in net[s] \cup copies[s] \cup failed[s] : Made(X, k, m.action)
        /\ \A i \in DOMAIN holes[s] : Made(X, k, holes[s][i].message.action)
KeysKnown == KnownIn(exchanges, keys)

(* While every message arrives once, it is in one place.                   *)
Single ==
    repeats = 0 /\ fails = 0 =>
        \A s \in Sides :
            /\ copies[s] = {} /\ failed[s] = {}
            /\ \A m, x \in Coming(s) : m.n = x.n => m = x
            /\ \A i \in DOMAIN holes[s] : holes[s][i].message \notin net[Other(s)]
            /\ \A i, j \in DOMAIN holes[s] : holes[s][i].message = holes[s][j].message => i = j
            /\ \A m \in Coming(s) : Started <= m.n /\ (chat[s].in < m.n \/ m.n = 0)

ChatInv == Inv /\ Counted /\ KeysKnown /\ Single /\ Exchanging /\ NoneMissing

-----------------------------------------------------------------------------
(* How a stream changes.                                                   *)

(* A sequence with one more at the end, or one less in front.              *)
LEMMA Appended ==
  ASSUME NEW S, NEW q \in Seq(S), NEW a \in S
  PROVE  /\ Append(q, a) \in Seq(S) /\ Append(q, a) # <<>>
         /\ \A i \in DOMAIN Append(q, a) : \/ i \in DOMAIN q /\ Append(q, a)[i] = q[i] /\ i <= Len(q)
                                           \/ i = Len(q) + 1 /\ Append(q, a)[i] = a
         /\ \E i \in DOMAIN Append(q, a) : Append(q, a)[i] = a
         /\ \A i \in DOMAIN q : i \in DOMAIN Append(q, a) /\ Append(q, a)[i] = q[i]
         /\ DOMAIN Append(q, a) \subseteq Nat /\ Len(q) \in Nat
  <1>. DEFINE r == Append(q, a)
  <1>1. /\ Len(q) \in Nat /\ DOMAIN q = 1 .. Len(q)
        /\ r \in Seq(S) /\ Len(r) = Len(q) + 1
        /\ \A i \in 1 .. Len(q) : r[i] = q[i]
        /\ r[Len(q) + 1] = a
    BY AppendProperties, LenProperties
  <1>. HIDE DEF r
  <1>2. DOMAIN r = 1 .. Len(q) + 1
    BY <1>1, LenProperties
  <1>3. r # <<>>
    <2>1. Len(r) # 0
      BY <1>1
    <2>. QED  BY <2>1
  <1>4. \A i \in DOMAIN r : \/ i \in DOMAIN q /\ r[i] = q[i] /\ i <= Len(q)
                            \/ i = Len(q) + 1 /\ r[i] = a
    BY <1>1, <1>2
  <1>5. /\ \E i \in DOMAIN r : r[i] = a
        /\ \A i \in DOMAIN q : i \in DOMAIN r /\ r[i] = q[i]
        /\ DOMAIN r \subseteq Nat
    BY <1>1, <1>2
  <1>. QED  BY <1>1, <1>3, <1>4, <1>5 DEF r

(* What is left of a sequence without its first element.                    *)
LEMMA WithoutHead ==
  ASSUME NEW S, NEW q \in Seq(S), q # <<>>
  PROVE  /\ Tail(q) \in Seq(S) /\ Head(q) = q[1] /\ 1 \in DOMAIN q /\ Head(q) \in S
         /\ \A i \in DOMAIN Tail(q) : i + 1 \in DOMAIN q /\ Tail(q)[i] = q[i + 1] /\ 1 < i + 1
         /\ \A i \in DOMAIN q : i = 1 \/ (i - 1 \in DOMAIN Tail(q) /\ q[i] = Tail(q)[i - 1])
         /\ DOMAIN q \subseteq Nat /\ DOMAIN Tail(q) \subseteq Nat
OBVIOUS

(* The kinds of messages differ.                                           *)
LEMMA Kinds ==
  ASSUME NEW e, NEW f, NEW k
  PROVE  /\ ~Control(Text) /\ ~Control(Noop)
         /\ Control(RequestKey(e)) /\ Control(AbortKey(e)) /\ Control(AcceptKey(e, k)) /\ Control(CommitKey(e, k))
         /\ RequestKey(e) # AcceptKey(f, k) /\ AbortKey(e) # AcceptKey(f, k) /\ RequestKey(e) # AbortKey(f)
         /\ AcceptKey(e, k).op = "acceptKey" /\ RequestKey(e).op = "requestKey"
         /\ CommitKey(e, k).op = "commitKey" /\ AbortKey(e).op = "abortKey"
BY DEF Control, Text, Noop, RequestKey, AbortKey, AcceptKey, CommitKey, Action

(* A control message that follows others is the last one.                  *)
LEMMA LastAppended ==
  ASSUME NEW I \in SUBSET MessageSet, NEW q \in Seq(ActionSet), NEW C, NEW D, NEW b, NEW a \in ActionSet,
         OnlyLast(I, q, C, b), C \subseteq D, b \in D, a \notin D, Control(a)
  PROVE  OnlyLast(I, Append(q, a), D, a) /\ Comes(I, Append(q, a), a)
  <1>. DEFINE r == Append(q, a)
  <1>1. /\ \A i \in DOMAIN r : \/ i \in DOMAIN q /\ r[i] = q[i] /\ i <= Len(q)
                               \/ i = Len(q) + 1 /\ r[i] = a
        /\ \E i \in DOMAIN r : r[i] = a
        /\ DOMAIN r \subseteq Nat /\ Len(q) \in Nat
    BY Appended
  <1>. HIDE DEF r
  <1>2. /\ \A m \in I : Control(m.action) => m.action \in D
        /\ \A i \in DOMAIN q : Control(q[i]) => q[i] \in D
    BY DEF OnlyLast
  <1>3. \A m \in I : m.action # a
    BY <1>2
  <1>4. \A i \in DOMAIN r : Control(r[i]) => r[i] \in D \cup {a}
    BY <1>1, <1>2
  <1>5. \A i \in DOMAIN r : r[i] = a => i = Len(q) + 1
    BY <1>1, <1>2
  <1>6. \A i, j \in DOMAIN r : ~(r[i] = a /\ i < j)
    <2>. SUFFICES ASSUME NEW i \in DOMAIN r, NEW j \in DOMAIN r, r[i] = a, i < j PROVE FALSE
      OBVIOUS
    <2>1. i = Len(q) + 1 /\ (j <= Len(q) \/ j = Len(q) + 1) /\ j \in Nat
      BY <1>1, <1>5
    <2>. QED  BY <1>1, <2>1
  <1>7. OnlyLast(I, r, D, a)
    BY <1>2, <1>3, <1>4, <1>6 DEF OnlyLast
  <1>. QED  BY <1>1, <1>7 DEF Comes, r

(* A control message that is posted behind none is the last.                *)
LEMMA LastAfterQuiet ==
  ASSUME NEW I \in SUBSET MessageSet, NEW q \in Seq(ActionSet), NEW C, NEW a \in ActionSet,
         Quietly(I, q), a \notin C, Control(a)
  PROVE  OnlyLast(I, Append(q, a), C, a) /\ Comes(I, Append(q, a), a)
  <1>1. ~Control(Noop)
    BY Kinds
  <1>2. OnlyLast(I, q, {}, Noop)
    BY <1>1 DEF OnlyLast, Quietly
  <1>3. OnlyLast(I, q, C, Noop)
    BY <1>2 DEF OnlyLast
  <1>4. OnlyLast(I, Append(q, a), C \cup {Noop}, a) /\ Comes(I, Append(q, a), a)
    <2>1. a \notin C \cup {Noop}
      BY <1>1
    <2>2. C \subseteq C \cup {Noop} /\ Noop \in C \cup {Noop}
      OBVIOUS
    <2>. QED  BY <1>3, <2>1, <2>2, LastAppended
  <1>. QED  BY <1>1, <1>4 DEF OnlyLast

(* Posting a message that is not a control message changes nothing.         *)
LEMMA QuietAppended ==
  ASSUME NEW I \in SUBSET MessageSet, NEW q \in Seq(ActionSet), NEW a \in ActionSet,
         Quietly(I, q), ~Control(a)
  PROVE  Quietly(I, Append(q, a))
  BY Appended DEF Quietly

(* A message is sent: it was posted, or it is a text.                      *)
Sent(q, m, r) == (q # <<>> /\ m.action = Head(q) /\ r = Tail(q)) \/ (~Control(m.action) /\ r = q)

(* Sending moves the first posted message to the end of those on their      *)
(* way, or puts a text there: the stream stays what it was.                 *)
LEMMA StreamSent ==
  ASSUME NEW I \in SUBSET MessageSet, NEW q \in Seq(ActionSet), NEW m \in MessageSet, NEW r,
         Sent(q, m, r), \A x \in I : x.n < m.n
  PROVE  /\ r \in Seq(ActionSet)
         /\ Quietly(I, q) => Quietly(I \cup {m}, r)
         /\ \A C, a : Control(a) /\ OnlyLast(I, q, C, a) => OnlyLast(I \cup {m}, r, C, a)
         /\ \A a : Comes(I, q, a) => Comes(I \cup {m}, r, a)
  <1>1. CASE q # <<>> /\ m.action = Head(q) /\ r = Tail(q)
    <2>1. /\ r \in Seq(ActionSet) /\ m.action = q[1] /\ 1 \in DOMAIN q
          /\ \A i \in DOMAIN r : i + 1 \in DOMAIN q /\ r[i] = q[i + 1] /\ 1 < i + 1
          /\ \A i \in DOMAIN q : i = 1 \/ (i - 1 \in DOMAIN r /\ q[i] = r[i - 1])
          /\ DOMAIN q \subseteq Nat /\ DOMAIN r \subseteq Nat
      BY <1>1, WithoutHead
    <2>2. Quietly(I, q) => Quietly(I \cup {m}, r)
      BY <2>1 DEF Quietly
    <2>3. ASSUME NEW C, NEW a, OnlyLast(I, q, C, a) PROVE OnlyLast(I \cup {m}, r, C, a)
      <3>1. \A x \in I \cup {m} : Control(x.action) => x.action \in C \cup {a}
        BY <2>1, <2>3 DEF OnlyLast
      <3>2. \A i \in DOMAIN r : Control(r[i]) => r[i] \in C \cup {a}
        BY <2>1, <2>3 DEF OnlyLast
      <3>3. \A i, j \in DOMAIN r : r[i] = a /\ i < j => ~Control(r[j])
        <4>. SUFFICES ASSUME NEW i \in DOMAIN r, NEW j \in DOMAIN r, r[i] = a, i < j PROVE ~Control(r[j])
          OBVIOUS
        <4>1. i + 1 \in DOMAIN q /\ j + 1 \in DOMAIN q /\ q[i + 1] = a /\ r[j] = q[j + 1] /\ i + 1 < j + 1
          BY <2>1
        <4>. QED  BY <2>3, <4>1 DEF OnlyLast
      <3>4. ASSUME NEW x \in I, x.action = a
            PROVE  /\ \A y \in I \cup {m} : y.n > x.n => ~Control(y.action)
                   /\ \A i \in DOMAIN r : ~Control(r[i])
        BY <2>1, <2>3, <3>4 DEF OnlyLast
      <3>5. ASSUME m.action = a
            PROVE  /\ \A y \in I \cup {m} : y.n > m.n => ~Control(y.action)
                   /\ \A i \in DOMAIN r : ~Control(r[i])
        <4>1. \A y \in I \cup {m} : ~(y.n > m.n)
          BY DEF MessageSet
        <4>2. \A i \in DOMAIN r : ~Control(r[i])
          <5>. SUFFICES ASSUME NEW i \in DOMAIN r PROVE ~Control(r[i])
            OBVIOUS
          <5>1. q[1] = a /\ 1 \in DOMAIN q /\ i + 1 \in DOMAIN q /\ r[i] = q[i + 1] /\ 1 < i + 1
            BY <2>1, <3>5
          <5>. QED  BY <2>3, <5>1 DEF OnlyLast
        <4>. QED  BY <4>1, <4>2
      <3>. QED  BY <3>1, <3>2, <3>3, <3>4, <3>5 DEF OnlyLast
    <2>4. \A a : Comes(I, q, a) => Comes(I \cup {m}, r, a)
      BY <2>1 DEF Comes
    <2>. QED  BY <2>1, <2>2, <2>3, <2>4
  <1>2. CASE ~Control(m.action) /\ r = q
    <2>1. Quietly(I, q) => Quietly(I \cup {m}, r)
      BY <1>2 DEF Quietly
    <2>2. ASSUME NEW C, NEW a, OnlyLast(I, q, C, a), Control(a) PROVE OnlyLast(I \cup {m}, r, C, a)
      BY <1>2, <2>2 DEF OnlyLast
    <2>4. \A a : Comes(I, q, a) => Comes(I \cup {m}, r, a)
      BY <1>2 DEF Comes
    <2>. QED  BY <1>2, <2>1, <2>2, <2>4
  <1>. QED  BY <1>1, <1>2 DEF Sent

(* A message is taken out, and with it those that are older.               *)
Taken(I, m, J) == m \in I /\ J \subseteq I /\ \A x \in J : m.n < x.n

(* The stream after its first message was taken.                            *)
LEMMA StreamTaken ==
  ASSUME NEW I \in SUBSET MessageSet, NEW q \in Seq(ActionSet), NEW m, NEW J, Taken(I, m, J)
  PROVE  /\ Quietly(I, q) => Quietly(J, q)
         /\ \A C, a : OnlyLast(I, q, C, a) => OnlyLast(J, q, C, a)
         /\ \A C, a : OnlyLast(I, q, C, a) /\ m.action = a => Quietly(J, q)
         /\ \A a : Comes(I, q, a) /\ I \subseteq J \cup {m} /\ m.action # a => Comes(J, q, a)
  <1>1. Quietly(I, q) => Quietly(J, q)
    BY DEF Taken, Quietly
  <1>2. ASSUME NEW C, NEW a, OnlyLast(I, q, C, a) PROVE OnlyLast(J, q, C, a)
    BY <1>2 DEF Taken, OnlyLast
  <1>3. ASSUME NEW C, NEW a, OnlyLast(I, q, C, a), m.action = a PROVE Quietly(J, q)
    <2>1. \A x \in J : x.n > m.n
      BY DEF Taken, MessageSet
    <2>. QED  BY <1>3, <2>1 DEF Taken, OnlyLast, Quietly
  <1>4. \A a : Comes(I, q, a) /\ I \subseteq J \cup {m} /\ m.action # a => Comes(J, q, a)
    BY DEF Comes
  <1>. QED  BY <1>1, <1>2, <1>3, <1>4

(* The stream after messages were lost.                                     *)
LEMMA StreamLess ==
  ASSUME NEW I \in SUBSET MessageSet, NEW q \in Seq(ActionSet), NEW J \in SUBSET I
  PROVE  /\ Quietly(I, q) => Quietly(J, q)
         /\ \A C, a : OnlyLast(I, q, C, a) => OnlyLast(J, q, C, a)
         /\ \A k : Under(I, k) => Under(J, k)
         /\ \A o, k : FirstThen(I, o, k) => FirstThen(J, o, k)
  <1>1. ASSUME NEW C, NEW a, OnlyLast(I, q, C, a) PROVE OnlyLast(J, q, C, a)
    BY <1>1 DEF OnlyLast
  <1>. QED  BY <1>1 DEF Quietly, Under, FirstThen

(* The keys in a stream.                                                   *)
LEMMA KeysSent ==
  ASSUME NEW I \in SUBSET MessageSet, NEW m \in MessageSet, NEW o, NEW k, m.key = k, \A x \in I : x.n < m.n
  PROVE  /\ Under(I, k) => Under(I \cup {m}, k)
         /\ FirstThen(I, o, k) => FirstThen(I \cup {m}, o, k)
  BY DEF Under, FirstThen, MessageSet

(* When a message under the new key was processed, only such are left.      *)
LEMMA KeysTaken ==
  ASSUME NEW I \in SUBSET MessageSet, NEW m, NEW J, NEW o, NEW k, Taken(I, m, J), FirstThen(I, o, k), m.key = k
  PROVE  Under(J, k) /\ FirstThen(J, 0, k)
  <1>1. Under(J, k)
    BY DEF Taken, Under, FirstThen, MessageSet
  <1>. QED  BY <1>1 DEF Under, FirstThen

(* A stream under one key is one without an old key.                        *)
LEMMA KeysFirstThen ==
  ASSUME NEW I \in SUBSET MessageSet, NEW o, NEW k
  PROVE  /\ Under(I, k) => FirstThen(I, o, k)
         /\ FirstThen(I, 0, k) => Under(I, k)
  BY DEF Under, FirstThen

-----------------------------------------------------------------------------
(* How a step changes the stages of an exchange.                           *)

Proper(c, I, q, N, O) ==
    /\ c.key \in Nat /\ c.future \in Nat /\ c.exchange \in {0} \cup ExchangeIds
    /\ I \in SUBSET MessageSet /\ q \in Seq(ActionSet) /\ N \in SUBSET MessageSet /\ O \in SUBSET I
Alike(c, e) == e.key = c.key /\ e.future = c.future /\ e.exchange = c.exchange

(* A message is sent by the side that asked for the exchange,              *)
LEMMA AskerSends ==
  ASSUME NEW c, NEW d, NEW e, NEW I, NEW J, NEW q, NEW p, NEW N, NEW M, NEW O, NEW P, NEW w, NEW v, NEW m \in MessageSet, NEW r,
         Proper(c, I, q, N, O), Proper(d, J, p, M, P), Between(c, d, I, J, q, p, N, M, O, w, v),
         Sent(q, m, r), m.key = c.key, \A x \in J \cup M : x.n < m.n, Alike(c, e)
  PROVE  Between(e, d, I, J \cup {m}, r, p, N, M, O, w, v)
  <1>. DEFINE K == J \cup {m}
  <1>1. /\ I \in SUBSET MessageSet /\ J \in SUBSET MessageSet /\ q \in Seq(ActionSet) /\ p \in Seq(ActionSet)
        /\ \A x \in J : x.n < m.n
    BY DEF Proper
  <1>2. /\ r \in Seq(ActionSet)
        /\ Quietly(J, q) => Quietly(K, r)
        /\ \A C, a : Control(a) /\ OnlyLast(J, q, C, a) => OnlyLast(K, r, C, a)
        /\ \A a : Comes(J, q, a) => Comes(K, r, a)
    BY <1>1, StreamSent
  <1>3. /\ Under(J, c.key) => Under(K, c.key)
        /\ \A o : FirstThen(J, o, c.key) => FirstThen(K, o, c.key)
    BY <1>1, KeysSent
  <1>4. e.key = c.key /\ e.future = c.future /\ e.exchange = c.exchange
    BY DEF Alike
  <1>5. \A f, k : Control(RequestKey(f)) /\ Control(AcceptKey(f, k)) /\ Control(CommitKey(f, k))
    BY Kinds
  <1>6. \A x \in K : x \in J \/ x = m
    OBVIOUS
  <1>. HIDE DEF K
  <1>a. CASE Idle(c, d, I, J, q, p)
    <2>. Idle(e, d, I, K, r, p)
      BY <1>a, <1>2, <1>3, <1>4 DEF Idle
    <2>. QED  BY DEF Between, K
  <1>b. CASE Asked(c, d, I, J, q, p, N, M, v)
    <2>1. \A x \in K : Control(x.action) => x.key = c.key /\ \A y \in M : y.n < x.n
      BY <1>b, <1>6 DEF Asked
    <2>. Asked(e, d, I, K, r, p, N, M, v)
      BY <1>b, <1>2, <1>3, <1>4, <1>5, <2>1 DEF Asked
    <2>. QED  BY DEF Between, K
  <1>c. CASE BothAsked(c, d, I, J, q, p, N, M, v)
    <2>. BothAsked(e, d, I, K, r, p, N, M, v)
      BY <1>c, <1>2, <1>3, <1>4, <1>5 DEF BothAsked
    <2>. QED  BY DEF Between, K
  <1>d. CASE Accepted(c, d, I, J, q, p, N, M, w)
    <2>. Accepted(e, d, I, K, r, p, N, M, w)
      BY <1>d, <1>2, <1>3, <1>4, <1>5 DEF Accepted
    <2>. QED  BY DEF Between, K
  <1>e. CASE Committed(c, d, I, J, q, p, N, M, v)
    <2>. Committed(e, d, I, K, r, p, N, M, v)
      BY <1>e, <1>2, <1>3, <1>4, <1>5 DEF Committed
    <2>. QED  BY DEF Between, K
  <1>f. CASE Switching(c, d, I, J, q, p, N, O, w)
    <2>. Switching(e, d, I, K, r, p, N, O, w)
      BY <1>f, <1>2, <1>3, <1>4, <1>5 DEF Switching
    <2>. QED  BY DEF Between, K
  <1>. QED  BY <1>a, <1>b, <1>c, <1>d, <1>e, <1>f DEF Between

(* or by the other one.                                                    *)
LEMMA AskedSends ==
  ASSUME NEW c, NEW d, NEW e, NEW I, NEW J, NEW q, NEW p, NEW N, NEW M, NEW O, NEW P, NEW w, NEW v, NEW m \in MessageSet, NEW r,
         Proper(c, I, q, N, O), Proper(d, J, p, M, P), Between(d, c, J, I, p, q, M, N, P, v, w),
         Sent(q, m, r), m.key = c.key, \A x \in J \cup M : x.n < m.n, Alike(c, e)
  PROVE  Between(d, e, J \cup {m}, I, p, r, M, N, P, v, w)
  <1>. DEFINE K == J \cup {m}
  <1>1. /\ I \in SUBSET MessageSet /\ J \in SUBSET MessageSet /\ q \in Seq(ActionSet) /\ p \in Seq(ActionSet)
        /\ \A x \in J : x.n < m.n
    BY DEF Proper
  <1>2. /\ r \in Seq(ActionSet)
        /\ Quietly(J, q) => Quietly(K, r)
        /\ \A C, a : Control(a) /\ OnlyLast(J, q, C, a) => OnlyLast(K, r, C, a)
        /\ \A a : Comes(J, q, a) => Comes(K, r, a)
    BY <1>1, StreamSent
  <1>3. /\ Under(J, c.key) => Under(K, c.key)
        /\ \A o : FirstThen(J, o, c.key) => FirstThen(K, o, c.key)
    BY <1>1, KeysSent
  <1>4. e.key = c.key /\ e.future = c.future /\ e.exchange = c.exchange
    BY DEF Alike
  <1>5. \A f, k : Control(RequestKey(f)) /\ Control(AcceptKey(f, k)) /\ Control(CommitKey(f, k))
    BY Kinds
  <1>6. \A x \in K : x \in J \/ x = m
    OBVIOUS
  <1>7. m \in K
    OBVIOUS
  <1>. HIDE DEF K
  <1>a. CASE Idle(d, c, J, I, p, q)
    <2>. Idle(d, e, K, I, p, r)
      BY <1>a, <1>2, <1>3, <1>4 DEF Idle
    <2>. QED  BY DEF Between, K
  <1>b. CASE Asked(d, c, J, I, p, q, M, N, w)
    <2>. Asked(d, e, K, I, p, r, M, N, w)
      BY <1>b, <1>2, <1>3, <1>4, <1>5 DEF Asked
    <2>. QED  BY DEF Between, K
  <1>c. CASE BothAsked(d, c, J, I, p, q, M, N, w)
    <2>. BothAsked(d, e, K, I, p, r, M, N, w)
      BY <1>c, <1>2, <1>3, <1>4, <1>5 DEF BothAsked
    <2>. QED  BY DEF Between, K
  <1>d. CASE Accepted(d, c, J, I, p, q, M, N, v)
    <2>. Accepted(d, e, K, I, p, r, M, N, v)
      BY <1>d, <1>2, <1>3, <1>4, <1>5 DEF Accepted
    <2>. QED  BY DEF Between, K
  <1>e. CASE Committed(d, c, J, I, p, q, M, N, w)
    <2>. Committed(d, e, K, I, p, r, M, N, w)
      BY <1>e, <1>2, <1>3, <1>4, <1>5 DEF Committed
    <2>. QED  BY DEF Between, K
  <1>f. CASE Switching(d, c, J, I, p, q, M, P, v)
    <2>. Switching(d, e, K, I, p, r, M, P, v)
      BY <1>f, <1>2, <1>3, <1>4, <1>5, <1>7 DEF Switching
    <2>. QED  BY DEF Between, K
  <1>. QED  BY <1>a, <1>b, <1>c, <1>d, <1>e, <1>f DEF Between

(* A message that is sent changes no stage.                                 *)
LEMMA LinkSends ==
  ASSUME NEW c, NEW d, NEW e, NEW I, NEW J, NEW q, NEW p, NEW N, NEW M, NEW O, NEW P, NEW w, NEW v, NEW m \in MessageSet, NEW r,
         Proper(c, I, q, N, O), Proper(d, J, p, M, P), Link(c, d, I, J, q, p, N, M, O, P, w, v),
         Sent(q, m, r), m.key = c.key, \A x \in J \cup M : x.n < m.n, Alike(c, e)
  PROVE  Link(e, d, I, J \cup {m}, r, p, N, M, O, P, w, v)
  <1>1. c.key # 0 /\ d.key # 0 /\ e.key = c.key
    BY DEF Link, Alike
  <1>2. \/ Between(c, d, I, J, q, p, N, M, O, w, v)
        \/ Between(d, c, J, I, p, q, M, N, P, v, w)
    BY DEF Link
  <1>3. \/ Between(e, d, I, J \cup {m}, r, p, N, M, O, w, v)
        \/ Between(d, e, J \cup {m}, I, p, r, M, N, P, v, w)
    BY <1>2, AskerSends, AskedSends
  <1>. QED  BY <1>1, <1>3 DEF Link

(* An exchange begins: the side's last one is over, and no message that it *)
(* holds is under a newer key.                                             *)
LEMMA LinkStarts ==
  ASSUME NEW c, NEW d, NEW e, NEW I, NEW J, NEW q, NEW p, NEW N, NEW M, NEW O, NEW P, NEW w, NEW v, NEW id \in ExchangeIds,
         Proper(c, I, q, N, O), Proper(d, J, p, M, P), Link(c, d, I, J, q, p, N, M, O, P, w, v),
         c.exchange = 0, c.future = 0, N = {}, id # d.exchange,
         e.key = c.key, e.future = c.future, e.exchange = id
  PROVE  Link(e, d, I, J, Append(q, RequestKey(id)), p, N, M, O, P, w, v)
  <1>. DEFINE a == RequestKey(id)
               r == Append(q, a)
  <1>1. /\ I \in SUBSET MessageSet /\ J \in SUBSET MessageSet /\ q \in Seq(ActionSet) /\ p \in Seq(ActionSet)
        /\ c.key # 0 /\ d.key # 0 /\ e.key # 0
    BY DEF Proper, Link
  <1>2. id \in Nat /\ id # 0 /\ a \in ActionSet /\ Control(a) /\ d.exchange \in Nat
    BY SecretChatAssumption, Kinds DEF a, RequestKey, Action, ActionSet, Proper
  <1>3. Quietly(J, q) => OnlyLast(J, r, {}, a) /\ Comes(J, r, a)
    BY <1>1, <1>2, LastAfterQuiet
  <1>4. /\ \A k : FirstThen(I, 0, k) => Under(I, k)
        /\ \A k : FirstThen(J, 0, k) => Under(J, k)
        /\ \A o, k : Under(J, k) => FirstThen(J, o, k)
    BY <1>1, KeysFirstThen
  <1>. HIDE DEF r
  <1>5. a = RequestKey(e.exchange)
    OBVIOUS
  <1>. HIDE DEF a
  <1>6. Quietly(J, q) => \A x \in J : ~Control(x.action)
    BY DEF Quietly
  <1>a. CASE Idle(c, d, I, J, q, p)
    <2>. Asked(e, d, I, J, r, p, N, M, v)
      BY <1>a, <1>1, <1>2, <1>3, <1>5, <1>6 DEF Idle, Asked
    <2>. QED  BY <1>1 DEF Between, Link, r, a
  <1>b. CASE Idle(d, c, J, I, p, q)
    <2>. Asked(e, d, I, J, r, p, N, M, v)
      BY <1>b, <1>1, <1>2, <1>3, <1>4, <1>5, <1>6 DEF Idle, Asked
    <2>. QED  BY <1>1 DEF Between, Link, r, a
  <1>c. CASE Asked(d, c, J, I, p, q, M, N, w)
    <2>1. CASE d.exchange > id
      <3>. BothAsked(d, e, J, I, p, r, M, N, w)
        BY <1>c, <1>1, <1>2, <1>3, <1>4, <1>5, <2>1 DEF Asked, BothAsked
      <3>. QED  BY <1>1 DEF Between, Link, r, a
    <2>2. CASE id > d.exchange
      <3>. BothAsked(e, d, I, J, r, p, N, M, v)
        BY <1>c, <1>1, <1>2, <1>3, <1>4, <1>5, <2>2 DEF Asked, BothAsked
      <3>. QED  BY <1>1 DEF Between, Link, r, a
    <2>. QED  BY <1>2, <2>1, <2>2
  <1>d. \/ Idle(c, d, I, J, q, p) \/ Idle(d, c, J, I, p, q) \/ Asked(d, c, J, I, p, q, M, N, w)
    <2>1. ~Asked(c, d, I, J, q, p, N, M, v) /\ ~BothAsked(c, d, I, J, q, p, N, M, v)
      BY <1>2 DEF Asked, BothAsked
    <2>2. ~Accepted(c, d, I, J, q, p, N, M, w) /\ ~Committed(c, d, I, J, q, p, N, M, v)
      BY DEF Accepted, Committed
    <2>3. ~Switching(c, d, I, J, q, p, N, O, w)
      BY DEF Switching
    <2>4. ~BothAsked(d, c, J, I, p, q, M, N, w) /\ ~Accepted(d, c, J, I, p, q, M, N, v)
      BY DEF BothAsked, Accepted
    <2>5. ~Committed(d, c, J, I, p, q, M, N, w) /\ ~Switching(d, c, J, I, p, q, M, P, v)
      BY <1>1 DEF Committed, Switching
    <2>. QED  BY <2>1, <2>2, <2>3, <2>4, <2>5 DEF Link, Between
  <1>. QED  BY <1>a, <1>b, <1>c, <1>d

(* A message is held back.                                                 *)
LEMMA LinkHolds ==
  ASSUME NEW c, NEW d, NEW I, NEW J, NEW q, NEW p, NEW N, NEW M, NEW O, NEW P, NEW w, NEW v, NEW m \in I, NEW L, NEW Q,
         Proper(c, I, q, N, O), Proper(d, J, p, M, P), Link(c, d, I, J, q, p, N, M, O, P, w, v),
         L \subseteq IF m.key # c.key THEN N \cup {m} ELSE N,
         Q \subseteq IF m.key = c.key THEN O \cup {m} ELSE O
  PROVE  Link(c, d, I, J, q, p, L, M, Q, P, w, v)
  <1>1. c.key # 0 /\ d.key # 0 /\ I \subseteq MessageSet
    BY DEF Link, Proper
  <1>2. CASE Between(c, d, I, J, q, p, N, M, O, w, v)
    <2>1. Under(I, c.key) => L \subseteq N
      BY DEF Under
    <2>2. Switching(c, d, I, J, q, p, N, O, w) => Under(L, d.key) /\ Under(Q, c.key)
      BY DEF Switching, Under, FirstThen
    <2>3. Between(c, d, I, J, q, p, L, M, Q, w, v)
      <3>1. Asked(c, d, I, J, q, p, N, M, v) => Asked(c, d, I, J, q, p, L, M, v)
        BY <2>1 DEF Asked
      <3>2. BothAsked(c, d, I, J, q, p, N, M, v) => BothAsked(c, d, I, J, q, p, L, M, v)
        BY <2>1 DEF BothAsked
      <3>3. Accepted(c, d, I, J, q, p, N, M, w) => Accepted(c, d, I, J, q, p, L, M, w)
        BY <2>1 DEF Accepted
      <3>4. Committed(c, d, I, J, q, p, N, M, v) => Committed(c, d, I, J, q, p, L, M, v)
        BY <2>1 DEF Committed
      <3>5. Switching(c, d, I, J, q, p, N, O, w) => Switching(c, d, I, J, q, p, L, Q, w)
        BY <2>2 DEF Switching
      <3>. QED  BY <1>2, <3>1, <3>2, <3>3, <3>4, <3>5 DEF Between
    <2>. QED  BY <1>1, <2>3 DEF Link
  <1>3. CASE Between(d, c, J, I, p, q, M, N, P, v, w)
    <2>1. Under(I, c.key) => L \subseteq N
      BY DEF Under
    <2>2. Between(d, c, J, I, p, q, M, L, P, v, w)
      <3>1. ASSUME Asked(d, c, J, I, p, q, M, N, w) PROVE Asked(d, c, J, I, p, q, M, L, w)
        <4>1. ASSUME NEW x \in I, Control(x.action), NEW y \in L PROVE y.n < x.n
          <5>1. x.key = c.key /\ \A z \in N : z.n < x.n
            BY <3>1, <4>1 DEF Asked
          <5>2. y \in N \/ (y = m /\ m.key # c.key)
            OBVIOUS
          <5>3. FirstThen(I, c.future, c.key)
            BY <3>1 DEF Asked
          <5>. QED  BY <5>1, <5>2, <5>3 DEF FirstThen
        <4>. QED  BY <3>1, <4>1 DEF Asked
      <3>2. BothAsked(d, c, J, I, p, q, M, N, w) => BothAsked(d, c, J, I, p, q, M, L, w)
        BY <2>1 DEF BothAsked
      <3>3. Accepted(d, c, J, I, p, q, M, N, v) => Accepted(d, c, J, I, p, q, M, L, v)
        BY <2>1 DEF Accepted
      <3>4. Committed(d, c, J, I, p, q, M, N, w) => Committed(d, c, J, I, p, q, M, L, w)
        BY <2>1 DEF Committed
      <3>. QED  BY <1>3, <3>1, <3>2, <3>3, <3>4 DEF Between
    <2>. QED  BY <1>1, <2>2 DEF Link
  <1>. QED  BY <1>2, <1>3 DEF Link

(* Messages are thrown away, by a side that then may miss some.            *)
LEMMA LinkLoses ==
  ASSUME NEW c, NEW d, NEW e, NEW I, NEW J, NEW q, NEW p, NEW N, NEW M, NEW O, NEW P, NEW w, NEW v,
         NEW K \in SUBSET I, NEW L \in SUBSET N, NEW Q \in SUBSET O, NEW u,
         Proper(c, I, q, N, O), Proper(d, J, p, M, P), Link(c, d, I, J, q, p, N, M, O, P, w, v),
         u => w /\ K = I, Alike(c, e)
  PROVE  Link(e, d, K, J, q, p, L, M, Q, P, u, v)
  <1>1. /\ c.key # 0 /\ d.key # 0 /\ e.key = c.key /\ e.future = c.future /\ e.exchange = c.exchange
        /\ I \in SUBSET MessageSet /\ p \in Seq(ActionSet)
    BY DEF Link, Proper, Alike
  <1>2. /\ Quietly(I, p) => Quietly(K, p)
        /\ \A C, a : OnlyLast(I, p, C, a) => OnlyLast(K, p, C, a)
        /\ \A k : Under(I, k) => Under(K, k)
        /\ \A o, k : FirstThen(I, o, k) => FirstThen(K, o, k)
    BY <1>1, StreamLess
  <1>3. (\A k : Under(N, k) => Under(L, k)) /\ (\A k : Under(O, k) => Under(Q, k))
    BY DEF Under
  <1>4. CASE Between(c, d, I, J, q, p, N, M, O, w, v)
    <2>1. Idle(c, d, I, J, q, p) => Idle(e, d, K, J, q, p)
      BY <1>1, <1>2 DEF Idle
    <2>2. Asked(c, d, I, J, q, p, N, M, v) => Asked(e, d, K, J, q, p, L, M, v)
      BY <1>1, <1>2 DEF Asked
    <2>3. BothAsked(c, d, I, J, q, p, N, M, v) => BothAsked(e, d, K, J, q, p, L, M, v)
      BY <1>1, <1>2 DEF BothAsked
    <2>4. Accepted(c, d, I, J, q, p, N, M, w) => Accepted(e, d, K, J, q, p, L, M, u)
      BY <1>1, <1>2 DEF Accepted
    <2>5. Committed(c, d, I, J, q, p, N, M, v) => Committed(e, d, K, J, q, p, L, M, v)
      BY <1>1, <1>2 DEF Committed
    <2>6. Switching(c, d, I, J, q, p, N, O, w) => Switching(e, d, K, J, q, p, L, Q, u)
      BY <1>1, <1>2, <1>3 DEF Switching
    <2>. QED  BY <1>1, <1>4, <2>1, <2>2, <2>3, <2>4, <2>5, <2>6 DEF Between, Link
  <1>5. CASE Between(d, c, J, I, p, q, M, N, P, v, w)
    <2>1. Idle(d, c, J, I, p, q) => Idle(d, e, J, K, p, q)
      BY <1>1, <1>2 DEF Idle
    <2>2. Asked(d, c, J, I, p, q, M, N, w) => Asked(d, e, J, K, p, q, M, L, u)
      BY <1>1, <1>2 DEF Asked
    <2>3. BothAsked(d, c, J, I, p, q, M, N, w) => BothAsked(d, e, J, K, p, q, M, L, u)
      BY <1>1, <1>2 DEF BothAsked
    <2>4. Accepted(d, c, J, I, p, q, M, N, v) => Accepted(d, e, J, K, p, q, M, L, v)
      BY <1>1, <1>2 DEF Accepted
    <2>5. Committed(d, c, J, I, p, q, M, N, w) => Committed(d, e, J, K, p, q, M, L, u)
      BY <1>1, <1>2 DEF Committed
    <2>6. Switching(d, c, J, I, p, q, M, P, v) => Switching(d, e, J, K, p, q, M, P, v)
      BY <1>1, <1>2 DEF Switching
    <2>. QED  BY <1>1, <1>5, <2>1, <2>2, <2>3, <2>4, <2>5, <2>6 DEF Between, Link
  <1>. QED  BY <1>4, <1>5 DEF Link

(* The identifiers of exchanges are compared as numbers.                   *)
LEMMA IdsAreNumbers == \A e \in {0} \cup ExchangeIds : e \in Nat
  BY SecretChatAssumption

(* How a message changes the keys of a side.                               *)
LEMMA SwitchedFacts ==
  ASSUME NEW c \in ChatSet, NEW new \in BOOLEAN
  PROVE  LET b == Switched(c, new) IN
         /\ b \in ChatSet
         /\ c.exchange = 0 /\ c.future # 0 /\ ~new => b.key = c.key /\ b.future = 0 /\ b.exchange = 0
         /\ c.exchange # 0 /\ new => b.key = c.future /\ b.future = 0 /\ b.exchange = 0
         /\ ~(c.exchange = 0 /\ c.future # 0 /\ ~new) /\ ~(c.exchange # 0 /\ new) => b = c
  BY DEF Switched, ChatSet

HandledAs(c, a, f, h) ==
    /\ ~Control(a) => h.chat = c /\ h.post = <<>>
    /\ a.op = "requestKey" /\ c.exchange > a.exchange => h.chat = c /\ h.post = <<>>
    /\ a.op = "requestKey" /\ ~(c.exchange > a.exchange) =>
         /\ h.chat.key = c.key /\ h.chat.future = f /\ h.chat.exchange = a.exchange
         /\ h.post = (IF c.exchange # 0 THEN <<AbortKey(c.exchange)>> ELSE <<>>) \o <<AcceptKey(a.exchange, f)>>
    /\ a.op = "acceptKey" /\ c.exchange = a.exchange =>
         /\ h.chat.key = c.key /\ h.chat.future = a.key /\ h.chat.exchange = c.exchange
         /\ h.post = <<CommitKey(a.exchange, a.key)>>
    /\ a.op = "commitKey" /\ c.exchange = a.exchange /\ c.future = a.key =>
         /\ h.chat.key = a.key /\ h.chat.future = c.key /\ h.chat.exchange = 0
         /\ h.post = <<Noop>>
    /\ a.op = "abortKey" /\ c.exchange # a.exchange => h.chat = c /\ h.post = <<>>

(* The cases of Handled that the stages allow.                              *)
LEMMA HandledFacts ==
  ASSUME NEW c \in ChatSet, NEW a \in ActionSet, NEW f \in Nat
  PROVE  HandledAs(c, a, f, Handled(c, a, f))
  <1>. DEFINE h == Handled(c, a, f)
  <1>1. CASE ~Control(a)
    <2>1. h = Result(c, <<>>)
      BY <1>1 DEF Control, Handled, ActionSet
    <2>. QED  BY <1>1, <2>1 DEF Result, Control, HandledAs
  <1>2. CASE a.op = "requestKey"
    <2>1. h = OnRequestKey(c, a.exchange, f)
      BY <1>2 DEF Handled
    <2>2. LET x == [c EXCEPT !.exchange = a.exchange, !.future = f]
          IN  x.key = c.key /\ x.future = f /\ x.exchange = a.exchange
      BY DEF ChatSet
    <2>. QED  BY <1>2, <2>1, <2>2 DEF OnRequestKey, Result, Control, HandledAs
  <1>3. CASE a.op = "acceptKey"
    <2>1. h = OnAcceptKey(c, a.exchange, a.key)
      BY <1>3 DEF Handled
    <2>. QED  BY <1>3, <2>1 DEF OnAcceptKey, Result, Control, ChatSet, HandledAs
  <1>4. CASE a.op = "commitKey"
    <2>1. h = OnCommitKey(c, a.exchange, a.key)
      BY <1>4 DEF Handled
    <2>2. LET x == [c EXCEPT !.key = a.key, !.future = c.key, !.exchange = 0, !.due = FALSE]
          IN  x.key = a.key /\ x.future = c.key /\ x.exchange = 0
      BY DEF ChatSet
    <2>. QED  BY <1>4, <2>1, <2>2 DEF OnCommitKey, Result, Control, HandledAs
  <1>5. CASE a.op = "abortKey"
    <2>1. h = OnAbortKey(c, a.exchange)
      BY <1>5 DEF Handled
    <2>. QED  BY <1>5, <2>1 DEF OnAbortKey, Result, Control, HandledAs
  <1>6. \/ ~Control(a) \/ a.op = "requestKey" \/ a.op = "acceptKey" \/ a.op = "commitKey" \/ a.op = "abortKey"
    BY DEF Control, ActionSet
  <1>. QED  BY <1>1, <1>2, <1>3, <1>4, <1>5, <1>6

(* What is put behind the posted messages.                                 *)
LEMMA Posts ==
  ASSUME NEW S, NEW q \in Seq(S), NEW a \in S, NEW b \in S
  PROVE  /\ q \o <<>> = q /\ q \o <<a>> = Append(q, a)
         /\ q \o (<<>> \o <<a>>) = Append(q, a)
         /\ q \o (<<a>> \o <<b>>) = Append(Append(q, a), b)
OBVIOUS

(* The message m, which is next in order, and what its new_key_used says.  *)
Taking(c, I, N, m, new, K, L, w) ==
    /\ Taken(I, m, K) /\ L \subseteq N /\ \A x \in L : m.n < x.n
    /\ w => I \subseteq K \cup {m}
    /\ ~new => m.key = c.key
    /\ new => (m.key # c.key /\ m.key = c.future) \/ m \in N

(* The side that asked for the exchange processes a message,               *)
LEMMA AskerTakes ==
  ASSUME NEW c \in ChatSet, NEW d, NEW I, NEW J, NEW q, NEW p, NEW N, NEW M, NEW O, NEW P, NEW w, NEW v,
         Proper(c, I, q, N, O), Proper(d, J, p, M, P), Between(c, d, I, J, q, p, N, M, O, w, v), c.key # 0, d.key # 0,
         NEW m \in MessageSet, NEW new \in BOOLEAN, NEW fresh \in Nat, NEW K, NEW L, NEW Q \in SUBSET O,
         Taking(c, I, N, m, new, K, L, w), Q \subseteq K, c.key < fresh, d.key < fresh
  PROVE  LET h == Handled(Switched(c, new), m.action, fresh)
         IN  h.chat.key # 0 /\ Between(h.chat, d, K, J, q \o h.post, p, L, M, Q, w, v)
  <1>. DEFINE b == Switched(c, new)
               h == Handled(b, m.action, fresh)
               a == m.action
               Goal == h.chat.key # 0 /\ Between(h.chat, d, K, J, q \o h.post, p, L, M, Q, w, v)
  <1>1. /\ I \in SUBSET MessageSet /\ J \in SUBSET MessageSet /\ q \in Seq(ActionSet) /\ p \in Seq(ActionSet)
        /\ a \in ActionSet /\ c.key \in Nat /\ d.key \in Nat /\ c.exchange \in Nat /\ d.exchange \in Nat
        /\ m \in I /\ K \subseteq I /\ L \subseteq N /\ K \in SUBSET MessageSet
    <2>1. /\ I \in SUBSET MessageSet /\ J \in SUBSET MessageSet /\ q \in Seq(ActionSet) /\ p \in Seq(ActionSet)
          /\ c.key \in Nat /\ d.key \in Nat
      BY DEF Proper
    <2>2. c.exchange \in Nat /\ d.exchange \in Nat
      BY IdsAreNumbers DEF Proper
    <2>3. a \in ActionSet
      BY DEF MessageSet
    <2>4. m \in I /\ K \subseteq I /\ L \subseteq N
      BY DEF Taking, Taken
    <2>. HIDE DEF a
    <2>. QED  BY <2>1, <2>2, <2>3, <2>4
  <1>2. /\ Quietly(I, p) => Quietly(K, p)
        /\ \A C, x : OnlyLast(I, p, C, x) => OnlyLast(K, p, C, x)
        /\ \A C, x : OnlyLast(I, p, C, x) /\ a = x => Quietly(K, p)
        /\ \A x : Comes(I, p, x) /\ w /\ a # x => Comes(K, p, x)
    BY <1>1, StreamTaken DEF Taking
  <1>3. /\ \A k : Under(I, k) => Under(K, k)
        /\ \A o, k : FirstThen(I, o, k) => FirstThen(K, o, k)
        /\ \A o, k : FirstThen(I, o, k) /\ m.key = k => Under(K, k)
    BY <1>1, StreamLess, KeysTaken DEF Taking
  <1>4. /\ b \in ChatSet
        /\ c.exchange = 0 /\ c.future = 0 => b = c
        /\ c.exchange # 0 /\ new => b.key = c.future /\ b.future = 0 /\ b.exchange = 0
        /\ c.exchange # 0 /\ ~new => b = c
    BY SwitchedFacts
  <1>. HIDE DEF b
  <1>5. /\ ~Control(a) => h.chat = b /\ h.post = <<>>
        /\ a.op = "requestKey" /\ b.exchange > a.exchange => h.chat = b /\ h.post = <<>>
        /\ a.op = "acceptKey" /\ b.exchange = a.exchange =>
              /\ h.chat.key = b.key /\ h.chat.future = a.key /\ h.chat.exchange = b.exchange
              /\ h.post = <<CommitKey(a.exchange, a.key)>>
        /\ a.op = "abortKey" /\ b.exchange # a.exchange => h.chat = b /\ h.post = <<>>
    <2>1. b \in ChatSet /\ a \in ActionSet
      BY <1>1, <1>4
    <2>2. HandledAs(b, a, fresh, h)
      BY <2>1, HandledFacts
    <2>. HIDE DEF h
    <2>. QED  BY <2>2 DEF HandledAs
  <1>. HIDE DEF h, Goal
  <1>6. q \o <<>> = q
    BY <1>1, Posts
  <1>7. Quietly(I, p) => ~Control(a)
    BY <1>1 DEF Quietly
  <1>8. Under(I, c.key) /\ N = {} => ~new
    BY <1>1 DEF Under, Taking
  <1>9. ASSUME h.chat = b, h.post = <<>>, b = c PROVE h.chat = c /\ q \o h.post = q
    BY <1>6, <1>9
  <1>a. ASSUME Idle(c, d, I, J, q, p) PROVE Goal
    <2>1. h.chat = c /\ q \o h.post = q
      BY <1>a, <1>4, <1>5, <1>7, <1>9 DEF Idle
    <2>2. Idle(c, d, K, J, q, p)
      BY <1>a, <1>2, <1>3 DEF Idle
    <2>. QED  BY <2>1, <2>2 DEF Between, Goal
  <1>b. ASSUME Asked(c, d, I, J, q, p, N, M, v) PROVE Goal
    <2>1. h.chat = c /\ q \o h.post = q
      BY <1>b, <1>4, <1>5, <1>7, <1>8, <1>9 DEF Asked
    <2>2. Asked(c, d, K, J, q, p, L, M, v)
      BY <1>b, <1>1, <1>2, <1>3 DEF Asked
    <2>. QED  BY <2>1, <2>2 DEF Between, Goal
  <1>c. ASSUME BothAsked(c, d, I, J, q, p, N, M, v) PROVE Goal
    <2>1. b = c
      BY <1>c, <1>1, <1>4, <1>8 DEF BothAsked
    <2>2. Control(a) => a = RequestKey(d.exchange)
      BY <1>c, <1>1 DEF BothAsked, OnlyLast
    <2>3. Control(a) => a.op = "requestKey" /\ b.exchange > a.exchange
      BY <1>c, <2>1, <2>2 DEF BothAsked, RequestKey, Action
    <2>4. h.chat = c /\ q \o h.post = q
      BY <1>5, <1>9, <2>1, <2>3
    <2>5. BothAsked(c, d, K, J, q, p, L, M, v)
      BY <1>c, <1>1, <1>2, <1>3 DEF BothAsked
    <2>. QED  BY <2>4, <2>5 DEF Between, Goal
  <1>d. ASSUME Accepted(c, d, I, J, q, p, N, M, w) PROVE Goal
    <2>. DEFINE x == AcceptKey(c.exchange, d.future)
                y == CommitKey(c.exchange, d.future)
    <2>1. b = c
      BY <1>d, <1>4, <1>8 DEF Accepted
    <2>2. Control(a) => a \in Older(c.exchange) \/ a = x
      BY <1>d, <1>1 DEF Accepted, OnlyLast
    <2>3. ASSUME a # x PROVE Goal
      <3>1. a \in Older(c.exchange) => \/ a.op = "requestKey" /\ b.exchange > a.exchange
                                       \/ a.op = "abortKey" /\ b.exchange # a.exchange
        BY <1>1, <2>1 DEF Older
      <3>2. h.chat = c /\ q \o h.post = q
        BY <1>5, <1>9, <2>1, <2>2, <2>3, <3>1
      <3>3. Accepted(c, d, K, J, q, p, L, M, w)
        BY <1>d, <1>1, <1>2, <1>3, <2>3 DEF Accepted
      <3>. QED  BY <3>2, <3>3 DEF Between, Goal
    <2>4. ASSUME a = x PROVE Goal
      <3>1. a.op = "acceptKey" /\ a.exchange = c.exchange /\ a.key = d.future
        BY <2>4 DEF AcceptKey, Action
      <3>2. /\ h.chat.key = c.key /\ h.chat.future = d.future /\ h.chat.exchange = c.exchange
            /\ h.post = <<y>>
        BY <1>5, <2>1, <3>1
      <3>3. y \in ActionSet /\ Control(y) /\ y = CommitKey(h.chat.exchange, h.chat.future)
        BY <3>2, Kinds DEF CommitKey, Action, ActionSet, Proper
      <3>4. q \o h.post = Append(q, y)
        BY <1>1, <3>2, <3>3, Posts
      <3>5. OnlyLast(J, Append(q, y), {}, y) /\ Comes(J, Append(q, y), y)
        BY <1>d, <1>1, <3>3, LastAfterQuiet DEF Accepted
      <3>6. Quietly(K, p)
        BY <1>d, <1>2, <2>4 DEF Accepted
      <3>. HIDE DEF y
      <3>7. Committed(h.chat, d, K, J, Append(q, y), p, L, M, v)
        BY <1>d, <1>1, <1>3, <3>2, <3>3, <3>5, <3>6 DEF Accepted, Committed
      <3>. QED  BY <3>2, <3>4, <3>7 DEF Between, Goal
    <2>. QED  BY <2>3, <2>4
  <1>e. ASSUME Committed(c, d, I, J, q, p, N, M, v) PROVE Goal
    <2>1. h.chat = c /\ q \o h.post = q
      BY <1>e, <1>4, <1>5, <1>7, <1>8, <1>9 DEF Committed
    <2>2. Committed(c, d, K, J, q, p, L, M, v)
      BY <1>e, <1>1, <1>2, <1>3 DEF Committed
    <2>. QED  BY <2>1, <2>2 DEF Between, Goal
  <1>f. ASSUME Switching(c, d, I, J, q, p, N, O, w) PROVE Goal
    <2>0. h.chat = b /\ q \o h.post = q
      BY <1>f, <1>5, <1>6, <1>7 DEF Switching
    <2>1. ASSUME new PROVE Goal
      <3>1. b.key = d.key /\ b.future = 0 /\ b.exchange = 0
        BY <1>f, <1>4, <2>1 DEF Switching
      <3>2. m.key = d.key
        BY <1>f, <2>1 DEF Taking, Switching, Under
      <3>3. Under(K, d.key)
        BY <1>f, <1>3, <3>2 DEF Switching
      <3>4. FirstThen(J, d.future, d.key)
        BY <1>f DEF Switching, Under, FirstThen
      <3>5. Idle(b, d, K, J, q, p)
        BY <1>f, <1>2, <3>1, <3>3, <3>4 DEF Switching, Idle
      <3>. QED  BY <2>0, <3>1, <3>5 DEF Between, Goal
    <2>2. ASSUME ~new PROVE Goal
      <3>1. b = c /\ m.key = c.key
        BY <1>f, <1>4, <2>2 DEF Switching, Taking
      <3>2. w => p # <<>> \/ \E x \in K : x.key = d.key
        BY <1>f, <3>1 DEF Switching, Taking
      <3>3. Under(L, d.key) /\ Under(Q, c.key)
        BY <1>f, <1>1 DEF Switching, Under
      <3>4. Switching(c, d, K, J, q, p, L, Q, w)
        BY <1>f, <1>2, <1>3, <3>2, <3>3 DEF Switching
      <3>. QED  BY <2>0, <3>1, <3>4 DEF Between, Goal
    <2>. QED  BY <2>1, <2>2
  <1>. QED  BY <1>a, <1>b, <1>c, <1>d, <1>e, <1>f DEF Between, Goal, h, b

(* or the other one does.                                                  *)
LEMMA AskedTakes ==
  ASSUME NEW c \in ChatSet, NEW d, NEW I, NEW J, NEW q, NEW p, NEW N, NEW M, NEW O, NEW P, NEW w, NEW v,
         Proper(c, I, q, N, O), Proper(d, J, p, M, P), Between(d, c, J, I, p, q, M, N, P, v, w), c.key # 0, d.key # 0,
         NEW m \in MessageSet, NEW new \in BOOLEAN, NEW fresh \in Nat, NEW K, NEW L,
         Taking(c, I, N, m, new, K, L, w), c.key < fresh, d.key < fresh
  PROVE  LET h == Handled(Switched(c, new), m.action, fresh)
         IN  h.chat.key # 0 /\ Between(d, h.chat, J, K, p, q \o h.post, M, L, P, v, w)
  <1>. DEFINE b == Switched(c, new)
               h == Handled(b, m.action, fresh)
               a == m.action
               Goal == h.chat.key # 0 /\ Between(d, h.chat, J, K, p, q \o h.post, M, L, P, v, w)
  <1>1. /\ I \in SUBSET MessageSet /\ J \in SUBSET MessageSet /\ q \in Seq(ActionSet) /\ p \in Seq(ActionSet)
        /\ a \in ActionSet /\ c.key \in Nat /\ d.key \in Nat /\ c.exchange \in Nat /\ d.exchange \in Nat
        /\ m \in I /\ K \subseteq I /\ L \subseteq N /\ K \in SUBSET MessageSet
    <2>1. /\ I \in SUBSET MessageSet /\ J \in SUBSET MessageSet /\ q \in Seq(ActionSet) /\ p \in Seq(ActionSet)
          /\ c.key \in Nat /\ d.key \in Nat
      BY DEF Proper
    <2>2. c.exchange \in Nat /\ d.exchange \in Nat
      BY IdsAreNumbers DEF Proper
    <2>3. a \in ActionSet
      BY DEF MessageSet
    <2>4. m \in I /\ K \subseteq I /\ L \subseteq N
      BY DEF Taking, Taken
    <2>. HIDE DEF a
    <2>. QED  BY <2>1, <2>2, <2>3, <2>4
  <1>2. /\ Quietly(I, p) => Quietly(K, p)
        /\ \A C, x : OnlyLast(I, p, C, x) => OnlyLast(K, p, C, x)
        /\ \A C, x : OnlyLast(I, p, C, x) /\ a = x => Quietly(K, p)
        /\ \A x : Comes(I, p, x) /\ w /\ a # x => Comes(K, p, x)
    BY <1>1, StreamTaken DEF Taking
  <1>3. /\ \A k : Under(I, k) => Under(K, k)
        /\ \A o, k : FirstThen(I, o, k) => FirstThen(K, o, k)
        /\ \A o, k : FirstThen(I, o, k) /\ m.key = k => Under(K, k) /\ FirstThen(K, 0, k)
    BY <1>1, StreamLess, KeysTaken DEF Taking
  <1>4. /\ b \in ChatSet
        /\ c.exchange = 0 /\ c.future # 0 /\ ~new => b.key = c.key /\ b.future = 0 /\ b.exchange = 0
        /\ ~(c.exchange = 0 /\ c.future # 0 /\ ~new) /\ ~(c.exchange # 0 /\ new) => b = c
    BY SwitchedFacts
  <1>. HIDE DEF b
  <1>5. HandledAs(b, a, fresh, h)
    <2>1. b \in ChatSet /\ a \in ActionSet
      BY <1>1, <1>4
    <2>. QED  BY <2>1, HandledFacts
  <1>. HIDE DEF h, Goal
  <1>6. ASSUME ~Control(a) PROVE h.chat = b /\ q \o h.post = q
    <2>1. h.chat = b /\ h.post = <<>>
      BY <1>5, <1>6 DEF HandledAs
    <2>. QED  BY <1>1, <2>1, Posts
  <1>7. Quietly(I, p) => ~Control(a)
    BY <1>1 DEF Quietly
  <1>8. Under(I, c.key) /\ N = {} => ~new
    BY <1>1 DEF Under, Taking
  <1>9. ASSUME NEW e, e \in ExchangeIds
        PROVE  LET x == AcceptKey(e, fresh) IN x \in ActionSet /\ Control(x) /\ x \notin Older(e)
    BY <1>9, Kinds DEF AcceptKey, Action, ActionSet, Older
  <1>10. d.exchange \in {0} \cup ExchangeIds /\ c.exchange \in {0} \cup ExchangeIds
    BY DEF Proper
  <1>11. ASSUME c.exchange = 0, FirstThen(I, c.future, c.key)
         PROVE  b.key = c.key /\ b.exchange = 0 /\ b.future \in {0, c.future} /\ FirstThen(K, b.future, c.key)
    <2>1. CASE c.future # 0 /\ ~new
      BY <1>3, <1>4, <1>11, <2>1 DEF Taking
    <2>2. CASE ~(c.future # 0 /\ ~new)
      BY <1>3, <1>4, <1>11, <2>2
    <2>. QED  BY <2>1, <2>2
  <1>a. ASSUME Idle(d, c, J, I, p, q) PROVE Goal
    <2>1. h.chat = b /\ q \o h.post = q
      BY <1>a, <1>6, <1>7 DEF Idle
    <2>2. b.key = c.key /\ b.exchange = 0 /\ b.future \in {0, c.future} /\ FirstThen(K, b.future, c.key)
      BY <1>a, <1>11 DEF Idle
    <2>3. Idle(d, b, J, K, p, q)
      BY <1>a, <1>2, <2>2 DEF Idle
    <2>. QED  BY <2>1, <2>2, <2>3 DEF Between, Goal
  <1>b. ASSUME Asked(d, c, J, I, p, q, M, N, w) PROVE Goal
    <2>. DEFINE x == RequestKey(d.exchange)
                y == AcceptKey(d.exchange, fresh)
    <2>1. Control(a) => a = x
      BY <1>b, <1>1 DEF Asked, OnlyLast
    <2>2. b.key = c.key /\ b.exchange = 0 /\ b.future \in {0, c.future} /\ FirstThen(K, b.future, c.key)
      BY <1>b, <1>11 DEF Asked
    <2>3. ASSUME ~Control(a) PROVE Goal
      <3>1. h.chat = b /\ q \o h.post = q
        BY <1>6, <2>3
      <3>2. a # x
        BY <2>3, Kinds
      <3>3. Asked(d, b, J, K, p, q, M, L, w)
        BY <1>b, <1>1, <1>2, <2>2, <3>2 DEF Asked
      <3>. QED  BY <2>2, <3>1, <3>3 DEF Between, Goal
    <2>4. ASSUME Control(a) PROVE Goal
      <3>1. a = x /\ a.op = "requestKey" /\ a.exchange = d.exchange
        BY <2>1, <2>4 DEF RequestKey, Action
      <3>2. ~(b.exchange > a.exchange) /\ b.exchange = 0
        BY <1>1, <2>2, <3>1
      <3>3. /\ h.chat.key = c.key /\ h.chat.future = fresh /\ h.chat.exchange = d.exchange
            /\ h.post = <<>> \o <<y>>
        BY <1>5, <2>2, <3>1, <3>2 DEF HandledAs
      <3>4. d.exchange \in ExchangeIds
        BY <1>b, <1>10 DEF Asked
      <3>5. y \in ActionSet /\ Control(y) /\ y \notin Older(d.exchange) /\ y = AcceptKey(d.exchange, h.chat.future)
        BY <1>9, <3>3, <3>4
      <3>. HIDE DEF y
      <3>6. q \o h.post = Append(q, y)
        BY <1>1, <3>3, <3>5, Posts
      <3>7. OnlyLast(J, Append(q, y), Older(d.exchange), y) /\ Comes(J, Append(q, y), y)
        BY <1>b, <1>1, <3>5, LastAfterQuiet DEF Asked
      <3>8. Quietly(K, p)
        BY <1>b, <1>2, <3>1 DEF Asked
      <3>9. m.key = c.key /\ \A z \in N : z.n < m.n
        BY <1>b, <1>1, <2>4 DEF Asked
      <3>10. L = {}
        <4>1. \A z \in L : z \in N /\ m.n < z.n
          BY DEF Taking
        <4>2. N \subseteq MessageSet
          BY DEF Proper
        <4>. QED  BY <3>9, <4>1, <4>2 DEF MessageSet
      <3>11. Under(K, c.key)
        BY <1>b, <1>3, <3>9 DEF Asked
      <3>12. Accepted(d, h.chat, J, K, p, Append(q, y), M, L, v)
        <4>1. fresh # 0 /\ fresh # d.key
          BY <1>1
        <4>. QED  BY <1>b, <3>3, <3>5, <3>7, <3>8, <3>10, <3>11, <4>1 DEF Asked, Accepted
      <3>. QED  BY <3>3, <3>6, <3>12 DEF Between, Goal
    <2>. QED  BY <2>3, <2>4
  <1>c. ASSUME BothAsked(d, c, J, I, p, q, M, N, w) PROVE Goal
    <2>. DEFINE x == RequestKey(d.exchange)
                y == AcceptKey(d.exchange, fresh)
                z == AbortKey(c.exchange)
    <2>1. b = c
      BY <1>c, <1>4, <1>8 DEF BothAsked
    <2>2. Control(a) => a = x
      BY <1>c, <1>1 DEF BothAsked, OnlyLast
    <2>3. ASSUME ~Control(a) PROVE Goal
      <3>1. h.chat = c /\ q \o h.post = q
        BY <1>6, <2>1, <2>3
      <3>2. a # x
        BY <2>3, Kinds
      <3>3. BothAsked(d, c, J, K, p, q, M, L, w)
        BY <1>c, <1>1, <1>2, <1>3, <3>2 DEF BothAsked
      <3>. QED  BY <3>1, <3>3 DEF Between, Goal
    <2>4. ASSUME Control(a) PROVE Goal
      <3>1. a = x /\ a.op = "requestKey" /\ a.exchange = d.exchange
        BY <2>2, <2>4 DEF RequestKey, Action
      <3>2. ~(b.exchange > a.exchange) /\ b.exchange # 0
        BY <1>c, <1>1, <2>1, <3>1 DEF BothAsked
      <3>3. /\ h.chat.key = c.key /\ h.chat.future = fresh /\ h.chat.exchange = d.exchange
            /\ h.post = <<z>> \o <<y>>
        BY <1>5, <2>1, <3>1, <3>2 DEF HandledAs
      <3>4. d.exchange \in ExchangeIds /\ c.exchange \in ExchangeIds /\ c.exchange < d.exchange
        BY <1>c, <1>1, <1>10 DEF BothAsked
      <3>5. y \in ActionSet /\ Control(y) /\ y \notin Older(d.exchange) /\ y = AcceptKey(d.exchange, h.chat.future)
        BY <1>9, <3>3, <3>4
      <3>6. z \in ActionSet /\ Control(z) /\ z \in Older(d.exchange) /\ z # RequestKey(c.exchange)
        BY <3>4, Kinds DEF AbortKey, RequestKey, Action, ActionSet, Older
      <3>7. RequestKey(c.exchange) \in Older(d.exchange)
        BY <3>4 DEF RequestKey, Action, ActionSet, Older
      <3>. HIDE DEF y, z
      <3>8. q \o h.post = Append(Append(q, z), y) /\ Append(q, z) \in Seq(ActionSet)
        BY <1>1, <3>3, <3>5, <3>6, Posts
      <3>9. OnlyLast(J, Append(q, z), {RequestKey(c.exchange)}, z)
        <4>1. OnlyLast(J, q, {}, RequestKey(c.exchange))
          BY <1>c DEF BothAsked
        <4>. QED  BY <1>1, <3>6, <4>1, LastAppended
      <3>10. OnlyLast(J, Append(Append(q, z), y), Older(d.exchange), y) /\ Comes(J, Append(Append(q, z), y), y)
        <4>. DEFINE s == Append(q, z)
                    C == {RequestKey(c.exchange)}
                    D == Older(d.exchange)
        <4>1. C \subseteq D /\ z \in D /\ y \notin D /\ s \in Seq(ActionSet) /\ OnlyLast(J, s, C, z)
          BY <3>5, <3>6, <3>7, <3>8, <3>9
        <4>2. J \in SUBSET MessageSet /\ y \in ActionSet /\ Control(y)
          BY <1>1, <3>5
        <4>. HIDE DEF s, C, D
        <4>3. OnlyLast(J, Append(s, y), D, y) /\ Comes(J, Append(s, y), y)
          BY <4>1, <4>2, LastAppended
        <4>. QED  BY <4>3 DEF s, D
      <3>11. Quietly(K, p)
        BY <1>c, <1>2, <3>1 DEF BothAsked
      <3>12. Accepted(d, h.chat, J, K, p, Append(Append(q, z), y), M, L, v)
        <4>1. fresh # 0 /\ fresh # d.key
          BY <1>1
        <4>. QED  BY <1>c, <1>1, <1>3, <3>3, <3>5, <3>10, <3>11, <4>1 DEF BothAsked, Accepted
      <3>. QED  BY <3>3, <3>8, <3>12 DEF Between, Goal
    <2>. QED  BY <2>3, <2>4
  <1>d. ASSUME Accepted(d, c, J, I, p, q, M, N, v) PROVE Goal
    <2>1. b = c
      BY <1>d, <1>4, <1>8 DEF Accepted
    <2>2. h.chat = c /\ q \o h.post = q
      BY <1>d, <1>6, <1>7, <2>1 DEF Accepted
    <2>3. Accepted(d, c, J, K, p, q, M, L, v)
      BY <1>d, <1>1, <1>2, <1>3 DEF Accepted
    <2>. QED  BY <2>2, <2>3 DEF Between, Goal
  <1>e. ASSUME Committed(d, c, J, I, p, q, M, N, w) PROVE Goal
    <2>. DEFINE x == CommitKey(d.exchange, d.future)
    <2>1. b = c
      BY <1>e, <1>4, <1>8 DEF Committed
    <2>2. Control(a) => a = x
      BY <1>e, <1>1 DEF Committed, OnlyLast
    <2>3. ASSUME ~Control(a) PROVE Goal
      <3>1. h.chat = c /\ q \o h.post = q
        BY <1>6, <2>1, <2>3
      <3>2. a # x
        BY <2>3, Kinds
      <3>3. Committed(d, c, J, K, p, q, M, L, w)
        BY <1>e, <1>1, <1>2, <1>3, <3>2 DEF Committed
      <3>. QED  BY <3>1, <3>3 DEF Between, Goal
    <2>4. ASSUME Control(a) PROVE Goal
      <3>1. a = x /\ a.op = "commitKey" /\ a.exchange = c.exchange /\ a.key = c.future /\ a.key = d.future
        BY <1>e, <2>2, <2>4 DEF CommitKey, Action, Committed
      <3>2. /\ h.chat.key = d.future /\ h.chat.future = c.key /\ h.chat.exchange = 0
            /\ h.post = <<Noop>>
        BY <1>5, <2>1, <3>1 DEF HandledAs
      <3>3. Noop \in ActionSet /\ ~Control(Noop)
        BY Kinds DEF Noop, Action, ActionSet
      <3>4. q \o h.post = Append(q, Noop) /\ Append(q, Noop) # <<>>
        BY <1>1, <3>2, <3>3, Posts, Appended
      <3>5. Quietly(J, Append(q, Noop)) /\ Quietly(K, p)
        BY <1>e, <1>1, <1>2, <3>1, <3>3, QuietAppended DEF Committed
      <3>6. Under(P, d.key) /\ FirstThen(J, d.key, d.future)
        BY <1>e, <1>1 DEF Committed, Under, FirstThen, Proper
      <3>7. Switching(d, h.chat, J, K, p, Append(q, Noop), M, P, v)
        <4>1. Under(M, d.future) /\ Under(K, d.key)
          BY <1>e, <1>3 DEF Committed, Under
        <4>. QED  BY <1>e, <3>2, <3>4, <3>5, <3>6, <4>1 DEF Committed, Switching
      <3>8. h.chat.key # 0
        BY <1>e, <3>2 DEF Committed
      <3>. QED  BY <3>4, <3>7, <3>8 DEF Between, Goal
    <2>. QED  BY <2>3, <2>4
  <1>f. ASSUME Switching(d, c, J, I, p, q, M, P, v) PROVE Goal
    <2>1. new
      BY <1>f, <1>1 DEF Switching, Under, Taking
    <2>2. b = c
      BY <1>f, <1>4, <2>1 DEF Switching
    <2>3. h.chat = c /\ q \o h.post = q
      BY <1>f, <1>6, <1>7, <2>2 DEF Switching
    <2>4. Switching(d, c, J, K, p, q, M, P, v)
      BY <1>f, <1>2, <1>3 DEF Switching
    <2>. QED  BY <2>3, <2>4 DEF Between, Goal
  <1>. QED  BY <1>a, <1>b, <1>c, <1>d, <1>e, <1>f DEF Between, Goal, h, b

(* A message that is processed leads from a stage to a stage, whichever of  *)
(* the two sides processes it.                                              *)
LEMMA LinkTakes ==
  ASSUME NEW c \in ChatSet, NEW d, NEW I, NEW J, NEW q, NEW p, NEW N, NEW M, NEW O, NEW P, NEW w, NEW v,
         Proper(c, I, q, N, O), Proper(d, J, p, M, P), Link(c, d, I, J, q, p, N, M, O, P, w, v),
         NEW m \in MessageSet, NEW new \in BOOLEAN, NEW fresh \in Nat, NEW K, NEW L, NEW Q \in SUBSET O,
         Taking(c, I, N, m, new, K, L, w), Q \subseteq K, c.key < fresh, d.key < fresh
  PROVE  LET h == Handled(Switched(c, new), m.action, fresh)
         IN  Link(h.chat, d, K, J, q \o h.post, p, L, M, Q, P, w, v)
  <1>. DEFINE h == Handled(Switched(c, new), m.action, fresh)
  <1>1. c.key # 0 /\ d.key # 0
    BY DEF Link
  <1>2. CASE Between(c, d, I, J, q, p, N, M, O, w, v)
    <2>1. h.chat.key # 0 /\ Between(h.chat, d, K, J, q \o h.post, p, L, M, Q, w, v)
      BY <1>1, <1>2, AskerTakes
    <2>. HIDE DEF h
    <2>. QED  BY <1>1, <2>1 DEF Link, h
  <1>3. CASE Between(d, c, J, I, p, q, M, N, P, v, w)
    <2>1. h.chat.key # 0 /\ Between(d, h.chat, J, K, p, q \o h.post, M, L, P, v, w)
      BY <1>1, <1>3, AskedTakes
    <2>. HIDE DEF h
    <2>. QED  BY <1>1, <2>1 DEF Link, h
  <1>. QED  BY <1>2, <1>3 DEF Link

-----------------------------------------------------------------------------
(* The counts, and what was made.                                          *)

(* Every step keeps the counts.                                             *)
LEMMA CountedStays == Inv /\ Counted /\ [Next]_vars => Counted'
  <1>. SUFFICES ASSUME Inv, Counted, [Next]_vars PROVE Counted'
    OBVIOUS
  <1>1. PICK s \in Sides : Steps(s) /\ chat'[Other(s)].in = chat[Other(s)].in
                           /\ chat'[Other(s)].out = chat[Other(s)].out
    BY NumbersStep
  <1>2. /\ s \in Sides /\ Other(s) \in Sides /\ Other(Other(s)) = s /\ \A t \in Sides : t = s \/ t = Other(s)
    BY OtherSide
  <1>3. \A t \in Sides : chat[t].in \in Nat /\ chat[t].out \in Nat
    BY HeldNumbers DEF Inv
  <1>4. Started \in Nat
    BY SecretChatAssumption
  <1>5. Started <= chat'[s].out /\ (chat'[s].in = 0 \/ chat'[s].in < chat'[Other(s)].out)
    BY <1>1, <1>2, <1>3, <1>4 DEF Counted, Steps
  <1>6. Started <= chat'[Other(s)].out /\ (chat'[Other(s)].in = 0 \/ chat'[Other(s)].in < chat'[s].out)
    BY <1>1, <1>2, <1>3, <1>4 DEF Counted, Steps
  <1>. QED  BY <1>2, <1>5, <1>6 DEF Counted

(* More is made, never less.                                               *)
LEMMA MadeStays ==
  ASSUME NEW X, NEW Y, NEW k \in Nat, NEW l \in Nat, X \subseteq Y, k <= l
  PROVE  /\ \A c \in ChatSet : Made(X, k, c) => Made(Y, l, c)
         /\ \A a \in ActionSet : Made(X, k, a) => Made(Y, l, a)
  BY DEF Made, ChatSet, ActionSet

(* The service messages name exchanges and keys that were made.             *)
LEMMA ActionsMade ==
  ASSUME NEW X, NEW k \in Nat, NEW e \in {0} \cup X
  PROVE  /\ Made(X, k, Text) /\ Made(X, k, Noop) /\ Made(X, k, RequestKey(e)) /\ Made(X, k, AbortKey(e))
         /\ \A j \in Nat : j <= k => Made(X, k, AcceptKey(e, j)) /\ Made(X, k, CommitKey(e, j))
  BY DEF Made, Text, Noop, RequestKey, AbortKey, AcceptKey, CommitKey, Action

(* What a message makes of a chat, and what it posts.                      *)
LEMMA SwitchedMade ==
  ASSUME NEW c \in ChatSet, NEW new \in BOOLEAN, NEW X, NEW k \in Nat, ChatMade(X, k, c)
  PROVE  ChatMade(X, k, Switched(c, new))
  <1>1. c.key \in Nat /\ c.future \in Nat
    BY DEF ChatSet
  <1>2. CASE c.exchange = 0 /\ c.future # 0 /\ ~new
    <2>1. Switched(c, new) = [c EXCEPT !.future = 0]
      BY <1>2 DEF Switched
    <2>. QED  BY <2>1 DEF ChatSet, ChatMade, Made
  <1>3. CASE c.exchange # 0 /\ new
    <2>1. Switched(c, new) = [c EXCEPT !.key = c.future, !.future = 0, !.exchange = 0, !.due = FALSE]
      BY <1>3 DEF Switched
    <2>. QED  BY <2>1 DEF ChatSet, ChatMade, Made
  <1>. QED  BY <1>2, <1>3 DEF Switched

(* What a message makes of a chat names only keys and exchanges that were   *)
(* made, with the one that is made then.                                    *)
LEMMA HandledMade ==
  ASSUME NEW b \in ChatSet, NEW a \in ActionSet, NEW X, NEW k \in Nat,
         ChatMade(X, k, b), Made(X, k, a)
  PROVE  LET h == Handled(b, a, k + 1)
             l == IF h.chat.future = k + 1 THEN k + 1 ELSE k
         IN  ChatMade(X, l, h.chat) /\ AllMade(X, l, h.post)
  <1>. DEFINE h == Handled(b, a, k + 1)
               l == IF h.chat.future = k + 1 THEN k + 1 ELSE k
               Goal == ChatMade(X, l, h.chat) /\ AllMade(X, l, h.post)
  <1>2. /\ b.key \in Nat /\ b.future \in Nat /\ b.key <= k /\ b.future <= k /\ b.exchange \in {0} \cup X
        /\ a.key \in Nat /\ a.key <= k /\ a.exchange \in {0} \cup X /\ k + 1 \in Nat
        /\ a.op \in {"text", "noop", "requestKey", "acceptKey", "commitKey", "abortKey"}
    BY DEF ChatSet, ActionSet, ChatMade, Made
  <1>3. /\ \A x : Made(X, k, x) => AllMade(X, k, <<x>>)
        /\ AllMade(X, k, <<>>) /\ ChatMade(X, k, Abandoned(b))
    BY <1>2 DEF AllMade, Abandoned, ChatMade, Made, ChatSet
  <1>4. ASSUME ChatMade(X, k, h.chat), AllMade(X, k, h.post) PROVE Goal
    <2>1. h.chat.future # k + 1
      <3>1. \A x : x <= k => x # k + 1
        OBVIOUS
      <3>. QED  BY <1>4, <3>1 DEF ChatMade
    <2>2. l = k
      BY <2>1
    <2>. QED  BY <1>4, <2>2
  <1>. HIDE DEF Goal
  <1>5. ASSUME a.op = "requestKey" PROVE Goal
    <2>1. h = OnRequestKey(b, a.exchange, k + 1)
      BY <1>5 DEF Handled
    <2>2. ASSUME b.exchange > a.exchange PROVE Goal
      <3>1. h.chat = b /\ h.post = <<>>
        BY <2>1, <2>2 DEF OnRequestKey, Result
      <3>2. ChatMade(X, k, h.chat) /\ AllMade(X, k, h.post)
        BY <1>3, <3>1
      <3>. QED  BY <1>4, <3>2
    <2>3. ASSUME ~(b.exchange > a.exchange) PROVE Goal
      <3>. DEFINE x == [b EXCEPT !.exchange = a.exchange, !.future = k + 1]
                  r == (IF b.exchange # 0 THEN <<AbortKey(b.exchange)>> ELSE <<>>) \o <<AcceptKey(a.exchange, k + 1)>>
      <3>1. h.chat = x /\ h.post = r
        BY <2>1, <2>3 DEF OnRequestKey, Result
      <3>2. x.key = b.key /\ x.future = k + 1 /\ x.exchange = a.exchange
        BY DEF ChatSet
      <3>. HIDE DEF x
      <3>3. ChatMade(X, k + 1, x)
        BY <1>2, <3>2 DEF ChatMade, Made
      <3>4. Made(X, k + 1, AbortKey(b.exchange)) /\ Made(X, k + 1, AcceptKey(a.exchange, k + 1))
        <4>1. a.exchange \in {0} \cup X /\ b.exchange \in {0} \cup X /\ k + 1 \in Nat /\ k + 1 <= k + 1
          BY <1>2
        <4>. QED  BY <4>1, ActionsMade
      <3>5. AllMade(X, k + 1, r)
        BY <3>4 DEF AllMade
      <3>. HIDE DEF r
      <3>6. l = k + 1
        BY <3>1, <3>2
      <3>7. Goal
        BY <3>1, <3>3, <3>5, <3>6 DEF Goal
      <3>. QED  BY <3>7
    <2>. QED  BY <2>2, <2>3
  <1>6. ASSUME a.op = "acceptKey" PROVE Goal
    <2>1. h = OnAcceptKey(b, a.exchange, a.key)
      BY <1>6 DEF Handled
    <2>2. LET x == [b EXCEPT !.future = a.key] IN ChatMade(X, k, x)
      BY <1>2 DEF ChatSet, ChatMade, Made
    <2>3. Made(X, k, CommitKey(a.exchange, a.key)) /\ Made(X, k, AbortKey(a.exchange))
      BY <1>2, ActionsMade
    <2>4. ChatMade(X, k, h.chat) /\ AllMade(X, k, h.post)
      BY <1>3, <2>1, <2>2, <2>3 DEF OnAcceptKey, Result
    <2>. QED  BY <1>4, <2>4
  <1>7. ASSUME a.op = "commitKey" PROVE Goal
    <2>1. h = OnCommitKey(b, a.exchange, a.key)
      BY <1>7 DEF Handled
    <2>2. LET x == [b EXCEPT !.key = a.key, !.future = b.key, !.exchange = 0, !.due = FALSE] IN ChatMade(X, k, x)
      BY <1>2 DEF ChatSet, ChatMade, Made
    <2>3. Made(X, k, Noop) /\ Made(X, k, AbortKey(a.exchange))
      BY <1>2, ActionsMade
    <2>4. ChatMade(X, k, h.chat) /\ AllMade(X, k, h.post)
      BY <1>3, <2>1, <2>2, <2>3 DEF OnCommitKey, Result
    <2>. QED  BY <1>4, <2>4
  <1>8. ASSUME a.op = "abortKey" PROVE Goal
    <2>1. h = OnAbortKey(b, a.exchange)
      BY <1>8 DEF Handled
    <2>2. ChatMade(X, k, h.chat) /\ AllMade(X, k, h.post)
      BY <1>3, <2>1 DEF OnAbortKey, Result
    <2>. QED  BY <1>4, <2>2
  <1>9. ASSUME a.op \in {"text", "noop"} PROVE Goal
    <2>1. h = Result(b, <<>>)
      BY <1>9 DEF Handled
    <2>2. ChatMade(X, k, h.chat) /\ AllMade(X, k, h.post)
      BY <1>3, <2>1 DEF Result
    <2>. QED  BY <1>4, <2>2
  <1>10. Goal
    BY <1>2, <1>5, <1>6, <1>7, <1>8, <1>9
  <1>. QED  BY <1>10 DEF Goal

(* What was made before was made.                                           *)
LEMMA KnownLater ==
  ASSUME Inv, KeysKnown, NEW X, NEW k \in Nat, exchanges \subseteq X, keys <= k
  PROVE  KnownIn(X, k)
  <1>1. keys \in Nat
    BY DEF Inv, TypeOK
  <1>2. /\ \A c \in ChatSet : Made(exchanges, keys, c) => Made(X, k, c)
        /\ \A a \in ActionSet : Made(exchanges, keys, a) => Made(X, k, a)
    BY <1>1, MadeStays
  <1>. SUFFICES ASSUME NEW s \in Sides
                PROVE  /\ ChatMade(X, k, chat[s]) /\ AllMade(X, k, posted[s])
                       /\ \A m \in net[s] \cup copies[s] \cup failed[s] : Made(X, k, m.action)
                       /\ \A i \in DOMAIN holes[s] : Made(X, k, holes[s][i].message.action)
    BY DEF KnownIn
  <1>3. /\ chat[s] \in ChatSet /\ posted[s] \in Seq(ActionSet)
        /\ net[s] \in SUBSET MessageSet /\ copies[s] \in SUBSET MessageSet /\ failed[s] \in SUBSET MessageSet
        /\ \A i \in DOMAIN holes[s] : holes[s][i].message \in MessageSet
    BY HeldNumbers DEF Inv, TypeOK
  <1>4. ChatMade(X, k, chat[s])
    BY <1>1, <1>2, <1>3 DEF KeysKnown, KnownIn, ChatMade, ChatSet
  <1>5. AllMade(X, k, posted[s])
    <2>1. \A i \in DOMAIN posted[s] : posted[s][i] \in ActionSet
      BY <1>3, ElementOfSeq, LenProperties
    <2>. QED  BY <1>2, <2>1 DEF KeysKnown, KnownIn, AllMade
  <1>6. \A m \in net[s] \cup copies[s] \cup failed[s] : Made(X, k, m.action)
    <2>1. \A m \in net[s] \cup copies[s] \cup failed[s] : m.action \in ActionSet
      BY <1>3 DEF MessageSet
    <2>. QED  BY <1>2, <2>1 DEF KeysKnown, KnownIn
  <1>7. \A i \in DOMAIN holes[s] : Made(X, k, holes[s][i].message.action)
    <2>1. \A i \in DOMAIN holes[s] : holes[s][i].message.action \in ActionSet
      BY <1>3 DEF MessageSet
    <2>. QED  BY <1>2, <2>1 DEF KeysKnown, KnownIn
  <1>. QED  BY <1>4, <1>5, <1>6, <1>7

(* A sent message was posted, or it is a text.                             *)
SendsNext(s, action, rest) ==
    /\ SendNext(s, action, rest) /\ action \in ActionSet
    /\ (posted[s] # <<>> /\ action = Head(posted[s]) /\ rest = Tail(posted[s])) \/ (action = Text /\ rest = posted[s])

(* A step that sends takes a text or the first posted message.              *)
LEMMA SendsSomething ==
  ASSUME Inv, NEW s \in Sides, SendText(s) \/ SendPosted(s)
  PROVE  \E action, rest : SendsNext(s, action, rest)
  <1>1. posted[s] \in Seq(ActionSet) /\ Text \in ActionSet
    BY DEF Inv, TypeOK, Text, Action, ActionSet
  <1>2. CASE SendText(s)
    BY <1>1, <1>2 DEF SendText, SendsNext
  <1>3. CASE SendPosted(s)
    <2>1. Head(posted[s]) \in ActionSet /\ posted[s] # <<>>
      BY <1>1, <1>3, WithoutHead DEF SendPosted
    <2>. QED  BY <1>3, <2>1 DEF SendPosted, SendsNext
  <1>. QED  BY <1>2, <1>3

(* What a new message does to the variables.                               *)
NewMessage(s, action) == Message(chat[s].out, chat[s].key, action)
OneMoreOut(s) == [chat[s] EXCEPT !.out = @ + 1]
SendHas(s, action, rest, m, c) ==
    /\ m \in MessageSet /\ m.n = chat[s].out /\ m.key = chat[s].key /\ m.action = action
    /\ c \in ChatSet /\ c.in = chat[s].in /\ c.out = chat[s].out + 1 /\ c.due = chat[s].due /\ Alike(chat[s], c)
    /\ rest \in Seq(ActionSet)
    /\ net'[s] = net[s] \cup {m} /\ \A t \in Sides : t # s => net'[t] = net[t]
    /\ \A t \in Sides : t # s => chat'[t] = chat[t] /\ posted'[t] = posted[t]
    /\ \/ chat'[s] = c /\ posted'[s] = rest /\ exchanges' = exchanges /\ overlapped' = overlapped
       \/ /\ c.exchange = 0 /\ overlapped' = (overlapped \/ Unsettled(s))
          /\ \E e \in ExchangeIds \ exchanges :
               /\ chat'[s] = Requested(c, e) /\ posted'[s] = Append(rest, RequestKey(e))
               /\ exchanges' = exchanges \cup {e}
    /\ UNCHANGED <<open, holes, busy, copies, failed, declined, keys, repeats, fails, misjudged>>

(* What a step that sends does to each variable.                            *)
LEMMA SendEffects ==
  ASSUME Inv, NEW s \in Sides, NEW action, NEW rest, SendsNext(s, action, rest)
  PROVE  SendHas(s, action, rest, NewMessage(s, action), OneMoreOut(s))
  <1>. DEFINE m == NewMessage(s, action)
              c == OneMoreOut(s)
  <1>1. chat[s] \in ChatSet /\ posted[s] \in Seq(ActionSet)
    BY DEF Inv, TypeOK
  <1>2. m \in MessageSet /\ m.n = chat[s].out /\ m.key = chat[s].key /\ m.action = action
    BY <1>1 DEF NewMessage, Message, MessageSet, ChatSet, SendsNext
  <1>3. c \in ChatSet /\ c.in = chat[s].in /\ c.out = chat[s].out + 1 /\ c.due = chat[s].due /\ Alike(chat[s], c)
    BY <1>1 DEF OneMoreOut, ChatSet, Alike
  <1>4. rest \in Seq(ActionSet)
    BY <1>1, WithoutHead DEF SendsNext
  <1>. HIDE DEF m, c
  <1>5. /\ net' = [net EXCEPT ![s] = net[s] \cup {m}]
        /\ UNCHANGED <<open, holes, busy, copies, failed, declined, keys, repeats, fails, misjudged>>
        /\ \/ /\ chat' = [chat EXCEPT ![s] = c] /\ posted' = [posted EXCEPT ![s] = rest]
              /\ UNCHANGED <<exchanges, overlapped>>
           \/ /\ c.exchange = 0 /\ overlapped' = (overlapped \/ Unsettled(s))
              /\ \E e \in ExchangeIds :
                   /\ NewExchange(e)
                   /\ chat' = [chat EXCEPT ![s] = Requested(c, e)]
                   /\ posted' = [posted EXCEPT ![s] = Append(rest, RequestKey(e))]
                   /\ exchanges' = exchanges \cup {e}
    BY DEF SendsNext, SendNext, m, c, NewMessage, OneMoreOut
  <1>6. net'[s] = net[s] \cup {m} /\ \A t \in Sides : t # s => net'[t] = net[t]
    BY <1>5 DEF Inv, TypeOK
  <1>7. \A t \in Sides : t # s => chat'[t] = chat[t] /\ posted'[t] = posted[t]
    BY <1>5 DEF Inv, TypeOK
  <1>8. \/ chat'[s] = c /\ posted'[s] = rest /\ exchanges' = exchanges /\ overlapped' = overlapped
        \/ /\ c.exchange = 0 /\ overlapped' = (overlapped \/ Unsettled(s))
           /\ \E e \in ExchangeIds \ exchanges :
                /\ chat'[s] = Requested(c, e) /\ posted'[s] = Append(rest, RequestKey(e))
                /\ exchanges' = exchanges \cup {e}
    <2>1. CASE chat' = [chat EXCEPT ![s] = c] /\ posted' = [posted EXCEPT ![s] = rest] /\ UNCHANGED <<exchanges, overlapped>>
      BY <2>1 DEF Inv, TypeOK
    <2>2. CASE /\ c.exchange = 0 /\ overlapped' = (overlapped \/ Unsettled(s))
               /\ \E e \in ExchangeIds :
                    /\ NewExchange(e)
                    /\ chat' = [chat EXCEPT ![s] = Requested(c, e)]
                    /\ posted' = [posted EXCEPT ![s] = Append(rest, RequestKey(e))]
                    /\ exchanges' = exchanges \cup {e}
      <3>1. PICK e \in ExchangeIds :
                    /\ NewExchange(e)
                    /\ chat' = [chat EXCEPT ![s] = Requested(c, e)]
                    /\ posted' = [posted EXCEPT ![s] = Append(rest, RequestKey(e))]
                    /\ exchanges' = exchanges \cup {e}
        BY <2>2
      <3>2. e \in ExchangeIds \ exchanges /\ chat'[s] = Requested(c, e) /\ posted'[s] = Append(rest, RequestKey(e))
        BY <3>1 DEF Inv, TypeOK, NewExchange
      <3>. QED  BY <2>2, <3>1, <3>2
    <2>. QED  BY <1>5, <2>1, <2>2
  <1>. QED  BY <1>2, <1>3, <1>4, <1>5, <1>6, <1>7, <1>8 DEF m, c, SendHas

(* Sending makes no key, and an exchange that begins is made.               *)
LEMMA SendKnows ==
  ASSUME Inv, KeysKnown, NEW s \in Sides, NEW action, NEW rest, SendsNext(s, action, rest)
  PROVE  KeysKnown'
  <1>. DEFINE m == NewMessage(s, action)
              c == OneMoreOut(s)
  <1>1. /\ m.action = action /\ c \in ChatSet /\ Alike(chat[s], c) /\ rest \in Seq(ActionSet)
        /\ net'[s] = net[s] \cup {m} /\ \A t \in Sides : t # s => net'[t] = net[t]
        /\ \A t \in Sides : t # s => chat'[t] = chat[t] /\ posted'[t] = posted[t]
        /\ \/ chat'[s] = c /\ posted'[s] = rest /\ exchanges' = exchanges
           \/ \E e \in ExchangeIds \ exchanges :
                /\ chat'[s] = Requested(c, e) /\ posted'[s] = Append(rest, RequestKey(e))
                /\ exchanges' = exchanges \cup {e}
        /\ keys' = keys /\ copies' = copies /\ failed' = failed /\ holes' = holes
    <2>1. SendHas(s, action, rest, m, c)
      BY SendEffects
    <2>. HIDE DEF m, c
    <2>. QED  BY <2>1 DEF SendHas
  <1>. HIDE DEF m, c
  <1>2. exchanges \subseteq exchanges' /\ keys \in Nat
    BY <1>1 DEF Inv, TypeOK
  <1>. DEFINE X == exchanges'
  <1>3. KnownIn(X, keys)
    BY <1>2, KnownLater
  <1>4. posted[s] \in Seq(ActionSet)
    BY DEF Inv, TypeOK
  <1>5. Made(X, keys, action) /\ AllMade(X, keys, rest)
    <2>1. Made(X, keys, Text)
      BY <1>2, ActionsMade
    <2>2. AllMade(X, keys, posted[s])
      BY <1>3 DEF KnownIn
    <2>3. posted[s] # <<>> => Made(X, keys, Head(posted[s])) /\ AllMade(X, keys, Tail(posted[s]))
      BY <1>4, <2>2, WithoutHead DEF AllMade
    <2>. QED  BY <2>1, <2>2, <2>3 DEF SendsNext
  <1>6. ChatMade(X, keys, c)
    BY <1>1, <1>3 DEF KnownIn, ChatMade, Made, Alike
  <1>7. ChatMade(X, keys, chat'[s]) /\ AllMade(X, keys, posted'[s])
    <2>1. CASE chat'[s] = c /\ posted'[s] = rest
      BY <1>5, <1>6, <2>1
    <2>2. ASSUME NEW e \in ExchangeIds, chat'[s] = Requested(c, e), posted'[s] = Append(rest, RequestKey(e)), e \in X
          PROVE  ChatMade(X, keys, chat'[s]) /\ AllMade(X, keys, posted'[s])
      <3>1. Requested(c, e).key = c.key /\ Requested(c, e).future = c.future /\ Requested(c, e).exchange = e
        BY <1>1 DEF Requested, ChatSet
      <3>2. ChatMade(X, keys, chat'[s])
        BY <1>6, <2>2, <3>1 DEF ChatMade, Made
      <3>3. Made(X, keys, RequestKey(e)) /\ RequestKey(e) \in ActionSet
        <4>1. RequestKey(e) \in ActionSet
          BY DEF RequestKey, Action, ActionSet
        <4>2. e \in {0} \cup X /\ keys \in Nat
          BY <1>2, <2>2
        <4>. HIDE DEF X
        <4>. QED  BY <4>1, <4>2, ActionsMade
      <3>4. AllMade(X, keys, posted'[s])
        BY <1>1, <1>5, <2>2, <3>3, Appended DEF AllMade
      <3>. QED  BY <3>2, <3>4
    <2>. QED  BY <1>1, <2>1, <2>2
  <1>8. ASSUME NEW t \in Sides
        PROVE  /\ ChatMade(X, keys, chat'[t]) /\ AllMade(X, keys, posted'[t])
               /\ \A x \in net'[t] \cup copies'[t] \cup failed'[t] : Made(X, keys, x.action)
               /\ \A i \in DOMAIN holes'[t] : Made(X, keys, holes'[t][i].message.action)
    <2>1. ChatMade(X, keys, chat'[t]) /\ AllMade(X, keys, posted'[t])
      BY <1>1, <1>3, <1>7 DEF KnownIn
    <2>2. \A x \in net'[t] \cup copies'[t] \cup failed'[t] : Made(X, keys, x.action)
      BY <1>1, <1>3, <1>5 DEF KnownIn
    <2>3. \A i \in DOMAIN holes'[t] : Made(X, keys, holes'[t][i].message.action)
      BY <1>1, <1>3 DEF KnownIn
    <2>. QED  BY <2>1, <2>2, <2>3
  <1>. QED  BY <1>1, <1>8 DEF KeysKnown, KnownIn

(* What processing a message does to the variables.                        *)
Begun(s, m, e) ==
    LET c == [chat[s] EXCEPT !.in = m.n] IN IF e = 0 THEN c ELSE Requested(c, e)
Outcome(s, m, new, e) == Handled(Switched(Begun(s, m, e), new), m.action, keys + 1)
Begins(q, e) == IF e = 0 THEN q ELSE Append(q, RequestKey(e))
ProcessHas(s, m, new, e, c, h) ==
    /\ e # 0 => e \notin exchanges /\ chat[s].exchange = 0 /\ chat[s].future = 0
    /\ c \in ChatSet /\ c.key = chat[s].key /\ c.future = chat[s].future
    /\ c.exchange = IF e = 0 THEN chat[s].exchange ELSE e
    /\ h = Handled(Switched(c, new), m.action, keys + 1)
    /\ h.chat \in ChatSet /\ h.post \in Seq(ActionSet) /\ h.chat.in = m.n /\ h.chat.out = chat[s].out
    /\ Begins(posted[s], e) \in Seq(ActionSet)
    /\ chat'[s] = h.chat /\ posted'[s] = Begins(posted[s], e) \o h.post
    /\ \A t \in Sides : t # s => chat'[t] = chat[t] /\ posted'[t] = posted[t]
    /\ keys' = IF h.chat.future = keys + 1 THEN keys + 1 ELSE keys
    /\ exchanges' = exchanges \cup ({e} \ {0})
    /\ overlapped' = (overlapped \/ (e # 0 /\ Unsettled(s)))

(* What a step that processes a message does to each variable.              *)
LEMMA ProcessEffects ==
  ASSUME Inv, NEW s \in Sides, NEW m \in MessageSet, NEW new \in BOOLEAN, Process(s, m, new)
  PROVE  \E e \in {0} \cup ExchangeIds : ProcessHas(s, m, new, e, Begun(s, m, e), Outcome(s, m, new, e))
  <1>1. PICK e \in {0} \cup ExchangeIds :
          LET c0 == [chat[s] EXCEPT !.in = m.n]
              c1 == IF e = 0 THEN c0 ELSE Requested(c0, e)
              r  == Handled(Switched(c1, new), m.action, keys + 1) IN
          /\ e # 0 => NewExchange(e) /\ chat[s].due /\ chat[s].exchange = 0 /\ chat[s].future = 0
          /\ chat' = [chat EXCEPT ![s] = r.chat]
          /\ posted' = [posted EXCEPT ![s] =
                           @ \o (IF e = 0 THEN <<>> ELSE <<RequestKey(e)>>) \o r.post]
          /\ keys' = IF r.chat.future = keys + 1 THEN keys + 1 ELSE keys
          /\ exchanges' = exchanges \cup ({e} \ {0})
          /\ overlapped' = (overlapped \/ (e # 0 /\ Unsettled(s)))
    BY DEF Process
  <1>. DEFINE c == Begun(s, m, e)
              h == Outcome(s, m, new, e)
              p == IF e = 0 THEN <<>> ELSE <<RequestKey(e)>>
  <1>2. m.n \in Nat /\ m.action \in ActionSet /\ keys + 1 \in Nat
    BY DEF Inv, MessageSet, TypeOK
  <1>3. /\ c \in ChatSet /\ c.in = m.n /\ c.out = chat[s].out /\ c.key = chat[s].key /\ c.future = chat[s].future
        /\ c.exchange = IF e = 0 THEN chat[s].exchange ELSE e
    <2>1. chat[s] \in ChatSet
      BY DEF Inv, TypeOK
    <2>. DEFINE x == [chat[s] EXCEPT !.in = m.n]
    <2>2. x \in ChatSet /\ x.in = m.n /\ x.out = chat[s].out /\ x.key = chat[s].key /\ x.future = chat[s].future
          /\ x.exchange = chat[s].exchange
      BY <1>2, <2>1 DEF ChatSet
    <2>3. c = IF e = 0 THEN x ELSE Requested(x, e)
      BY DEF Begun
    <2>. HIDE DEF x, c
    <2>4. CASE e = 0
      BY <2>2, <2>3, <2>4
    <2>5. CASE e # 0
      <3>1. c = Requested(x, e) /\ e \in ExchangeIds
        BY <2>3, <2>5
      <3>. QED  BY <2>2, <2>5, <3>1 DEF Requested, ChatSet
    <2>. QED  BY <2>4, <2>5
  <1>4. /\ h.chat \in ChatSet /\ h.post \in Seq(ActionSet)
        /\ h.chat.in = m.n /\ h.chat.out = chat[s].out /\ h = Handled(Switched(c, new), m.action, keys + 1)
    <2>1. h = Handled(Switched(c, new), m.action, keys + 1)
      BY DEF Outcome
    <2>. HIDE DEF h, c
    <2>. QED  BY <1>2, <1>3, <2>1, HandledKeeps
  <1>5. /\ e # 0 => e \notin exchanges /\ chat[s].exchange = 0 /\ chat[s].future = 0
        /\ chat' = [chat EXCEPT ![s] = h.chat]
        /\ posted' = [posted EXCEPT ![s] = posted[s] \o p \o h.post]
        /\ keys' = IF h.chat.future = keys + 1 THEN keys + 1 ELSE keys
        /\ exchanges' = exchanges \cup ({e} \ {0})
        /\ overlapped' = (overlapped \/ (e # 0 /\ Unsettled(s)))
    BY <1>1 DEF Outcome, Begun, NewExchange
  <1>6. posted[s] \o p = Begins(posted[s], e) /\ Begins(posted[s], e) \in Seq(ActionSet)
    <2>1. posted[s] \in Seq(ActionSet)
      BY DEF Inv, TypeOK
    <2>2. RequestKey(e) \in ActionSet
      BY DEF RequestKey, Action, ActionSet
    <2>3. posted[s] \o <<>> = posted[s] /\ posted[s] \o <<RequestKey(e)>> = Append(posted[s], RequestKey(e))
      BY <2>1, <2>2, Posts
    <2>4. Append(posted[s], RequestKey(e)) \in Seq(ActionSet)
      BY <2>1, <2>2, Appended
    <2>. QED  BY <2>1, <2>3, <2>4 DEF Begins
  <1>. HIDE DEF c, h, p
  <1>7. chat'[s] = h.chat /\ posted'[s] = Begins(posted[s], e) \o h.post
    BY <1>5, <1>6 DEF Inv, TypeOK
  <1>8. \A t \in Sides : t # s => chat'[t] = chat[t] /\ posted'[t] = posted[t]
    BY <1>5 DEF Inv, TypeOK
  <1>9. ProcessHas(s, m, new, e, c, h)
    BY <1>3, <1>4, <1>5, <1>6, <1>7, <1>8 DEF ProcessHas
  <1>. QED  BY <1>9 DEF c, h

(* Processing a message names only keys and exchanges that were made.       *)
LEMMA ProcessKnows ==
  ASSUME Inv, KeysKnown, NEW s \in Sides, NEW m \in MessageSet, NEW new \in BOOLEAN, Process(s, m, new),
         Made(exchanges, keys, m.action),
         \A t \in Sides : net'[t] \cup copies'[t] \cup failed'[t] \subseteq net[t] \cup copies[t] \cup failed[t],
         \A t \in Sides : \A i \in DOMAIN holes'[t] : \E j \in DOMAIN holes[t] : holes'[t][i] = holes[t][j]
  PROVE  KeysKnown'
  <1>1. PICK e \in {0} \cup ExchangeIds : ProcessHas(s, m, new, e, Begun(s, m, e), Outcome(s, m, new, e))
    BY ProcessEffects
  <1>. DEFINE c == Begun(s, m, e)
              h == Outcome(s, m, new, e)
              X == exchanges'
              k == keys'
  <1>. HIDE DEF c, h
  <1>2. ProcessHas(s, m, new, e, c, h)
    BY <1>1 DEF c, h
  <1>3. keys \in Nat /\ k \in Nat /\ keys <= k /\ exchanges \subseteq X /\ (e # 0 => e \in X)
    BY <1>2 DEF Inv, TypeOK, ProcessHas
  <1>4. KnownIn(X, k) /\ KnownIn(X, keys)
    BY <1>3, KnownLater
  <1>5. Made(X, keys, m.action) /\ ChatMade(X, keys, c) /\ c \in ChatSet /\ m.action \in ActionSet
    <2>1. m.action \in ActionSet
      BY DEF MessageSet
    <2>2. ChatMade(X, keys, chat[s])
      BY <1>4 DEF KnownIn
    <2>3. ChatMade(X, keys, c)
      BY <1>2, <1>3, <2>2 DEF ProcessHas, ChatMade, Made
    <2>4. Made(X, keys, m.action)
      BY <1>3 DEF Made
    <2>. QED  BY <1>2, <2>1, <2>3, <2>4 DEF ProcessHas
  <1>6. ChatMade(X, k, h.chat) /\ AllMade(X, k, h.post)
    <2>1. ChatMade(X, keys, Switched(c, new)) /\ Switched(c, new) \in ChatSet
      BY <1>3, <1>5, SwitchedMade, SwitchedFacts
    <2>. DEFINE b == Switched(c, new)
                g == Handled(b, m.action, keys + 1)
                l == IF g.chat.future = keys + 1 THEN keys + 1 ELSE keys
    <2>. HIDE DEF b
    <2>2. ChatMade(X, l, g.chat) /\ AllMade(X, l, g.post)
      <3>1. b \in ChatSet /\ ChatMade(X, keys, b)
        BY <2>1 DEF b
      <3>. HIDE DEF X
      <3>. QED  BY <1>3, <1>5, <3>1, HandledMade
    <2>3. g = h /\ l = k
      BY <1>2 DEF ProcessHas, b
    <2>. HIDE DEF g, l
    <2>. QED  BY <2>2, <2>3
  <1>7. AllMade(X, k, posted'[s])
    <2>. DEFINE q == Begins(posted[s], e)
    <2>1. AllMade(X, k, q)
      <3>1. AllMade(X, k, posted[s]) /\ posted[s] \in Seq(ActionSet)
        BY <1>4 DEF KnownIn, Inv, TypeOK
      <3>2. ASSUME e # 0 PROVE AllMade(X, k, Append(posted[s], RequestKey(e)))
        <4>1. Made(X, k, RequestKey(e))
          <5>1. e \in {0} \cup X /\ k \in Nat
            BY <1>3, <3>2
          <5>. HIDE DEF X, k
          <5>. QED  BY <5>1, ActionsMade
        <4>2. RequestKey(e) \in ActionSet
          BY DEF RequestKey, Action, ActionSet
        <4>. QED  BY <3>1, <4>1, <4>2, Appended DEF AllMade
      <3>. QED  BY <3>1, <3>2 DEF Begins
    <2>2. q \in Seq(ActionSet) /\ h.post \in Seq(ActionSet) /\ posted'[s] = q \o h.post
      BY <1>2 DEF ProcessHas
    <2>. HIDE DEF q
    <2>3. \A i \in DOMAIN (q \o h.post) : \/ i \in DOMAIN q /\ (q \o h.post)[i] = q[i]
                                          \/ \E j \in DOMAIN h.post : (q \o h.post)[i] = h.post[j]
      BY <2>2
    <2>. QED  BY <1>6, <2>1, <2>2, <2>3 DEF AllMade
  <1>8. ASSUME NEW t \in Sides
        PROVE  /\ ChatMade(X, k, chat'[t]) /\ AllMade(X, k, posted'[t])
               /\ \A x \in net'[t] \cup copies'[t] \cup failed'[t] : Made(X, k, x.action)
               /\ \A i \in DOMAIN holes'[t] : Made(X, k, holes'[t][i].message.action)
    <2>1. CASE t = s
      <3>1. ChatMade(X, k, chat'[t]) /\ AllMade(X, k, posted'[t])
        BY <1>2, <1>6, <1>7, <2>1 DEF ProcessHas
      <3>. QED  BY <1>4, <3>1 DEF KnownIn
    <2>2. CASE t # s
      <3>1. ChatMade(X, k, chat'[t]) /\ AllMade(X, k, posted'[t])
        BY <1>2, <1>4, <2>2 DEF ProcessHas, KnownIn
      <3>. QED  BY <1>4, <3>1 DEF KnownIn
    <2>. QED  BY <2>1, <2>2
  <1>. QED  BY <1>8 DEF KeysKnown, KnownIn

-----------------------------------------------------------------------------
(* The messages that are held.                                             *)

(* The messages under a new key and the others are held messages.           *)
LEMMA HeldParts ==
  ASSUME NEW l
  PROVE  /\ HeldNew(l) \subseteq Held(l) /\ HeldOld(l) \subseteq Held(l)
         /\ \A i \in DOMAIN l : l[i].message \in Held(l) /\ (l[i].new => l[i].message \in HeldNew(l))
  BY DEF Held, HeldNew, HeldOld

(* One more message is held.                                                *)
LEMMA HeldAppended ==
  ASSUME NEW l \in Seq(HeldSet), NEW h \in HeldSet
  PROVE  LET k == Append(l, h)
         IN  /\ Held(k) = Held(l) \cup {h.message}
             /\ HeldNew(k) = IF h.new THEN HeldNew(l) \cup {h.message} ELSE HeldNew(l)
             /\ HeldOld(k) = IF ~h.new THEN HeldOld(l) \cup {h.message} ELSE HeldOld(l)
  <1>. DEFINE k == Append(l, h)
  <1>1. /\ \A i \in DOMAIN k : \/ i \in DOMAIN l /\ k[i] = l[i] /\ i <= Len(l)
                               \/ i = Len(l) + 1 /\ k[i] = h
        /\ \E i \in DOMAIN k : k[i] = h
        /\ \A i \in DOMAIN l : i \in DOMAIN k /\ k[i] = l[i]
    BY Appended
  <1>. HIDE DEF k
  <1>2. Held(k) = Held(l) \cup {h.message}
    BY <1>1 DEF Held
  <1>3. HeldNew(k) = IF h.new THEN HeldNew(l) \cup {h.message} ELSE HeldNew(l)
    BY <1>1 DEF HeldNew
  <1>4. HeldOld(k) = IF ~h.new THEN HeldOld(l) \cup {h.message} ELSE HeldOld(l)
    BY <1>1 DEF HeldOld
  <1>. QED  BY <1>2, <1>3, <1>4 DEF k

(* The positions of the others after one is taken out.                     *)
LEMMA TakeOutAt ==
  ASSUME NEW S, NEW q \in Seq(S), NEW i \in DOMAIN q
  PROVE  /\ DOMAIN RemoveAt(q, i) = 1 .. Len(q) - 1 /\ DOMAIN q = 1 .. Len(q) /\ Len(q) \in Nat
         /\ \A j \in 1 .. Len(q) - 1 : RemoveAt(q, i)[j] = IF j < i THEN q[j] ELSE q[j + 1]
  <1>1. Len(q) \in Nat /\ i \in 1 .. Len(q) /\ DOMAIN q = 1 .. Len(q) /\ \A j \in 1 .. Len(q) : q[j] \in S
    BY LenProperties, ElementOfSeq
  <1>. DEFINE a == SubSeq(q, 1, i - 1)
              b == SubSeq(q, i + 1, Len(q))
  <1>2. /\ a \in Seq(S) /\ Len(a) = i - 1
        /\ \A j \in 1 .. i - 1 : a[j] = q[j]
    <2>1. \A j \in 1 .. i - 1 : q[j] \in S
      BY <1>1
    <2>. QED  BY <1>1, <2>1, SubSeqProperties
  <1>3. /\ b \in Seq(S) /\ Len(b) = Len(q) - i
        /\ \A j \in 1 .. Len(q) - i : b[j] = q[i + j]
    <2>1. \A j \in i + 1 .. Len(q) : q[j] \in S
      BY <1>1
    <2>2. /\ b \in Seq(S) /\ Len(b) = IF i + 1 <= Len(q) THEN Len(q) - (i + 1) + 1 ELSE 0
          /\ \A j \in 1 .. Len(q) - (i + 1) + 1 : b[j] = q[i + 1 + j - 1]
      BY <1>1, <2>1, SubSeqProperties
    <2>. QED  BY <1>1, <2>2, SMTT(60)
  <1>. HIDE DEF a, b
  <1>4. RemoveAt(q, i) = a \o b
    BY DEF RemoveAt, a, b
  <1>5. /\ a \o b \in Seq(S) /\ Len(a \o b) = Len(q) - 1
        /\ \A j \in 1 .. Len(q) - 1 : (a \o b)[j] = IF j <= i - 1 THEN a[j] ELSE b[j - (i - 1)]
    <2>1. /\ a \o b \in Seq(S) /\ Len(a \o b) = Len(a) + Len(b)
          /\ \A j \in 1 .. Len(a) + Len(b) : (a \o b)[j] = IF j <= Len(a) THEN a[j] ELSE b[j - Len(a)]
      BY <1>2, <1>3, ConcatProperties
    <2>. QED  BY <1>1, <1>2, <1>3, <2>1
  <1>6. ASSUME NEW j \in 1 .. Len(q) - 1 PROVE (a \o b)[j] = IF j < i THEN q[j] ELSE q[j + 1]
    <2>1. CASE j < i
      BY <1>1, <1>2, <1>5, <2>1
    <2>2. CASE ~(j < i)
      <3>1. (a \o b)[j] = b[j - (i - 1)] /\ j - (i - 1) \in 1 .. Len(q) - i /\ i + (j - (i - 1)) = j + 1
        BY <1>1, <1>5, <2>2
      <3>. QED  BY <1>3, <2>2, <3>1
    <2>. QED  BY <2>1, <2>2
  <1>7. DOMAIN (a \o b) = 1 .. Len(q) - 1
    BY <1>5, LenProperties
  <1>. QED  BY <1>1, <1>4, <1>6, <1>7

Distinct(l) == \A i, j \in DOMAIN l : l[i].message = l[j].message => i = j

(* One message less is held.                                                *)
LEMMA HeldTaken ==
  ASSUME NEW l \in Seq(HeldSet), NEW i \in DOMAIN l, Distinct(l)
  PROVE  LET k == RemoveAt(l, i)
             m == l[i].message
         IN  /\ Held(k) = Held(l) \ {m} /\ HeldNew(k) \subseteq HeldNew(l) /\ HeldOld(k) \subseteq HeldOld(l)
             /\ Distinct(k)
  <1>. DEFINE k == RemoveAt(l, i)
              m == l[i].message
  <1>1. /\ DOMAIN k = 1 .. Len(l) - 1 /\ DOMAIN l = 1 .. Len(l) /\ Len(l) \in Nat
        /\ \A j \in 1 .. Len(l) - 1 : k[j] = IF j < i THEN l[j] ELSE l[j + 1]
    BY TakeOutAt
  <1>. HIDE DEF k
  <1>. DEFINE At(j) == IF j < i THEN j ELSE j + 1
  <1>2. \A j \in DOMAIN k : At(j) \in DOMAIN l /\ At(j) # i /\ k[j] = l[At(j)]
    BY <1>1
  <1>3. \A j, x \in DOMAIN k : At(j) = At(x) => j = x
    BY <1>1
  <1>4. ASSUME NEW x \in DOMAIN l, x # i PROVE \E j \in DOMAIN k : k[j] = l[x]
    <2>1. CASE x < i
      <3>1. x \in DOMAIN k
        BY <1>1, <2>1
      <3>. QED  BY <1>1, <2>1, <3>1
    <2>2. CASE i < x
      <3>1. x - 1 \in DOMAIN k /\ ~(x - 1 < i) /\ (x - 1) + 1 = x
        BY <1>1, <2>2
      <3>. QED  BY <1>1, <3>1
    <2>. QED  BY <1>1, <1>4, <2>1, <2>2
  <1>. HIDE DEF At
  <1>5. Held(k) = Held(l) \ {m}
    <2>1. \A x \in DOMAIN l : l[x].message = m => x = i
      BY DEF Distinct
    <2>2. Held(k) \subseteq Held(l) \ {m}
      BY <1>2, <2>1 DEF Held
    <2>3. Held(l) \ {m} \subseteq Held(k)
      BY <1>4 DEF Held
    <2>. QED  BY <2>2, <2>3
  <1>6. HeldNew(k) \subseteq HeldNew(l) /\ HeldOld(k) \subseteq HeldOld(l)
    BY <1>2 DEF HeldNew, HeldOld
  <1>7. Distinct(k)
    BY <1>2, <1>3 DEF Distinct
  <1>. QED  BY <1>5, <1>6, <1>7 DEF k

-----------------------------------------------------------------------------
(* Every message is in one place.                                          *)

(* What the rest needs to know of a side.                                  *)
LEMMA ProperAt ==
  ASSUME Inv, NEW s \in Sides
  PROVE  /\ Proper(chat[s], Awaited(s), posted[s], HeldNew(holes[s]), HeldOld(holes[s]))
         /\ Coming(s) \in SUBSET MessageSet /\ HeldNew(holes[s]) \subseteq Awaited(s)
         /\ Held(holes[s]) \subseteq Awaited(s)
         /\ \A m \in Coming(s) : m.n < chat[Other(s)].out
  <1>1. /\ chat[s] \in ChatSet /\ posted[s] \in Seq(ActionSet) /\ Other(s) \in Sides
        /\ net[Other(s)] \in SUBSET MessageSet
        /\ \A i \in DOMAIN holes[s] : holes[s][i].message \in MessageSet
    BY HeldNumbers, OtherSide DEF Inv, TypeOK
  <1>2. Held(holes[s]) \in SUBSET MessageSet
    BY <1>1 DEF Held
  <1>3. Coming(s) \in SUBSET MessageSet
    BY <1>1, <1>2 DEF Coming
  <1>4. Held(holes[s]) \subseteq Awaited(s)
    BY DEF Inv, HeldAhead, Held, Coming, Awaited
  <1>5. HeldNew(holes[s]) \subseteq Held(holes[s]) /\ HeldOld(holes[s]) \subseteq Held(holes[s])
    BY HeldParts
  <1>6. Awaited(s) \subseteq Coming(s)
    BY DEF Awaited
  <1>7. \A m \in Coming(s) : m.n < chat[Other(s)].out
    BY <1>1 DEF Inv, Known, Coming, Held
  <1>8. chat[s].key \in Nat /\ chat[s].future \in Nat /\ chat[s].exchange \in {0} \cup ExchangeIds
    BY <1>1 DEF ChatSet
  <1>. QED  BY <1>1, <1>3, <1>4, <1>5, <1>6, <1>7, <1>8 DEF Proper

(* A message is taken out of its place, to be processed.                   *)
Takes(s, m) ==
    /\ m \in Coming(s) /\ InOrder(s, m)
    /\ Coming(s)' = Coming(s) \ {m} /\ Coming(Other(s))' = Coming(Other(s))
    /\ Distinct(holes'[s]) /\ holes'[Other(s)] = holes[Other(s)]
    /\ Held(holes'[s]) \cap net'[Other(s)] = {}
    /\ HeldNew(holes'[s]) \subseteq HeldNew(holes[s]) /\ HeldOld(holes'[s]) \subseteq HeldOld(holes[s])
    /\ chat'[s].in = m.n /\ chat'[Other(s)].in = chat[Other(s)].in
    /\ copies' = copies /\ failed' = failed /\ repeats' = repeats /\ fails' = fails /\ open' = open
    /\ net'[s] = net[s]

SingleAt(s) ==
    /\ copies[s] = {} /\ failed[s] = {}
    /\ \A m, x \in Coming(s) : m.n = x.n => m = x
    /\ \A i \in DOMAIN holes[s] : holes[s][i].message \notin net[Other(s)]
    /\ Distinct(holes[s])
    /\ \A m \in Coming(s) : Started <= m.n /\ (chat[s].in < m.n \/ m.n = 0)

(* What is said of both sides is said of each.                              *)
LEMMA SingleEach == Single <=> (repeats = 0 /\ fails = 0 => \A s \in Sides : SingleAt(s))
  BY DEF Single, SingleAt, Distinct

(* Taking a message out of its place leaves every other in one place.       *)
LEMMA TakesSingle ==
  ASSUME Inv, Inv', Single, NEW s \in Sides, NEW m, Takes(s, m)
  PROVE  Single'
  <1>. SUFFICES ASSUME repeats = 0, fails = 0, NEW t \in Sides PROVE SingleAt(t)'
    <2>1. Single' <=> (repeats' = 0 /\ fails' = 0 => \A t \in Sides : SingleAt(t)')
      BY DEF Single, SingleAt, Distinct
    <2>. QED  BY <2>1 DEF Takes
  <1>1. /\ SingleAt(s) /\ SingleAt(Other(s)) /\ Other(s) \in Sides /\ Other(Other(s)) = s
        /\ t = s \/ t = Other(s)
    BY SingleEach, OtherSide
  <1>2. CASE t = s
    <2>1. copies'[s] = {} /\ failed'[s] = {} /\ Distinct(holes'[s])
      BY <1>1 DEF Takes, SingleAt
    <2>2. \A y, x \in Coming(s)' : y.n = x.n => y = x
      BY <1>1 DEF Takes, SingleAt
    <2>3. \A i \in DOMAIN holes'[s] : holes'[s][i].message \notin net'[Other(s)]
      BY DEF Takes, Held
    <2>4. ASSUME NEW x \in Coming(s)' PROVE Started <= x.n /\ (chat'[s].in < x.n \/ x.n = 0)
      <3>1. /\ x \in Coming(s) /\ x # m /\ m \in Coming(s) /\ x.n # m.n
            /\ m.n = chat[s].in \/ m.n = chat[s].in + 1
            /\ chat'[s].in = m.n
        BY <1>1 DEF Takes, SingleAt, InOrder
      <3>2. x.n \in Nat /\ m.n \in Nat /\ chat[s].in \in Nat
        BY <3>1, ProperAt, HeldNumbers DEF MessageSet, Inv
      <3>3. Started <= x.n /\ (chat[s].in < x.n \/ x.n = 0) /\ (chat[s].in < m.n \/ m.n = 0)
        BY <1>1, <3>1 DEF SingleAt
      <3>. QED  BY <3>1, <3>2, <3>3
    <2>. QED  BY <1>2, <2>1, <2>2, <2>3, <2>4 DEF SingleAt
  <1>3. CASE t = Other(s)
    <2>1. /\ copies'[t] = copies[t] /\ failed'[t] = failed[t] /\ holes'[t] = holes[t] /\ net'[Other(t)] = net[Other(t)]
          /\ Coming(t)' = Coming(t) /\ chat'[t].in = chat[t].in
      BY <1>1, <1>3 DEF Takes
    <2>. QED  BY <1>1, <1>3, <2>1 DEF SingleAt
  <1>. QED  BY <1>1, <1>2, <1>3

(* A message that comes while every message arrives once.                  *)
LEMMA DeliverOnce ==
  ASSUME Inv, Single, NEW s \in Sides, NEW m, Deliver(s, m), repeats' = 0, fails' = 0
  PROVE  /\ m \in net[Other(s)] /\ m \in MessageSet /\ m \in Coming(s) /\ m \notin Held(holes[s])
         /\ net'[Other(s)] = net[Other(s)] \ {m} /\ net'[s] = net[s]
         /\ copies' = copies /\ failed' = failed /\ repeats' = repeats /\ fails' = fails /\ misjudged' = misjudged
  <1>1. /\ Other(s) \in Sides /\ Other(s) # s /\ repeats \in Nat /\ net \in [Sides -> SUBSET MessageSet]
        /\ copies \in [Sides -> SUBSET MessageSet]
    BY OtherSide DEF Inv, TypeOK
  <1>2. failed' = failed /\ fails' = fails /\ misjudged' = misjudged
    BY DEF Deliver
  <1>3. repeats = 0 /\ fails = 0
    <2>1. repeats' = repeats \/ repeats' = repeats + 1
      BY DEF Deliver
    <2>. QED  BY <1>1, <1>2, <2>1
  <1>4. SingleAt(s) /\ SingleAt(Other(s))
    BY <1>1, <1>3, SingleEach
  <1>5. m \notin copies[Other(s)]
    BY <1>4 DEF SingleAt
  <1>6. m \in net[Other(s)] /\ net' = [net EXCEPT ![Other(s)] = net[Other(s)] \ {m}] /\ copies' = copies
    <2>1. repeats' # repeats + 1
      BY <1>3
    <2>. QED  BY <1>5, <2>1 DEF Deliver
  <1>7. net'[Other(s)] = net[Other(s)] \ {m} /\ net'[s] = net[s]
    BY <1>1, <1>6
  <1>8. m \notin Held(holes[s])
    BY <1>4, <1>6 DEF SingleAt, Held
  <1>. QED  BY <1>1, <1>2, <1>3, <1>6, <1>7, <1>8 DEF Coming

(* A message that is next in order is taken out of those on their way; its  *)
(* new_key_used is what it is.                                              *)
LEMMA NextTakes ==
  ASSUME Inv, Single, NEW s \in Sides, NEW m, ReceiveNext(s, m), repeats' = 0, fails' = 0
  PROVE  /\ Takes(s, m) /\ m \in MessageSet /\ Process(s, m, UsesNew(s, m)) /\ UsesNew(s, m) \in BOOLEAN
         /\ misjudged' = misjudged
         /\ ~UsesNew(s, m) => m.key = chat[s].key
         /\ UsesNew(s, m) => m.key # chat[s].key /\ m.key = chat[s].future
  <1>1. /\ Deliver(s, m) /\ CanRead(s, m) /\ InOrder(s, m) /\ Process(s, m, UsesNew(s, m))
        /\ UNCHANGED <<open, holes, declined>>
    BY DEF ReceiveNext
  <1>2. /\ m \in net[Other(s)] /\ m \in MessageSet /\ m \in Coming(s) /\ m \notin Held(holes[s])
        /\ net'[Other(s)] = net[Other(s)] \ {m} /\ net'[s] = net[s]
        /\ copies' = copies /\ failed' = failed /\ repeats' = repeats /\ fails' = fails /\ misjudged' = misjudged
    BY <1>1, DeliverOnce
  <1>3. Other(s) \in Sides /\ Other(s) # s /\ Other(Other(s)) = s
    BY OtherSide
  <1>4. SingleAt(s)
    BY <1>2, SingleEach
  <1>5. UsesNew(s, m) \in BOOLEAN
    BY DEF UsesNew
  <1>6. chat'[s].in = m.n /\ chat'[Other(s)] = chat[Other(s)]
    BY <1>1, <1>2, <1>3, <1>5, ProcessKeeps DEF Inv
  <1>7. Coming(s)' = Coming(s) \ {m} /\ Coming(Other(s))' = Coming(Other(s))
    BY <1>1, <1>2, <1>3 DEF Coming
  <1>8. Distinct(holes'[s]) /\ Held(holes'[s]) \cap net'[Other(s)] = {}
    BY <1>1, <1>2, <1>4 DEF SingleAt, Held
  <1>9. Takes(s, m)
    BY <1>1, <1>2, <1>6, <1>7, <1>8 DEF Takes
  <1>10. /\ ~UsesNew(s, m) => m.key = chat[s].key
         /\ UsesNew(s, m) => m.key # chat[s].key /\ m.key = chat[s].future
    BY <1>1 DEF UsesNew, CanRead
  <1>. QED  BY <1>1, <1>2, <1>5, <1>9, <1>10

(* A held message whose turn has come is taken out of the held ones; it is  *)
(* under the present key, or a message was misjudged.                       *)
LEMMA HoleTakes ==
  ASSUME Inv, Single, NEW s \in Sides, CheckHole(s), repeats' = 0, fails' = 0
  PROVE  \E m \in MessageSet, new \in BOOLEAN :
            /\ Takes(s, m) /\ Process(s, m, new)
            /\ misjudged' = (misjudged \/ (~new /\ m.key # chat[s].key))
            /\ new => m \in HeldNew(holes[s])
  <1>1. PICK i \in DOMAIN holes[s] :
          /\ FirstHole(s, i) /\ InOrder(s, holes[s][i].message)
          /\ Process(s, holes[s][i].message, holes[s][i].new)
          /\ holes' = [holes EXCEPT ![s] = RemoveAt(holes[s], i)]
          /\ misjudged' = (misjudged \/ (~holes[s][i].new /\ holes[s][i].message.key # chat[s].key))
    BY DEF CheckHole
  <1>2. UNCHANGED <<open, busy, net, copies, failed, declined, repeats, fails>>
    BY DEF CheckHole
  <1>. DEFINE m == holes[s][i].message
              new == holes[s][i].new
              k == RemoveAt(holes[s], i)
  <1>3. m \in MessageSet /\ new \in BOOLEAN /\ holes[s] \in Seq(HeldSet) /\ holes \in [Sides -> Seq(HeldSet)]
    BY HeldNumbers DEF Inv, TypeOK
  <1>4. Other(s) \in Sides /\ Other(s) # s /\ Other(Other(s)) = s
    BY OtherSide
  <1>5. SingleAt(s)
    BY <1>2, SingleEach
  <1>6. /\ Held(k) = Held(holes[s]) \ {m} /\ HeldNew(k) \subseteq HeldNew(holes[s])
        /\ HeldOld(k) \subseteq HeldOld(holes[s]) /\ Distinct(k)
    BY <1>3, <1>5, HeldTaken DEF SingleAt
  <1>7. m \in Held(holes[s]) /\ m \notin net[Other(s)] /\ Held(holes[s]) \cap net[Other(s)] = {}
    BY <1>5 DEF SingleAt, Held
  <1>8. new => m \in HeldNew(holes[s])
    BY HeldParts
  <1>. HIDE DEF m, new, k
  <1>9. holes'[s] = k /\ holes'[Other(s)] = holes[Other(s)]
    BY <1>1, <1>3, <1>4 DEF k
  <1>10. Process(s, m, new) /\ InOrder(s, m) /\ misjudged' = (misjudged \/ (~new /\ m.key # chat[s].key))
    BY <1>1 DEF m, new
  <1>11. chat'[s].in = m.n /\ chat'[Other(s)] = chat[Other(s)]
    BY <1>3, <1>4, <1>10, ProcessKeeps DEF Inv
  <1>12. Coming(s)' = Coming(s) \ {m} /\ Coming(Other(s))' = Coming(Other(s)) /\ m \in Coming(s)
    BY <1>2, <1>4, <1>6, <1>7, <1>9 DEF Coming
  <1>13. Takes(s, m)
    BY <1>2, <1>6, <1>7, <1>9, <1>10, <1>11, <1>12 DEF Takes
  <1>. QED  BY <1>3, <1>8, <1>10, <1>13

(* A message that comes too early moves to the held ones, or all of them   *)
(* are thrown away.                                                        *)
LEMMA AheadHas ==
  ASSUME Inv, Single, NEW s \in Sides, NEW m, ReceiveAhead(s, m), repeats' = 0, fails' = 0
  PROVE  /\ m \in Coming(s) /\ m \in MessageSet /\ chat[s].in + 1 < m.n
         /\ holes'[Other(s)] = holes[Other(s)] /\ open'[Other(s)] = open[Other(s)]
         /\ Coming(Other(s))' = Coming(Other(s))
         /\ Distinct(holes'[s]) /\ Held(holes'[s]) \cap net'[Other(s)] = {}
         /\ \/ /\ Coming(s)' = Coming(s) /\ open'[s] = open[s]
               /\ HeldNew(holes'[s]) = IF m.key # chat[s].key THEN HeldNew(holes[s]) \cup {m} ELSE HeldNew(holes[s])
               /\ HeldOld(holes'[s]) = IF m.key = chat[s].key THEN HeldOld(holes[s]) \cup {m} ELSE HeldOld(holes[s])
            \/ /\ Coming(s)' \subseteq Coming(s) /\ open'[s] = "closing"
               /\ HeldNew(holes'[s]) = {} /\ HeldOld(holes'[s]) = {}
         /\ copies' = copies /\ failed' = failed /\ repeats' = repeats /\ fails' = fails /\ misjudged' = misjudged
         /\ net'[s] = net[s] /\ chat' = chat /\ posted' = posted
         /\ UNCHANGED <<busy, exchanges, keys, overlapped>>
  <1>1. /\ m \in net[Other(s)] /\ m \in MessageSet /\ m \in Coming(s) /\ m \notin Held(holes[s])
        /\ net'[Other(s)] = net[Other(s)] \ {m} /\ net'[s] = net[s]
        /\ copies' = copies /\ failed' = failed /\ repeats' = repeats /\ fails' = fails /\ misjudged' = misjudged
    BY DeliverOnce DEF ReceiveAhead
  <1>2. chat[s].in + 1 < m.n /\ UNCHANGED <<chat, busy, posted, exchanges, keys, overlapped>>
    BY DEF ReceiveAhead
  <1>3. /\ Other(s) \in Sides /\ Other(s) # s /\ Other(Other(s)) = s
        /\ holes \in [Sides -> Seq(HeldSet)] /\ open \in [Sides -> {"open", "closing", "closed"}]
    BY OtherSide DEF Inv, TypeOK
  <1>4. SingleAt(s)
    BY <1>1, SingleEach
  <1>. DEFINE h == [message |-> m, new |-> UsesNew(s, m)]
              l == holes[s]
  <1>5. h \in HeldSet /\ h.message = m /\ (h.new <=> m.key # chat[s].key) /\ l \in Seq(HeldSet)
    BY <1>1, <1>3 DEF HeldSet, UsesNew
  <1>6. Distinct(l) /\ Held(l) \cap net[Other(s)] = {} /\ \A i \in DOMAIN l : l[i].message # m
    BY <1>1, <1>4 DEF SingleAt, Held
  <1>7. Coming(Other(s))' = Coming(Other(s)) /\ holes'[Other(s)] = holes[Other(s)] /\ open'[Other(s)] = open[Other(s)]
    <2>1. holes'[Other(s)] = holes[Other(s)] /\ open'[Other(s)] = open[Other(s)]
      BY <1>3 DEF ReceiveAhead
    <2>. QED  BY <1>1, <1>3, <2>1 DEF Coming
  <1>8. CASE Len(holes[s]) < HolesLimit
    <2>. DEFINE k == Append(l, h)
    <2>1. holes'[s] = k /\ open'[s] = open[s]
      BY <1>3, <1>8 DEF ReceiveAhead
    <2>. HIDE DEF h, l
    <2>2. /\ Held(k) = Held(l) \cup {m}
          /\ HeldNew(k) = IF m.key # chat[s].key THEN HeldNew(l) \cup {m} ELSE HeldNew(l)
          /\ HeldOld(k) = IF m.key = chat[s].key THEN HeldOld(l) \cup {m} ELSE HeldOld(l)
      BY <1>5, HeldAppended
    <2>3. Distinct(k)
      <3>1. /\ \A i \in DOMAIN k : \/ i \in DOMAIN l /\ k[i] = l[i] /\ i <= Len(l)
                                   \/ i = Len(l) + 1 /\ k[i] = h
        BY <1>5, Appended
      <3>. HIDE DEF k
      <3>. QED  BY <1>5, <1>6, <3>1 DEF Distinct
    <2>. HIDE DEF k
    <2>4. Coming(s)' = Coming(s)
      BY <1>1, <2>1, <2>2 DEF Coming, l
    <2>5. Held(k) \cap net'[Other(s)] = {}
      BY <1>1, <1>6, <2>2
    <2>. QED  BY <1>1, <1>2, <1>7, <2>1, <2>2, <2>3, <2>4, <2>5 DEF l
  <1>9. CASE ~(Len(holes[s]) < HolesLimit)
    <2>1. holes'[s] = <<>> /\ open'[s] = "closing"
      BY <1>3, <1>9 DEF ReceiveAhead
    <2>2. Held(<<>>) = {} /\ HeldNew(<<>>) = {} /\ HeldOld(<<>>) = {} /\ Distinct(<<>>)
      BY DEF Held, HeldNew, HeldOld, Distinct
    <2>3. Coming(s)' \subseteq Coming(s)
      BY <1>1, <2>1, <2>2 DEF Coming
    <2>. QED  BY <1>1, <1>2, <1>7, <2>1, <2>2, <2>3
  <1>. QED  BY <1>8, <1>9

(* Single, when the messages that are to come only get fewer.              *)
LEMMA FewerSingle ==
  ASSUME Single, repeats' = repeats, fails' = fails, copies' = copies, failed' = failed,
         \A t \in Sides : /\ Coming(t)' \subseteq Coming(t) /\ Distinct(holes'[t])
                          /\ Held(holes'[t]) \cap net'[Other(t)] = {} /\ chat'[t].in = chat[t].in
  PROVE  Single'
  <1>. SUFFICES ASSUME repeats = 0, fails = 0, NEW t \in Sides PROVE SingleAt(t)'
    <2>1. Single' <=> (repeats' = 0 /\ fails' = 0 => \A t \in Sides : SingleAt(t)')
      BY DEF Single, SingleAt, Distinct
    <2>. QED  BY <2>1
  <1>1. SingleAt(t)
    BY SingleEach
  <1>2. \A i \in DOMAIN holes'[t] : holes'[t][i].message \notin net'[Other(t)]
    BY DEF Held
  <1>. QED  BY <1>1, <1>2 DEF SingleAt

(* A new message has a number of its own.                                   *)
LEMMA SendSingle ==
  ASSUME Inv, Counted, Single, NEW s \in Sides, NEW action, NEW rest, SendsNext(s, action, rest)
  PROVE  Single'
  <1>. DEFINE m == NewMessage(s, action)
              c == OneMoreOut(s)
              t == Other(s)
  <1>1. /\ m.n = chat[s].out /\ c.in = chat[s].in
        /\ net'[s] = net[s] \cup {m} /\ net'[t] = net[t]
        /\ chat'[t] = chat[t] /\ chat'[s].in = chat[s].in
        /\ copies' = copies /\ failed' = failed /\ holes' = holes /\ repeats' = repeats /\ fails' = fails
    <2>1. SendHas(s, action, rest, m, c) /\ t \in Sides /\ t # s
      BY SendEffects, OtherSide
    <2>. HIDE DEF m, c, t
    <2>2. c \in ChatSet /\ \A e : Requested(c, e).in = c.in
      BY <2>1 DEF SendHas, Requested, ChatSet
    <2>. QED  BY <2>1, <2>2 DEF SendHas
  <1>. HIDE DEF m, c
  <1>2. t \in Sides /\ t # s /\ Other(t) = s
    BY OtherSide
  <1>. SUFFICES ASSUME repeats = 0, fails = 0 PROVE SingleAt(s)' /\ SingleAt(t)'
    <2>1. Single' <=> (repeats' = 0 /\ fails' = 0 => \A x \in Sides : SingleAt(x)')
      BY DEF Single, SingleAt, Distinct
    <2>2. \A x \in Sides : x = s \/ x = t
      BY OtherSide
    <2>. HIDE DEF t
    <2>. QED  BY <1>1, <2>1, <2>2
  <1>3. SingleAt(s) /\ SingleAt(t)
    BY <1>2, SingleEach
  <1>4. Coming(s)' = Coming(s) /\ Coming(t)' = Coming(t) \cup {m}
    BY <1>1, <1>2 DEF Coming
  <1>5. SingleAt(s)'
    BY <1>1, <1>3, <1>4 DEF SingleAt
  <1>6. \A x \in Coming(t) : x.n < m.n /\ x.n \in Nat /\ m.n \in Nat /\ chat[t].in \in Nat
    BY <1>1, <1>2, ProperAt, HeldNumbers DEF MessageSet, Inv
  <1>7. Started <= m.n /\ (chat[t].in < m.n \/ m.n = 0)
    <2>1. Started <= m.n /\ (chat[t].in = 0 \/ chat[t].in < m.n)
      BY <1>1, <1>2 DEF Counted
    <2>2. m.n \in Nat
      BY <1>1, HeldNumbers DEF Inv
    <2>. QED  BY <2>1, <2>2
  <1>8. SingleAt(t)'
    <2>1. \A i \in DOMAIN holes[t] : holes[t][i].message \in Coming(t)
      BY DEF Coming, Held
    <2>2. \A i \in DOMAIN holes[t] : holes[t][i].message \notin net'[Other(t)]
      BY <1>1, <1>2, <1>3, <1>6, <2>1 DEF SingleAt
    <2>3. \A y, x \in Coming(t) \cup {m} : y.n = x.n => y = x
      BY <1>3, <1>6 DEF SingleAt
    <2>. HIDE DEF t
    <2>. QED  BY <1>1, <1>2, <1>3, <1>4, <1>7, <2>2, <2>3 DEF SingleAt
  <1>. QED  BY <1>5, <1>8

(* Every step leaves every message in one place.                            *)
LEMMA SingleStays ==
  ASSUME Inv, Inv', Counted, Single, [Next]_vars
  PROVE  Single'
  <1>. SUFFICES ASSUME repeats' = 0, fails' = 0 PROVE Single'
    BY DEF Single
  <1>1. repeats \in Nat /\ fails \in Nat
    BY DEF Inv, TypeOK
  <1>2. ASSUME repeats = 0, fails = 0, net' = net, holes' = holes, copies' = copies, failed' = failed,
               \A t \in Sides : chat'[t].in = chat[t].in
        PROVE  Single'
    <2>1. \A t \in Sides : SingleAt(t)
      BY <1>2, SingleEach
    <2>2. \A t \in Sides : /\ Coming(t)' = Coming(t) /\ Distinct(holes'[t])
                           /\ Held(holes'[t]) \cap net'[Other(t)] = {}
      BY <1>2, <2>1 DEF Coming, SingleAt, Held
    <2>. QED  BY <1>2, <2>2, FewerSingle
  <1>3. CASE UNCHANGED vars
    BY <1>2, <1>3 DEF vars
  <1>4. ASSUME NEW s \in Sides, SendText(s) \/ SendPosted(s) PROVE Single'
    BY <1>4, SendsSomething, SendSingle
  <1>5. ASSUME NEW s \in Sides, SendFails(s) PROVE Single'
    BY <1>1, <1>5 DEF SendFails
  <1>6. ASSUME NEW s \in Sides, SendAgain(s) PROVE Single'
    <2>1. failed[s] # {} /\ repeats = 0 /\ fails = 0
      BY <1>6 DEF SendAgain
    <2>. QED  BY <2>1, SingleEach DEF SingleAt
  <1>7. ASSUME NEW s \in Sides, KeyGrowsOld(s) PROVE Single'
    <2>1. /\ chat' = [chat EXCEPT ![s] = [chat[s] EXCEPT !.due = TRUE]] /\ chat \in [Sides -> ChatSet]
          /\ UNCHANGED <<open, holes, busy, posted, net, copies, failed, declined, exchanges, keys,
                         repeats, fails, overlapped, misjudged>>
      BY <1>7 DEF KeyGrowsOld, Inv, TypeOK
    <2>2. [chat[s] EXCEPT !.due = TRUE].in = chat[s].in
      BY <2>1 DEF ChatSet
    <2>3. \A t \in Sides : chat'[t].in = chat[t].in
      BY <2>1, <2>2
    <2>. QED  BY <1>2, <2>1, <2>3
  <1>8. ASSUME NEW s \in Sides, NEW m, ReceiveNext(s, m) PROVE Single'
    BY <1>8, NextTakes, TakesSingle
  <1>9. ASSUME NEW s \in Sides, NEW m, ReceiveAhead(s, m) PROVE Single'
    <2>1. /\ Coming(s)' \subseteq Coming(s) /\ Coming(Other(s))' = Coming(Other(s))
          /\ Distinct(holes'[s]) /\ Held(holes'[s]) \cap net'[Other(s)] = {} /\ holes'[Other(s)] = holes[Other(s)]
          /\ copies' = copies /\ failed' = failed /\ repeats' = repeats /\ fails' = fails /\ chat' = chat /\ net'[s] = net[s]
      BY <1>9, AheadHas
    <2>2. SingleAt(Other(s)) /\ Other(s) \in Sides /\ Other(Other(s)) = s /\ \A t \in Sides : t = s \/ t = Other(s)
      BY <2>1, SingleEach, OtherSide
    <2>3. Distinct(holes'[Other(s)]) /\ Held(holes'[Other(s)]) \cap net'[s] = {}
      BY <2>1, <2>2 DEF SingleAt, Held
    <2>4. \A t \in Sides : /\ Coming(t)' \subseteq Coming(t) /\ Distinct(holes'[t])
                           /\ Held(holes'[t]) \cap net'[Other(t)] = {} /\ chat'[t].in = chat[t].in
      BY <2>1, <2>2, <2>3
    <2>. QED  BY <2>1, <2>4, FewerSingle
  <1>10. ASSUME NEW s \in Sides, NEW m, ReceiveNothing(s, m) PROVE Single'
    <2>1. /\ net'[Other(s)] = net[Other(s)] \ {m} /\ net'[s] = net[s]
          /\ copies' = copies /\ failed' = failed /\ repeats' = repeats /\ fails' = fails
          /\ holes' = holes /\ chat' = chat
      BY <1>10, DeliverOnce DEF ReceiveNothing
    <2>2. \A t \in Sides : SingleAt(t) /\ (t = s \/ t = Other(s))
      BY <2>1, SingleEach, OtherSide
    <2>3. \A t \in Sides : net'[t] \subseteq net[t]
      BY <2>1, <2>2
    <2>4. \A t \in Sides : /\ Coming(t)' \subseteq Coming(t) /\ Distinct(holes'[t])
                           /\ Held(holes'[t]) \cap net'[Other(t)] = {} /\ chat'[t].in = chat[t].in
      BY <2>1, <2>2, <2>3, OtherSide DEF SingleAt, Held, Coming
    <2>. QED  BY <2>1, <2>4, FewerSingle
  <1>11. ASSUME NEW s \in Sides, CheckHole(s) PROVE Single'
    BY <1>11, HoleTakes, TakesSingle
  <1>12. ASSUME NEW s \in Sides, CheckEnds(s) \/ Discard(s) PROVE Single'
    BY <1>2, <1>12 DEF CheckEnds, Discard
  <1>. QED
    BY <1>3, <1>4, <1>5, <1>6, <1>7, <1>8, <1>9, <1>10, <1>11, <1>12 DEF Next, Receive

-----------------------------------------------------------------------------
(* What was made stays made.                                               *)

(* No key and no exchange is made, and no message is new.                   *)
LEMMA KnowsFewer ==
  ASSUME Inv, KeysKnown, exchanges' = exchanges, keys' = keys, posted' = posted,
         \A t \in Sides : /\ chat'[t].key = chat[t].key /\ chat'[t].future = chat[t].future
                          /\ chat'[t].exchange = chat[t].exchange
                          /\ \A x \in net'[t] \cup copies'[t] \cup failed'[t] :
                               \E y \in net[t] \cup copies[t] \cup failed[t] : x.action = y.action
                          /\ \A i \in DOMAIN holes'[t] :
                               \/ \E j \in DOMAIN holes[t] : holes'[t][i] = holes[t][j]
                               \/ holes'[t][i].message \in net[Other(t)] \cup copies[Other(t)]
  PROVE  KeysKnown'
  <1>1. ASSUME NEW t \in Sides
        PROVE  /\ ChatMade(exchanges, keys, chat'[t]) /\ AllMade(exchanges, keys, posted[t])
               /\ \A x \in net'[t] \cup copies'[t] \cup failed'[t] : Made(exchanges, keys, x.action)
               /\ \A i \in DOMAIN holes'[t] : Made(exchanges, keys, holes'[t][i].message.action)
    <2>1. Other(t) \in Sides
      BY OtherSide
    <2>2. ChatMade(exchanges, keys, chat'[t])
      BY DEF KeysKnown, KnownIn, ChatMade, Made
    <2>3. \A x \in net'[t] \cup copies'[t] \cup failed'[t] : Made(exchanges, keys, x.action)
      BY DEF KeysKnown, KnownIn
    <2>4. \A i \in DOMAIN holes'[t] : Made(exchanges, keys, holes'[t][i].message.action)
      BY <2>1 DEF KeysKnown, KnownIn
    <2>. QED  BY <2>2, <2>3, <2>4 DEF KeysKnown, KnownIn
  <1>. QED  BY <1>1 DEF KeysKnown, KnownIn

(* In every state the keys and the exchanges are among those that were      *)
(* made.                                                                    *)
LEMMA KeysStayKnown ==
  ASSUME Inv, KeysKnown, [Next]_vars
  PROVE  KeysKnown'
  <1>1. CASE UNCHANGED vars
    <2>1. /\ UNCHANGED <<chat, holes, posted, net, copies, failed, exchanges, keys>>
      BY <1>1 DEF vars
    <2>. QED  BY <2>1 DEF KeysKnown, KnownIn
  <1>2. ASSUME NEW s \in Sides, SendText(s) \/ SendPosted(s) PROVE KeysKnown'
    BY <1>2, SendsSomething, SendKnows
  <1>3. ASSUME NEW s \in Sides, SendFails(s) PROVE KeysKnown'
    <2>1. PICK m \in net[s] : /\ net' = [net EXCEPT ![s] = net[s] \ {m}]
                              /\ failed' = [failed EXCEPT ![s] = failed[s] \cup {t \in {m} : t.action = Text}]
      BY <1>3 DEF SendFails
    <2>2. UNCHANGED <<chat, holes, posted, copies, exchanges, keys>>
      BY <1>3 DEF SendFails
    <2>3. \A t \in Sides : net'[t] \cup copies'[t] \cup failed'[t] \subseteq net[t] \cup copies[t] \cup failed[t]
      BY <2>1, <2>2 DEF Inv, TypeOK
    <2>. QED  BY <2>2, <2>3, KnowsFewer
  <1>4. ASSUME NEW s \in Sides, SendAgain(s) PROVE KeysKnown'
    <2>1. PICK m \in failed[s] : /\ net' = [net EXCEPT ![s] = net[s] \cup {[m EXCEPT !.key = chat[s].key]}]
                                 /\ failed' = [failed EXCEPT ![s] = failed[s] \ {m}]
      BY <1>4 DEF SendAgain
    <2>2. UNCHANGED <<chat, holes, posted, copies, exchanges, keys>>
      BY <1>4 DEF SendAgain
    <2>. DEFINE x == [m EXCEPT !.key = chat[s].key]
    <2>3. x.action = m.action
      BY DEF Inv, TypeOK, MessageSet
    <2>. HIDE DEF x
    <2>4. \A t \in Sides : \A y \in net'[t] \cup copies'[t] \cup failed'[t] :
            y \in net[t] \cup copies[t] \cup failed[t] \/ (t = s /\ y = x)
      BY <2>1, <2>2 DEF Inv, TypeOK, x
    <2>5. \A t \in Sides : \A y \in net'[t] \cup copies'[t] \cup failed'[t] :
            \E z \in net[t] \cup copies[t] \cup failed[t] : y.action = z.action
      BY <2>1, <2>3, <2>4
    <2>. QED  BY <2>2, <2>5, KnowsFewer
  <1>5. ASSUME NEW s \in Sides, KeyGrowsOld(s) PROVE KeysKnown'
    <2>1. /\ chat' = [chat EXCEPT ![s] = [chat[s] EXCEPT !.due = TRUE]] /\ chat \in [Sides -> ChatSet]
          /\ UNCHANGED <<holes, posted, net, copies, failed, exchanges, keys>>
      BY <1>5 DEF KeyGrowsOld, Inv, TypeOK
    <2>2. LET d == [chat[s] EXCEPT !.due = TRUE]
          IN  d.key = chat[s].key /\ d.future = chat[s].future /\ d.exchange = chat[s].exchange
      BY <2>1 DEF ChatSet
    <2>3. \A t \in Sides : /\ chat'[t].key = chat[t].key /\ chat'[t].future = chat[t].future
                           /\ chat'[t].exchange = chat[t].exchange
      BY <2>1, <2>2
    <2>. QED  BY <2>1, <2>3, KnowsFewer
  <1>6. ASSUME NEW s \in Sides, NEW m, Deliver(s, m)
        PROVE  /\ m \in MessageSet /\ m \in net[Other(s)] \cup copies[Other(s)]
               /\ \A t \in Sides : net'[t] \cup copies'[t] \cup failed'[t] \subseteq net[t] \cup copies[t] \cup failed[t]
               /\ Made(exchanges, keys, m.action)
    <2>1. /\ m \in MessageSet /\ m \in net[Other(s)] \cup copies[Other(s)]
      BY <1>6, DeliverFacts DEF Deliver
    <2>2. \A t \in Sides : net'[t] \cup copies'[t] \cup failed'[t] \subseteq net[t] \cup copies[t] \cup failed[t]
      BY <1>6, DeliverFacts
    <2>3. Made(exchanges, keys, m.action)
      BY <2>1, OtherSide DEF KeysKnown, KnownIn
    <2>. QED  BY <2>1, <2>2, <2>3
  <1>7. ASSUME NEW s \in Sides, NEW m, ReceiveNext(s, m) PROVE KeysKnown'
    <2>1. Deliver(s, m) /\ Process(s, m, UsesNew(s, m)) /\ holes' = holes /\ UsesNew(s, m) \in BOOLEAN
      BY <1>7 DEF ReceiveNext, UsesNew
    <2>. QED  BY <1>6, <2>1, ProcessKnows
  <1>8. ASSUME NEW s \in Sides, NEW m, ReceiveAhead(s, m) PROVE KeysKnown'
    <2>1. Deliver(s, m) /\ UNCHANGED <<chat, posted, exchanges, keys>>
      BY <1>8 DEF ReceiveAhead
    <2>2. holes[s] \in Seq(HeldSet) /\ holes \in [Sides -> Seq(HeldSet)]
      BY DEF Inv, TypeOK
    <2>. DEFINE h == [message |-> m, new |-> UsesNew(s, m)]
    <2>3. \A i \in DOMAIN holes'[s] : \/ \E j \in DOMAIN holes[s] : holes'[s][i] = holes[s][j]
                                      \/ holes'[s][i].message \in net[Other(s)] \cup copies[Other(s)]
      <3>1. CASE Len(holes[s]) < HolesLimit
        <4>1. holes'[s] = Append(holes[s], h)
          BY <1>8, <2>2, <3>1 DEF ReceiveAhead
        <4>2. h \in HeldSet /\ h.message = m
          BY <1>6, <2>1 DEF HeldSet, UsesNew
        <4>. HIDE DEF h
        <4>. DEFINE l == holes[s]
                    k == Append(l, h)
        <4>3. \A i \in DOMAIN k : \/ i \in DOMAIN l /\ k[i] = l[i] /\ i <= Len(l)
                                  \/ i = Len(l) + 1 /\ k[i] = h
          BY <2>2, <4>2, Appended
        <4>. HIDE DEF k
        <4>4. holes'[s] = k
          BY <4>1 DEF k
        <4>. QED  BY <1>6, <2>1, <4>2, <4>3, <4>4
      <3>2. CASE ~(Len(holes[s]) < HolesLimit)
        BY <1>8, <2>2, <3>2 DEF ReceiveAhead
      <3>. QED  BY <3>1, <3>2
    <2>4. \A t \in Sides : t # s => holes'[t] = holes[t]
      BY <1>8, <2>2 DEF ReceiveAhead
    <2>5. \A t \in Sides : \A i \in DOMAIN holes'[t] :
            \/ \E j \in DOMAIN holes[t] : holes'[t][i] = holes[t][j]
            \/ holes'[t][i].message \in net[Other(t)] \cup copies[Other(t)]
      BY <2>3, <2>4
    <2>6. \A t \in Sides : net'[t] \cup copies'[t] \cup failed'[t] \subseteq net[t] \cup copies[t] \cup failed[t]
      BY <1>6, <2>1
    <2>. QED  BY <2>1, <2>5, <2>6, KnowsFewer
  <1>9. ASSUME NEW s \in Sides, NEW m, ReceiveNothing(s, m) PROVE KeysKnown'
    <2>1. Deliver(s, m) /\ UNCHANGED <<chat, holes, posted, exchanges, keys>>
      BY <1>9 DEF ReceiveNothing
    <2>2. \A t \in Sides : net'[t] \cup copies'[t] \cup failed'[t] \subseteq net[t] \cup copies[t] \cup failed[t]
      BY <1>6, <2>1
    <2>. QED  BY <2>1, <2>2, KnowsFewer
  <1>10. ASSUME NEW s \in Sides, CheckHole(s) PROVE KeysKnown'
    <2>1. PICK i \in DOMAIN holes[s] :
            /\ Process(s, holes[s][i].message, holes[s][i].new)
            /\ holes' = [holes EXCEPT ![s] = RemoveAt(holes[s], i)]
      BY <1>10 DEF CheckHole
    <2>2. UNCHANGED <<net, copies, failed>>
      BY <1>10 DEF CheckHole
    <2>3. holes[s] \in Seq(HeldSet) /\ holes \in [Sides -> Seq(HeldSet)]
      BY DEF Inv, TypeOK
    <2>4. \A j \in DOMAIN RemoveAt(holes[s], i) : \E k \in DOMAIN holes[s] : RemoveAt(holes[s], i)[j] = holes[s][k]
      BY <2>3, TakeOut
    <2>5. \A t \in Sides : \A j \in DOMAIN holes'[t] : \E k \in DOMAIN holes[t] : holes'[t][j] = holes[t][k]
      BY <2>1, <2>3, <2>4
    <2>6. /\ holes[s][i].message \in MessageSet /\ holes[s][i].new \in BOOLEAN
          /\ Made(exchanges, keys, holes[s][i].message.action)
      BY HeldNumbers DEF Inv, KeysKnown, KnownIn
    <2>. QED  BY <2>1, <2>2, <2>5, <2>6, ProcessKnows
  <1>11. ASSUME NEW s \in Sides, CheckEnds(s) \/ Discard(s) PROVE KeysKnown'
    <2>1. /\ UNCHANGED <<chat, holes, posted, net, copies, failed, exchanges, keys>>
      BY <1>11 DEF CheckEnds, Discard
    <2>. QED  BY <2>1 DEF KeysKnown, KnownIn
  <1>. QED
    BY <1>1, <1>2, <1>3, <1>4, <1>5, <1>7, <1>8, <1>9, <1>10, <1>11 DEF Next, Receive

-----------------------------------------------------------------------------
(* The stages, as the steps change them.                                   *)

(* What is said of one side and the other is said of both.                 *)
LEMMA LinkTurned ==
  ASSUME NEW s \in Sides
  PROVE  /\ LinkedAt(s) => \A t \in Sides : LinkedAt(t)
         /\ LinkedAt(s)' => \A t \in Sides : LinkedAt(t)'
  <1>1. Other(Other(s)) = s /\ \A t \in Sides : t = s \/ t = Other(s)
    BY OtherSide
  <1>2. LinkedAt(s) => LinkedAt(Other(s))
    BY <1>1 DEF LinkedAt, Link
  <1>3. LinkedAt(s)' => LinkedAt(Other(s))'
    BY <1>1 DEF LinkedAt, Link
  <1>. QED  BY <1>1, <1>2, <1>3

(* A side can read the messages of every stage.                            *)
LEMMA LinkReads ==
  ASSUME NEW c, NEW d, NEW I, NEW J, NEW q, NEW p, NEW N, NEW M, NEW O, NEW P, NEW w, NEW v,
         Link(c, d, I, J, q, p, N, M, O, P, w, v), NEW m \in I
  PROVE  m.key = c.key \/ (c.future # 0 /\ m.key = c.future)
  <1>1. c.key # 0 /\ d.key # 0
    BY DEF Link
  <1>2. CASE Between(c, d, I, J, q, p, N, M, O, w, v)
    BY <1>1, <1>2 DEF Between, Idle, Asked, BothAsked, Accepted, Committed, Switching, Under, FirstThen
  <1>3. CASE Between(d, c, J, I, p, q, M, N, P, v, w)
    BY <1>1, <1>3 DEF Between, Idle, Asked, BothAsked, Accepted, Committed, Switching, Under, FirstThen
  <1>. QED  BY <1>2, <1>3 DEF Link

(* So a side can read what it awaits.                                       *)
LEMMA AwaitedRead ==
  ASSUME NEW s \in Sides, LinkedAt(s), NEW m \in Awaited(s)
  PROVE  CanRead(s, m)
  <1>. DEFINE t == Other(s)
              I == Awaited(s)
  <1>1. Link(chat[s], chat[t], I, Awaited(t), posted[s], posted[t], HeldNew(holes[s]),
             HeldNew(holes[t]), HeldOld(holes[s]), HeldOld(holes[t]), Whole(s), Whole(t))
    BY DEF LinkedAt
  <1>2. m \in I
    OBVIOUS
  <1>. HIDE DEF I, t
  <1>. QED  BY <1>1, <1>2, LinkReads DEF CanRead

(* A side loses messages, or nothing that matters changes.                 *)
LEMMA LosesAt ==
  ASSUME Inv, NEW s \in Sides, LinkedAt(s), Alike(chat[s], chat'[s]), chat'[Other(s)] = chat[Other(s)],
         posted' = posted, holes'[Other(s)] = holes[Other(s)], open'[Other(s)] = open[Other(s)],
         Awaited(Other(s))' = Awaited(Other(s)), Awaited(s)' \subseteq Awaited(s),
         HeldNew(holes'[s]) \subseteq HeldNew(holes[s]), HeldOld(holes'[s]) \subseteq HeldOld(holes[s]),
         Whole(s)' => Whole(s) /\ Awaited(s)' = Awaited(s)
  PROVE  LinkedAt(s)'
  <1>. DEFINE t == Other(s)
              c == chat[s]
              d == chat[t]
              e == chat'[s]
              I == Awaited(s)
              K == Awaited(s)'
              J == Awaited(t)
              N == HeldNew(holes[s])
              M == HeldNew(holes[t])
              O == HeldOld(holes[s])
              P == HeldOld(holes[t])
              L == HeldNew(holes'[s])
              Q == HeldOld(holes'[s])
              w == Whole(s)
              v == Whole(t)
              u == Whole(s)'
              q == posted[s]
              p == posted[t]
  <1>1. Proper(c, I, q, N, O) /\ Proper(d, J, p, M, P)
    BY ProperAt, OtherSide
  <1>2. Link(c, d, I, J, q, p, N, M, O, P, w, v)
    BY DEF LinkedAt
  <1>3. Alike(c, e) /\ (u => w /\ K = I) /\ K \in SUBSET I /\ L \in SUBSET N /\ Q \in SUBSET O
    OBVIOUS
  <1>4. Whole(t)' = v
    BY DEF Whole
  <1>5. Link(e, d, K, J, q, p, L, M, Q, P, u, v) => LinkedAt(s)'
    BY <1>4 DEF LinkedAt
  <1>. HIDE DEF c, d, e, I, K, J, N, M, O, P, L, Q, w, v, u, q, p, t
  <1>6. Link(e, d, K, J, q, p, L, M, Q, P, u, v)
    BY <1>1, <1>2, <1>3, LinkLoses
  <1>. QED  BY <1>5, <1>6

(* A message is held back.                                                 *)
LEMMA HoldsAt ==
  ASSUME Inv, NEW s \in Sides, LinkedAt(s), chat' = chat, NEW m \in Awaited(s),
         posted' = posted, holes'[Other(s)] = holes[Other(s)], open' = open,
         Awaited(Other(s))' = Awaited(Other(s)), Awaited(s)' = Awaited(s),
         HeldNew(holes'[s]) = IF m.key # chat[s].key THEN HeldNew(holes[s]) \cup {m} ELSE HeldNew(holes[s]),
         HeldOld(holes'[s]) = IF m.key = chat[s].key THEN HeldOld(holes[s]) \cup {m} ELSE HeldOld(holes[s])
  PROVE  LinkedAt(s)'
  <1>. DEFINE t == Other(s)
              c == chat[s]
              d == chat[t]
              I == Awaited(s)
              J == Awaited(t)
              N == HeldNew(holes[s])
              M == HeldNew(holes[t])
              O == HeldOld(holes[s])
              P == HeldOld(holes[t])
              L == HeldNew(holes'[s])
              Q == HeldOld(holes'[s])
              w == Whole(s)
              v == Whole(t)
              q == posted[s]
              p == posted[t]
  <1>1. Proper(c, I, q, N, O) /\ Proper(d, J, p, M, P)
    BY ProperAt, OtherSide
  <1>2. Link(c, d, I, J, q, p, N, M, O, P, w, v)
    BY DEF LinkedAt
  <1>3. /\ m \in I
        /\ L \subseteq IF m.key # c.key THEN N \cup {m} ELSE N
        /\ Q \subseteq IF m.key = c.key THEN O \cup {m} ELSE O
    OBVIOUS
  <1>4. Whole(t)' = v /\ Whole(s)' = w
    BY DEF Whole
  <1>5. Link(c, d, I, J, q, p, L, M, Q, P, w, v) => LinkedAt(s)'
    BY <1>4 DEF LinkedAt
  <1>. HIDE DEF c, d, I, J, N, M, O, P, L, Q, w, v, q, p, t
  <1>6. Link(c, d, I, J, q, p, L, M, Q, P, w, v)
    BY <1>1, <1>2, <1>3, LinkHolds
  <1>. QED  BY <1>5, <1>6

(* A message is sent, and an exchange may begin.                           *)
LEMMA SendsAt ==
  ASSUME Inv, Counted, KeysKnown, NEW s \in Sides, LinkedAt(s), NEW action, NEW rest,
         SendsNext(s, action, rest), ~overlapped'
  PROVE  LinkedAt(s)'
  <1>. DEFINE m == NewMessage(s, action)
              o == OneMoreOut(s)
              t == Other(s)
              c == chat[s]
              d == chat[t]
              e == chat'[s]
              I == Awaited(s)
              J == Awaited(t)
              N == HeldNew(holes[s])
              M == HeldNew(holes[t])
              O == HeldOld(holes[s])
              P == HeldOld(holes[t])
              w == Whole(s)
              v == Whole(t)
              q == posted[s]
              p == posted[t]
  <1>1. SendHas(s, action, rest, m, o) /\ t \in Sides /\ t # s /\ Other(t) = s
    BY SendEffects, OtherSide
  <1>2. Proper(c, I, q, N, O) /\ Proper(d, J, p, M, P)
    BY ProperAt, OtherSide
  <1>3. Link(c, d, I, J, q, p, N, M, O, P, w, v)
    BY DEF LinkedAt
  <1>4. Sent(q, m, rest)
    <2>1. m.action = action
      BY DEF NewMessage, Message
    <2>. HIDE DEF m, q
    <2>2. ~Control(Text)
      BY Kinds
    <2>. QED  BY <2>1, <2>2 DEF Sent, SendsNext, q
  <1>5. /\ \A x \in J \cup M : x.n < m.n
        /\ m.n >= chat[t].in
    <2>1. m.n = chat[s].out
      BY DEF NewMessage, Message
    <2>2. J \cup M \subseteq Coming(t)
      BY ProperAt, OtherSide DEF Awaited
    <2>3. \A x \in Coming(t) : x.n < chat[Other(t)].out
      BY <1>1, ProperAt
    <2>4. chat[t].in = 0 \/ chat[t].in < chat[s].out
      BY <1>1 DEF Counted
    <2>5. chat[t].in \in Nat /\ chat[s].out \in Nat
      BY <1>1, HeldNumbers DEF Inv
    <2>. HIDE DEF m, t, J, M
    <2>. QED  BY <1>1, <2>1, <2>2, <2>3, <2>4, <2>5
  <1>. HIDE DEF m, o
  <1>6. /\ m \in MessageSet /\ m.key = c.key /\ Alike(c, o) /\ o \in ChatSet /\ rest \in Seq(ActionSet)
        /\ o.in = chat[s].in
        /\ net'[s] = net[s] \cup {m} /\ net'[t] = net[t] /\ chat'[t] = chat[t] /\ posted'[t] = posted[t]
        /\ holes' = holes /\ open' = open
        /\ \/ chat'[s] = o /\ posted'[s] = rest
           \/ /\ o.exchange = 0 /\ ~Unsettled(s)
              /\ \E id \in ExchangeIds \ exchanges :
                   chat'[s] = Requested(o, id) /\ posted'[s] = Append(rest, RequestKey(id))
    <2>. HIDE DEF t
    <2>. QED  BY <1>1 DEF SendHas, c
  <1>7. chat'[s].in = chat[s].in
    BY <1>6 DEF Requested, ChatSet
  <1>8. Awaited(s)' = I /\ Awaited(t)' = J \cup {m} /\ Whole(s)' = w /\ Whole(t)' = v
    <2>1. Coming(s)' = Coming(s) /\ Coming(t)' = Coming(t) \cup {m}
      BY <1>1, <1>6 DEF Coming
    <2>2. \A x : x \in Awaited(t)' <=> x \in J \/ x = m
      BY <1>5, <1>6, <2>1 DEF Awaited
    <2>. QED  BY <1>6, <1>7, <2>1, <2>2 DEF Awaited, Whole
  <1>9. Link(e, d, I, J \cup {m}, posted'[s], p, N, M, O, P, w, v) => LinkedAt(s)'
    BY <1>6, <1>8 DEF LinkedAt
  <1>10. /\ (c.future = 0 /\ N = {}) \/ Unsettled(s)
         /\ d.exchange \in {0} \cup exchanges
    <2>1. d.exchange \in {0} \cup exchanges
      BY <1>1 DEF KeysKnown, KnownIn, ChatMade, Made
    <2>2. (c.future = 0 /\ N = {}) \/ Unsettled(s)
      BY DEF Unsettled, HeldNew
    <2>. QED  BY <2>1, <2>2
  <1>11. Proper(o, I, rest, N, O) /\ Proper(d, J \cup {m}, p, M, P)
    <2>1. o.key \in Nat /\ o.future \in Nat /\ o.exchange \in {0} \cup ExchangeIds
      BY <1>6 DEF ChatSet
    <2>. HIDE DEF c, d, I, J, N, M, O, P, p, q
    <2>. QED  BY <1>2, <1>6, <2>1 DEF Proper
  <1>. HIDE DEF c, d, I, J, N, M, O, P, w, v, q, p, t
  <1>12. Link(o, d, I, J \cup {m}, rest, p, N, M, O, P, w, v)
    BY <1>2, <1>3, <1>4, <1>5, <1>6, LinkSends
  <1>13. CASE chat'[s] = o /\ posted'[s] = rest
    BY <1>9, <1>12, <1>13
  <1>14. ASSUME NEW id \in ExchangeIds \ exchanges, o.exchange = 0, ~Unsettled(s),
                chat'[s] = Requested(o, id), posted'[s] = Append(rest, RequestKey(id))
         PROVE  LinkedAt(s)'
    <2>1. o.future = 0 /\ N = {} /\ id # d.exchange
      <3>1. id # 0
        BY SecretChatAssumption
      <3>. QED  BY <1>6, <1>10, <1>14, <3>1 DEF Alike
    <2>2. e.key = o.key /\ e.future = o.future /\ e.exchange = id
      BY <1>6, <1>14 DEF Requested, ChatSet
    <2>. HIDE DEF e
    <2>. DEFINE K == J \cup {m}
    <2>3. Proper(d, K, p, M, P) /\ Link(o, d, I, K, rest, p, N, M, O, P, w, v)
      BY <1>11, <1>12
    <2>. HIDE DEF K
    <2>4. id \in ExchangeIds /\ o.exchange = 0
      BY <1>14
    <2>5. Link(e, d, I, K, Append(rest, RequestKey(id)), p, N, M, O, P, w, v)
      BY <1>11, <2>1, <2>2, <2>3, <2>4, LinkStarts
    <2>. QED  BY <1>9, <1>14, <2>5 DEF K
  <1>. QED  BY <1>6, <1>13, <1>14

(* A message is processed.                                                 *)
LEMMA TakesAt ==
  ASSUME Inv, Inv', KeysKnown, Single, repeats = 0, fails = 0, NEW s \in Sides, LinkedAt(s),
         NEW m \in MessageSet, NEW new \in BOOLEAN, Takes(s, m), Process(s, m, new), ~overlapped',
         ~new => m.key = chat[s].key,
         new => (m.key # chat[s].key /\ m.key = chat[s].future) \/ m \in HeldNew(holes[s])
  PROVE  LinkedAt(s)'
  <1>. DEFINE t == Other(s)
              b == chat[s]
              d == chat[t]
              I == Awaited(s)
              K == Awaited(s)'
              J == Awaited(t)
              N == HeldNew(holes[s])
              M == HeldNew(holes[t])
              O == HeldOld(holes[s])
              P == HeldOld(holes[t])
              L == HeldNew(holes'[s])
              Q == HeldOld(holes'[s])
              w == Whole(s)
              v == Whole(t)
              p == posted[t]
              fresh == keys + 1
  <1>1. PICK e \in {0} \cup ExchangeIds : ProcessHas(s, m, new, e, Begun(s, m, e), Outcome(s, m, new, e))
    BY ProcessEffects
  <1>. DEFINE c == Begun(s, m, e)
              h == Outcome(s, m, new, e)
              q == Begins(posted[s], e)
  <1>. HIDE DEF c, h
  <1>2. ProcessHas(s, m, new, e, c, h)
    BY <1>1 DEF c, h
  <1>3. t \in Sides /\ t # s /\ Other(t) = s /\ SingleAt(s)
    BY OtherSide, SingleEach
  <1>4. Proper(b, I, posted[s], N, O) /\ Proper(d, J, p, M, P)
    BY <1>3, ProperAt
  <1>5. Link(b, d, I, J, posted[s], p, N, M, O, P, w, v)
    BY DEF LinkedAt
  <1>6. /\ fresh \in Nat /\ b.key < fresh /\ d.key < fresh /\ d.exchange \in {0} \cup exchanges
        /\ b.key \in Nat
    <2>1. b.key <= keys /\ d.key <= keys /\ d.exchange \in {0} \cup exchanges /\ keys \in Nat
      BY <1>3 DEF KeysKnown, KnownIn, ChatMade, Made, Inv, TypeOK
    <2>2. b.key \in Nat /\ d.key \in Nat
      BY <1>4 DEF Proper
    <2>. QED  BY <2>1, <2>2
  <1>7. Proper(c, I, q, N, O) /\ c \in ChatSet /\ c.key = b.key /\ c.future = b.future
    <2>1. c \in ChatSet /\ q \in Seq(ActionSet) /\ c.key = b.key /\ c.future = b.future
      BY <1>2 DEF ProcessHas
    <2>2. c.key \in Nat /\ c.future \in Nat /\ c.exchange \in {0} \cup ExchangeIds
      BY <2>1 DEF ChatSet
    <2>. HIDE DEF b, I, N, O, q
    <2>. QED  BY <1>4, <2>1, <2>2 DEF Proper
  <1>8. Link(c, d, I, J, q, p, N, M, O, P, w, v)
    <2>1. CASE e = 0
      <3>1. q = posted[s] /\ Alike(b, c)
        BY <1>2, <2>1 DEF Begins, ProcessHas, Alike
      <3>2. I \in SUBSET I /\ N \in SUBSET N /\ O \in SUBSET O /\ (w => w /\ I = I)
        OBVIOUS
      <3>. HIDE DEF b, d, I, J, N, M, O, P, w, v, q, p, t
      <3>. QED  BY <1>4, <1>5, <3>1, <3>2, LinkLoses
    <2>2. CASE e # 0
      <3>1. /\ e \in ExchangeIds /\ b.exchange = 0 /\ b.future = 0 /\ e \notin exchanges
            /\ c.key = b.key /\ c.future = b.future /\ c.exchange = e /\ ~Unsettled(s)
            /\ q = Append(posted[s], RequestKey(e))
        BY <1>2, <2>2 DEF ProcessHas, Begins
      <3>2. N = {} /\ e # d.exchange
        <4>1. N = {}
          BY <3>1 DEF Unsettled, HeldNew
        <4>. QED  BY <1>6, <2>2, <3>1, <4>1
      <3>. HIDE DEF b, d, I, J, N, M, O, P, w, v, q, p, t
      <3>3. Link(c, d, I, J, Append(posted[s], RequestKey(e)), p, N, M, O, P, w, v)
        BY <1>4, <1>5, <3>1, <3>2, LinkStarts
      <3>. QED  BY <3>1, <3>3
    <2>. QED  BY <2>1, <2>2
  <1>9. chat'[s] = h.chat /\ posted'[s] = q \o h.post /\ chat'[t] = d /\ posted'[t] = p
        /\ h = Handled(Switched(c, new), m.action, fresh)
    BY <1>2, <1>3 DEF ProcessHas
  <1>10. /\ m.n = chat[s].in \/ m.n = chat[s].in + 1
         /\ Coming(s)' = Coming(s) \ {m} /\ chat'[s].in = m.n
         /\ m.n \in Nat /\ chat[s].in \in Nat
         /\ \A x \in Coming(s) : x.n \in Nat
         /\ m \in Coming(s)
    <2>1. m \in Coming(s) /\ (m.n = chat[s].in \/ m.n = chat[s].in + 1)
          /\ Coming(s)' = Coming(s) \ {m} /\ chat'[s].in = m.n
      BY DEF Takes, InOrder
    <2>2. chat[s].in \in Nat /\ m.n \in Nat /\ \A x \in Coming(s) : x.n \in Nat
      BY ProperAt, HeldNumbers DEF Inv, MessageSet
    <2>. QED  BY <2>1, <2>2
  <1>11. Taken(I, m, K)
    <2>1. m \in I
      BY <1>10 DEF Awaited
    <2>2. ASSUME NEW x \in K PROVE x \in I /\ m.n < x.n
      <3>1. x \in Coming(s) /\ x # m /\ x.n >= m.n
        BY <1>10 DEF Awaited
      <3>2. x.n # m.n
        BY <1>3, <1>10, <3>1 DEF SingleAt
      <3>. QED  BY <1>10, <3>1, <3>2 DEF Awaited
    <2>. QED  BY <2>1, <2>2 DEF Taken
  <1>12. L \subseteq K /\ Q \subseteq K
    <2>1. Held(holes'[s]) \subseteq K
      <3>1. \A x \in Held(holes'[s]) : x.n >= chat'[s].in
        <4>1. HeldAhead'
          BY DEF Inv
        <4>2. \A i \in DOMAIN holes'[s] : chat'[s].in <= holes'[s][i].message.n
          BY <4>1 DEF HeldAhead
        <4>. QED  BY <4>2 DEF Held
      <3>. QED  BY <3>1 DEF Awaited, Coming
    <2>. QED  BY <2>1, HeldParts
  <1>13. w => I \subseteq K \cup {m}
    <2>1. ASSUME w, NEW x \in I, x # m PROVE x \in K
      <3>1. x \in Coming(s) /\ x.n >= chat[s].in /\ Started = 1
        BY <2>1 DEF Awaited, Whole
      <3>2. Started <= x.n /\ (chat[s].in < x.n \/ x.n = 0)
        BY <1>3, <3>1 DEF SingleAt
      <3>3. x.n >= m.n
        BY <1>10, <3>1, <3>2
      <3>. QED  BY <1>10, <2>1, <3>1, <3>3 DEF Awaited
    <2>. QED  BY <2>1
  <1>14. L \subseteq N /\ Q \subseteq O
    BY DEF Takes
  <1>15. Taking(c, I, N, m, new, K, L, w)
    <2>1. \A x \in L : m.n < x.n
      BY <1>11, <1>12 DEF Taken
    <2>2. (~new => m.key = c.key) /\ (new => (m.key # c.key /\ m.key = c.future) \/ m \in N)
      BY <1>7
    <2>. HIDE DEF I, N, K, L, w, b
    <2>. QED  BY <1>11, <1>13, <1>14, <2>1, <2>2 DEF Taking
  <1>16. /\ Awaited(t)' = J /\ HeldNew(holes'[t]) = M /\ HeldOld(holes'[t]) = P
         /\ Whole(s)' = w /\ Whole(t)' = v
    BY <1>3 DEF Takes, Awaited, Whole
  <1>17. Link(h.chat, d, K, J, q \o h.post, p, L, M, Q, P, w, v) => LinkedAt(s)'
    BY <1>9, <1>16 DEF LinkedAt
  <1>. HIDE DEF b, d, I, J, N, M, O, P, w, v, q, p, t, K, L, Q, fresh
  <1>18. Link(h.chat, d, K, J, q \o h.post, p, L, M, Q, P, w, v)
    <2>1. c.key < fresh /\ Q \in SUBSET O
      BY <1>6, <1>7, <1>14
    <2>2. LET g == Handled(Switched(c, new), m.action, fresh)
          IN  Link(g.chat, d, K, J, q \o g.post, p, L, M, Q, P, w, v)
      BY <1>4, <1>6, <1>7, <1>8, <1>12, <1>15, <2>1, LinkTakes
    <2>. QED  BY <1>9, <2>2
  <1>. QED  BY <1>17, <1>18

-----------------------------------------------------------------------------
(* Every step keeps the invariant.                                         *)

(* What did not go as planned stays so.                                    *)
LEMMA PlannedBefore ==
  ASSUME Inv, [Next]_vars, AsPlanned'
  PROVE  AsPlanned /\ repeats = 0 /\ fails = 0
  <1>1. repeats \in Nat /\ fails \in Nat /\ overlapped \in BOOLEAN /\ misjudged \in BOOLEAN
    BY DEF Inv, TypeOK
  <1>2. repeats' = 0 /\ fails' = 0 /\ ~overlapped' /\ ~misjudged'
    BY DEF AsPlanned, Usual
  <1>. DEFINE Goal == /\ repeats' = repeats \/ repeats' = repeats + 1
                      /\ fails' = fails \/ fails' = fails + 1
                      /\ overlapped => overlapped'
                      /\ misjudged => misjudged'
  <1>3. ASSUME UNCHANGED vars PROVE Goal
    BY <1>3 DEF vars
  <1>4. ASSUME NEW s \in Sides, SendText(s) \/ SendPosted(s) PROVE Goal
    <2>1. PICK action, rest : SendHas(s, action, rest, NewMessage(s, action), OneMoreOut(s))
      BY <1>4, SendsSomething, SendEffects
    <2>. DEFINE m == NewMessage(s, action)
                c == OneMoreOut(s)
    <2>. HIDE DEF m, c
    <2>2. SendHas(s, action, rest, m, c)
      BY <2>1 DEF m, c
    <2>3. /\ overlapped' = overlapped \/ overlapped' = (overlapped \/ Unsettled(s))
          /\ UNCHANGED <<repeats, fails, misjudged>>
      BY <2>2 DEF SendHas
    <2>4. overlapped => overlapped'
      BY <2>3, Zenon
    <2>. QED  BY <2>3, <2>4
  <1>5. ASSUME NEW s \in Sides, SendFails(s) PROVE Goal
    BY <1>5 DEF SendFails
  <1>6. ASSUME NEW s \in Sides, SendAgain(s) \/ KeyGrowsOld(s) \/ CheckEnds(s) \/ Discard(s) PROVE Goal
    BY <1>6 DEF SendAgain, KeyGrowsOld, CheckEnds, Discard
  <1>7. ASSUME NEW s \in Sides, NEW m, NEW new, Process(s, m, new) PROVE overlapped => overlapped'
    BY <1>7 DEF Process
  <1>8. ASSUME NEW s \in Sides, NEW m, Deliver(s, m)
        PROVE  /\ repeats' = repeats \/ repeats' = repeats + 1
               /\ fails' = fails /\ misjudged' = misjudged
    BY <1>8 DEF Deliver
  <1>9. ASSUME NEW s \in Sides, NEW m, ReceiveNext(s, m) PROVE Goal
    BY <1>7, <1>8, <1>9 DEF ReceiveNext
  <1>10. ASSUME NEW s \in Sides, NEW m, ReceiveAhead(s, m) \/ ReceiveNothing(s, m) PROVE Goal
    BY <1>8, <1>10 DEF ReceiveAhead, ReceiveNothing
  <1>11. ASSUME NEW s \in Sides, CheckHole(s) PROVE Goal
    <2>1. /\ \E m, new : Process(s, m, new)
          /\ misjudged => misjudged'
          /\ repeats' = repeats /\ fails' = fails
      BY <1>11 DEF CheckHole
    <2>. QED  BY <1>7, <2>1
  <1>12. Goal
    <2>. HIDE DEF Goal
    <2>. QED  BY <1>3, <1>4, <1>5, <1>6, <1>9, <1>10, <1>11 DEF Next, Receive
  <1>13. repeats = 0 /\ fails = 0 /\ ~overlapped /\ ~misjudged
    BY <1>1, <1>2, <1>12
  <1>. QED  BY <1>13 DEF AsPlanned, Usual

(* What the property says of one side.                                     *)
MissesNone(s) ==
    open[s] = "open" =>
        \A n \in chat[s].in + 1 .. chat[Other(s)].out - 1 : \E m \in Coming(s) : m.n = n

(* What is said of both sides is said of each.                              *)
LEMMA NoneMissingEach == NoneMissing <=> (AsPlanned => \A s \in Sides : MissesNone(s))
  <1>1. \A s, n : n \in {m.n : m \in net[Other(s)]} \cup {holes[s][i].message.n : i \in DOMAIN holes[s]}
                    <=> \E m \in Coming(s) : m.n = n
    BY DEF Coming, Held
  <1>2. \A s : MissesNone(s) <=>
          (open[s] = "open" =>
             \A n \in chat[s].in + 1 .. chat[Other(s)].out - 1 :
                n \in {m.n : m \in net[Other(s)]} \cup {holes[s][i].message.n : i \in DOMAIN holes[s]})
    BY <1>1, ZenonT(90) DEF MissesNone
  <1>. QED  BY <1>2 DEF NoneMissing

(* At every stage a side can read what it awaits.                          *)
LEMMA ReadsAll ==
  ASSUME Inv, Exchanging
  PROVE  Readable
  <1>. SUFFICES ASSUME AsPlanned, NEW s \in Sides, NEW m \in net[Other(s)] PROVE ~Unreadable(s, m)
    BY DEF Readable
  <1>1. LinkedAt(s)
    BY DEF Exchanging
  <1>2. ASSUME m.n > chat[s].in PROVE m \in Awaited(s)
    <2>1. m \in Coming(s) /\ m.n \in Nat /\ chat[s].in \in Nat
      <3>1. m \in Coming(s)
        BY DEF Coming
      <3>. QED  BY <3>1, ProperAt, HeldNumbers DEF Inv, MessageSet
    <2>. QED  BY <1>2, <2>1 DEF Awaited
  <1>. QED  BY <1>1, <1>2, AwaitedRead DEF Unreadable

(* A message that is not looked at.                                        *)
LEMMA NothingHas ==
  ASSUME Inv, Single, NEW s \in Sides, NEW m, ReceiveNothing(s, m), repeats' = 0, fails' = 0
  PROVE  /\ m \in net[Other(s)] /\ m \in Coming(s) /\ (~CanRead(s, m) \/ m.n < chat[s].in)
         /\ Coming(s)' = Coming(s) \ {m} /\ Coming(Other(s))' = Coming(Other(s))
         /\ UNCHANGED <<chat, open, holes, busy, posted, declined, exchanges, keys, overlapped>>
  <1>1. /\ m \in net[Other(s)] /\ m \in Coming(s) /\ m \notin Held(holes[s])
        /\ net'[Other(s)] = net[Other(s)] \ {m} /\ net'[s] = net[s]
    BY DeliverOnce DEF ReceiveNothing
  <1>2. /\ ~CanRead(s, m) \/ m.n < chat[s].in
        /\ UNCHANGED <<chat, open, holes, busy, posted, declined, exchanges, keys, overlapped>>
    BY DEF ReceiveNothing
  <1>3. Other(Other(s)) = s
    BY OtherSide
  <1>4. Coming(s)' = Coming(s) \ {m} /\ Coming(Other(s))' = Coming(Other(s))
    BY <1>1, <1>2, <1>3 DEF Coming
  <1>. QED  BY <1>1, <1>2, <1>4

(* The stage after a step.                                                 *)
LEMMA ExchangingStays ==
  ASSUME Inv, Inv', Counted, KeysKnown, Single, Exchanging, [Next]_vars
  PROVE  Exchanging'
  <1>. SUFFICES ASSUME AsPlanned' PROVE \A s \in Sides : LinkedAt(s)'
    BY DEF Exchanging
  <1>. DEFINE Goal == \A s \in Sides : LinkedAt(s)'
  <1>1. /\ AsPlanned /\ repeats = 0 /\ fails = 0 /\ repeats' = 0 /\ fails' = 0 /\ ~overlapped' /\ ~misjudged'
        /\ \A s \in Sides : LinkedAt(s)
    BY PlannedBefore DEF AsPlanned, Usual, Exchanging
  <1>2. ASSUME NEW s \in Sides, LinkedAt(s)' PROVE Goal
    BY <1>2, LinkTurned
  <1>3. ASSUME NEW s \in Sides, Alike(chat[s], chat'[s]), chat'[s].in = chat[s].in, chat'[Other(s)] = chat[Other(s)],
               posted' = posted, holes' = holes, net' = net, open'[Other(s)] = open[Other(s)],
               open'[s] = open[s] \/ open'[s] # "open"
        PROVE  Goal
    <2>1. Awaited(s)' = Awaited(s) /\ Awaited(Other(s))' = Awaited(Other(s)) /\ (Whole(s)' => Whole(s))
      BY <1>3 DEF Awaited, Coming, Whole
    <2>2. LinkedAt(s)'
      BY <1>1, <1>3, <2>1, LosesAt
    <2>. QED  BY <1>2, <2>2
  <1>4. ASSUME UNCHANGED vars PROVE Goal
    <2>1. UNCHANGED <<chat, posted, holes, net, open>>
      BY <1>4 DEF vars
    <2>2. PICK s : s \in Sides
      BY SecretChatAssumption
    <2>3. Alike(chat[s], chat'[s]) /\ chat'[s].in = chat[s].in
      BY <2>1 DEF Alike
    <2>. HIDE DEF Goal
    <2>. QED  BY <1>3, <2>1, <2>2, <2>3
  <1>5. ASSUME NEW s \in Sides, SendText(s) \/ SendPosted(s) PROVE Goal
    <2>1. PICK action, rest : SendsNext(s, action, rest)
      BY <1>5, SendsSomething
    <2>2. LinkedAt(s)'
      BY <1>1, <2>1, SendsAt
    <2>. QED  BY <1>2, <2>2
  <1>6. ASSUME NEW s \in Sides, SendFails(s) PROVE Goal
    BY <1>1, <1>6 DEF SendFails
  <1>7. ASSUME NEW s \in Sides, SendAgain(s) PROVE Goal
    <2>1. failed[s] # {}
      BY <1>7 DEF SendAgain
    <2>. QED  BY <1>1, <2>1, SingleEach DEF SingleAt
  <1>8. ASSUME NEW s \in Sides, KeyGrowsOld(s) PROVE Goal
    <2>1. /\ chat' = [chat EXCEPT ![s] = [chat[s] EXCEPT !.due = TRUE]] /\ chat \in [Sides -> ChatSet]
          /\ UNCHANGED <<holes, posted, net, open>>
      BY <1>8 DEF KeyGrowsOld, Inv, TypeOK
    <2>2. LET d == [chat[s] EXCEPT !.due = TRUE]
          IN  d.key = chat[s].key /\ d.future = chat[s].future /\ d.exchange = chat[s].exchange /\ d.in = chat[s].in
      BY <2>1 DEF ChatSet
    <2>3. Alike(chat[s], chat'[s]) /\ chat'[s].in = chat[s].in /\ chat'[Other(s)] = chat[Other(s)]
      BY <2>1, <2>2, OtherSide DEF Alike
    <2>. HIDE DEF Goal
    <2>. QED  BY <1>3, <2>1, <2>3
  <1>9. ASSUME NEW s \in Sides, NEW m, ReceiveNext(s, m) PROVE Goal
    <2>1. /\ Takes(s, m) /\ m \in MessageSet /\ Process(s, m, UsesNew(s, m)) /\ UsesNew(s, m) \in BOOLEAN
          /\ ~UsesNew(s, m) => m.key = chat[s].key
          /\ UsesNew(s, m) => m.key # chat[s].key /\ m.key = chat[s].future
      BY <1>1, <1>9, NextTakes
    <2>. DEFINE new == UsesNew(s, m)
    <2>2. /\ new \in BOOLEAN /\ Process(s, m, new) /\ (~new => m.key = chat[s].key)
          /\ new => (m.key # chat[s].key /\ m.key = chat[s].future) \/ m \in HeldNew(holes[s])
      BY <2>1
    <2>. HIDE DEF new
    <2>3. LinkedAt(s)'
      BY <1>1, <2>1, <2>2, TakesAt
    <2>. QED  BY <1>2, <2>3
  <1>10. ASSUME NEW s \in Sides, CheckHole(s) PROVE Goal
    <2>1. PICK m \in MessageSet, new \in BOOLEAN :
            /\ Takes(s, m) /\ Process(s, m, new)
            /\ misjudged' = (misjudged \/ (~new /\ m.key # chat[s].key))
            /\ new => m \in HeldNew(holes[s])
      BY <1>1, <1>10, HoleTakes
    <2>2. ~new => m.key = chat[s].key
      BY <1>1, <2>1
    <2>3. LinkedAt(s)'
      BY <1>1, <2>1, <2>2, TakesAt
    <2>. QED  BY <1>2, <2>3
  <1>11. ASSUME NEW s \in Sides, NEW m, ReceiveAhead(s, m) PROVE Goal
    <2>1. /\ m \in Coming(s) /\ m \in MessageSet /\ chat[s].in + 1 < m.n
          /\ holes'[Other(s)] = holes[Other(s)] /\ open'[Other(s)] = open[Other(s)]
          /\ Coming(Other(s))' = Coming(Other(s))
          /\ \/ /\ Coming(s)' = Coming(s) /\ open'[s] = open[s]
                /\ HeldNew(holes'[s]) = IF m.key # chat[s].key THEN HeldNew(holes[s]) \cup {m} ELSE HeldNew(holes[s])
                /\ HeldOld(holes'[s]) = IF m.key = chat[s].key THEN HeldOld(holes[s]) \cup {m} ELSE HeldOld(holes[s])
             \/ /\ Coming(s)' \subseteq Coming(s) /\ open'[s] = "closing"
                /\ HeldNew(holes'[s]) = {} /\ HeldOld(holes'[s]) = {}
          /\ chat' = chat /\ posted' = posted
      BY <1>1, <1>11, AheadHas
    <2>2. Awaited(Other(s))' = Awaited(Other(s))
      BY <2>1 DEF Awaited
    <2>3. CASE /\ Coming(s)' = Coming(s) /\ open'[s] = open[s]
               /\ HeldNew(holes'[s]) = IF m.key # chat[s].key THEN HeldNew(holes[s]) \cup {m} ELSE HeldNew(holes[s])
               /\ HeldOld(holes'[s]) = IF m.key = chat[s].key THEN HeldOld(holes[s]) \cup {m} ELSE HeldOld(holes[s])
      <3>1. Awaited(s)' = Awaited(s)
        BY <2>1, <2>3 DEF Awaited
      <3>2. m \in Awaited(s)
        <4>1. chat[s].in \in Nat /\ m.n \in Nat
          BY <2>1, HeldNumbers DEF Inv, MessageSet
        <4>. QED  BY <2>1, <4>1 DEF Awaited
      <3>3. LinkedAt(s)'
        <4>1. open' = open
          <5>1. open \in [Sides -> {"open", "closing", "closed"}] /\ open' \in [Sides -> {"open", "closing", "closed"}]
            BY DEF Inv, TypeOK
          <5>. QED  BY <2>1, <2>3, <5>1, OtherSide
        <4>. QED  BY <1>1, <2>1, <2>2, <2>3, <3>1, <3>2, <4>1, HoldsAt
      <3>. QED  BY <1>2, <3>3
    <2>4. CASE /\ Coming(s)' \subseteq Coming(s) /\ open'[s] = "closing"
               /\ HeldNew(holes'[s]) = {} /\ HeldOld(holes'[s]) = {}
      <3>1. Awaited(s)' \subseteq Awaited(s) /\ ~Whole(s)' /\ Alike(chat[s], chat'[s])
        BY <2>1, <2>4 DEF Awaited, Whole, Alike
      <3>2. chat'[Other(s)] = chat[Other(s)] /\ HeldNew(holes'[s]) \subseteq HeldNew(holes[s])
            /\ HeldOld(holes'[s]) \subseteq HeldOld(holes[s])
        BY <2>1, <2>4
      <3>3. LinkedAt(s)'
        BY <1>1, <2>1, <2>2, <3>1, <3>2, LosesAt
      <3>. QED  BY <1>2, <3>3
    <2>. QED  BY <2>1, <2>3, <2>4
  <1>12. ASSUME NEW s \in Sides, NEW m, ReceiveNothing(s, m) PROVE Goal
    <2>1. /\ m \in net[Other(s)] /\ m \in Coming(s) /\ (~CanRead(s, m) \/ m.n < chat[s].in)
          /\ Coming(s)' = Coming(s) \ {m} /\ Coming(Other(s))' = Coming(Other(s))
          /\ UNCHANGED <<chat, open, holes, busy, posted, declined, exchanges, keys, overlapped>>
      BY <1>1, <1>12, NothingHas
    <2>2. m \notin Awaited(s)
      <3>1. m.n \in Nat /\ chat[s].in \in Nat
        BY <2>1, ProperAt, HeldNumbers DEF Inv, MessageSet
      <3>2. m \in Awaited(s) => CanRead(s, m) /\ ~(m.n < chat[s].in)
        BY <1>1, <3>1, AwaitedRead DEF Awaited
      <3>. QED  BY <2>1, <3>2
    <2>3. Awaited(s)' = Awaited(s) /\ Awaited(Other(s))' = Awaited(Other(s)) /\ (Whole(s)' => Whole(s))
          /\ Alike(chat[s], chat'[s])
      BY <2>1, <2>2 DEF Awaited, Whole, Alike
    <2>4. LinkedAt(s)'
      BY <1>1, <2>1, <2>3, LosesAt
    <2>. QED  BY <1>2, <2>4
  <1>13. ASSUME NEW s \in Sides, CheckEnds(s) PROVE Goal
    <2>1. UNCHANGED <<chat, posted, holes, net, open>>
      BY <1>13 DEF CheckEnds
    <2>2. Alike(chat[s], chat'[s]) /\ chat'[s].in = chat[s].in
      BY <2>1 DEF Alike
    <2>. HIDE DEF Goal
    <2>. QED  BY <1>3, <2>1, <2>2
  <1>14. ASSUME NEW s \in Sides, Discard(s) PROVE Goal
    <2>1. UNCHANGED <<chat, posted, holes, net>> /\ open' = [open EXCEPT ![s] = "closed"]
      BY <1>14 DEF Discard
    <2>2. open'[s] = "closed" /\ open'[Other(s)] = open[Other(s)]
      BY <2>1, OtherSide DEF Inv, TypeOK
    <2>3. Alike(chat[s], chat'[s]) /\ chat'[s].in = chat[s].in
      BY <2>1 DEF Alike
    <2>. HIDE DEF Goal
    <2>. QED  BY <1>3, <2>1, <2>2, <2>3
  <1>. HIDE DEF Goal
  <1>15. Goal
    BY <1>4, <1>5, <1>6, <1>7, <1>8, <1>9, <1>10, <1>11, <1>12, <1>13, <1>14 DEF Next, Receive
  <1>. QED  BY <1>15 DEF Goal

(* No message is lost.                                                     *)
LEMMA NoneMissingStays ==
  ASSUME Inv, Inv', Counted, Single, Exchanging, NoneMissing, [Next]_vars
  PROVE  NoneMissing'
  <1>. DEFINE Goal == \A s \in Sides : MissesNone(s)'
  <1>1. SUFFICES ASSUME AsPlanned' PROVE Goal
    <2>1. NoneMissing' <=> (AsPlanned' => \A s \in Sides : MissesNone(s)')
      <3>1. \A s, n : n \in {m.n : m \in net'[Other(s)]} \cup {holes'[s][i].message.n : i \in DOMAIN holes'[s]}
                        <=> \E m \in Coming(s)' : m.n = n
        BY DEF Coming, Held
      <3>2. \A s : MissesNone(s)' <=>
              (open'[s] = "open" =>
                 \A n \in chat'[s].in + 1 .. chat'[Other(s)].out - 1 : \E m \in Coming(s)' : m.n = n)
        BY DEF MissesNone
      <3>. DEFINE OneOf(s, n) ==
                    n \in {m.n : m \in net'[Other(s)]} \cup {holes'[s][i].message.n : i \in DOMAIN holes'[s]}
                  Due(s, n) == \E m \in Coming(s)' : m.n = n
      <3>. HIDE DEF OneOf, Due
      <3>3. \A s, n : OneOf(s, n) <=> Due(s, n)
        BY <3>1 DEF OneOf, Due
      <3>4. \A s : MissesNone(s)' <=>
              (open'[s] = "open" =>
                 \A n \in chat'[s].in + 1 .. chat'[Other(s)].out - 1 : Due(s, n))
        BY <3>2 DEF Due
      <3>5. \A s : MissesNone(s)' <=>
              (open'[s] = "open" =>
                 \A n \in chat'[s].in + 1 .. chat'[Other(s)].out - 1 : OneOf(s, n))
        BY <3>3, <3>4
      <3>. QED  BY <3>5 DEF NoneMissing, OneOf
    <2>. QED  BY <2>1
  <1>2. /\ AsPlanned /\ repeats = 0 /\ fails = 0 /\ repeats' = 0 /\ fails' = 0
        /\ \A s \in Sides : LinkedAt(s) /\ MissesNone(s)
    BY <1>1, PlannedBefore, NoneMissingEach DEF AsPlanned, Usual, Exchanging
  <1>3. ASSUME NEW s \in Sides, MissesNone(s)', MissesNone(Other(s))' PROVE Goal
    BY <1>3, OtherSide
  <1>4. ASSUME NEW s \in Sides, chat'[s].in = chat[s].in, chat'[s].out = chat[s].out,
               chat'[Other(s)] = chat[Other(s)], Coming(s)' = Coming(s), Coming(Other(s))' = Coming(Other(s)),
               open'[Other(s)] = open[Other(s)], open'[s] = open[s] \/ open'[s] # "open"
        PROVE  Goal
    <2>1. MissesNone(s)' /\ MissesNone(Other(s))'
      BY <1>2, <1>4, OtherSide DEF MissesNone
    <2>. QED  BY <1>3, <2>1
  <1>5. ASSUME NEW s \in Sides, NEW m, Takes(s, m), chat'[s].out = chat[s].out, chat'[Other(s)] = chat[Other(s)]
        PROVE  Goal
    <2>1. /\ Other(s) \in Sides /\ Other(Other(s)) = s /\ SingleAt(s) /\ m \in Coming(s) /\ m \in MessageSet
          /\ chat[s].in \in Nat /\ m.n \in Nat /\ chat[Other(s)].out \in Nat
      <3>1. m \in Coming(s)
        BY <1>5 DEF Takes
      <3>. QED  BY <1>2, <3>1, OtherSide, SingleEach, ProperAt, HeldNumbers DEF Inv, MessageSet
    <2>2. /\ Coming(s)' = Coming(s) \ {m} /\ Coming(Other(s))' = Coming(Other(s)) /\ open' = open
          /\ chat'[s].in = m.n /\ chat[s].in <= m.n
      BY <1>5, <2>1 DEF Takes, InOrder
    <2>3. MissesNone(s)'
      <3>1. ASSUME open[s] = "open", NEW n \in m.n + 1 .. chat[Other(s)].out - 1
            PROVE  \E x \in Coming(s) \ {m} : x.n = n
        <4>1. PICK x \in Coming(s) : x.n = n
          <5>1. n \in chat[s].in + 1 .. chat[Other(s)].out - 1
            BY <2>1, <2>2
          <5>. QED  BY <1>2, <3>1, <5>1 DEF MissesNone
        <4>2. x # m
          BY <2>1, <4>1
        <4>. QED  BY <4>1, <4>2
      <3>. QED  BY <1>5, <2>2, <3>1 DEF MissesNone
    <2>4. MissesNone(Other(s))'
      BY <1>2, <1>5, <2>1, <2>2 DEF MissesNone
    <2>. QED  BY <1>3, <2>3, <2>4
  <1>6. ASSUME UNCHANGED vars PROVE Goal
    <2>1. UNCHANGED <<chat, holes, net, open>>
      BY <1>6 DEF vars
    <2>. QED  BY <1>2, <2>1 DEF MissesNone, Coming
  <1>7. ASSUME NEW s \in Sides, SendText(s) \/ SendPosted(s) PROVE Goal
    <2>1. PICK action, rest : SendHas(s, action, rest, NewMessage(s, action), OneMoreOut(s))
      BY <1>7, SendsSomething, SendEffects
    <2>. DEFINE m == NewMessage(s, action)
                c == OneMoreOut(s)
                t == Other(s)
    <2>. HIDE DEF m, c
    <2>2. SendHas(s, action, rest, m, c)
      BY <2>1 DEF m, c
    <2>3. /\ t \in Sides /\ t # s /\ Other(t) = s
          /\ chat[s].in \in Nat /\ chat[s].out \in Nat /\ chat[t].in \in Nat
      BY OtherSide, HeldNumbers DEF Inv
    <2>4. c \in ChatSet /\ c.in = chat[s].in /\ c.out = chat[s].out + 1
          /\ (chat'[s] = c \/ \E e \in ExchangeIds : chat'[s] = Requested(c, e))
      BY <2>2 DEF SendHas
    <2>5. chat'[s].in = chat[s].in /\ chat'[s].out = chat[s].out + 1
      BY <2>4 DEF Requested, ChatSet
    <2>6. /\ m.n = chat[s].out /\ chat'[t] = chat[t] /\ net'[s] = net[s] \cup {m} /\ net'[t] = net[t]
          /\ holes' = holes /\ open' = open
      BY <2>2, <2>3 DEF SendHas
    <2>. HIDE DEF t
    <2>7. Coming(s)' = Coming(s) /\ Coming(t)' = Coming(t) \cup {m}
      BY <2>3, <2>6 DEF Coming, t
    <2>8. MissesNone(s)'
      BY <1>2, <2>5, <2>6, <2>7 DEF MissesNone, t
    <2>9. MissesNone(t)'
      <3>1. ASSUME open[t] = "open", NEW n \in chat[t].in + 1 .. chat[s].out
            PROVE  \E x \in Coming(t) \cup {m} : x.n = n
        <4>1. CASE n = chat[s].out
          BY <2>6, <4>1
        <4>2. CASE n # chat[s].out
          <5>1. n \in chat[t].in + 1 .. chat[s].out - 1
            BY <2>3, <4>2
          <5>. QED  BY <1>2, <2>3, <3>1, <5>1 DEF MissesNone
        <4>. QED  BY <4>1, <4>2
      <3>2. chat[s].out + 1 - 1 = chat[s].out
        BY <2>3
      <3>. QED  BY <2>3, <2>5, <2>6, <2>7, <3>1, <3>2 DEF MissesNone
    <2>. QED  BY <1>3, <2>8, <2>9 DEF t
  <1>8. ASSUME NEW s \in Sides, SendFails(s) PROVE Goal
    BY <1>2, <1>8 DEF SendFails
  <1>9. ASSUME NEW s \in Sides, SendAgain(s) PROVE Goal
    <2>1. failed[s] # {}
      BY <1>9 DEF SendAgain
    <2>. QED  BY <1>2, <2>1, SingleEach DEF SingleAt
  <1>10. ASSUME NEW s \in Sides, KeyGrowsOld(s) PROVE Goal
    <2>1. /\ chat' = [chat EXCEPT ![s] = [chat[s] EXCEPT !.due = TRUE]] /\ chat \in [Sides -> ChatSet]
          /\ UNCHANGED <<holes, net, open>>
      BY <1>10 DEF KeyGrowsOld, Inv, TypeOK
    <2>2. LET d == [chat[s] EXCEPT !.due = TRUE] IN d.out = chat[s].out /\ d.in = chat[s].in
      BY <2>1 DEF ChatSet
    <2>3. chat'[s].in = chat[s].in /\ chat'[s].out = chat[s].out /\ chat'[Other(s)] = chat[Other(s)]
      BY <2>1, <2>2, OtherSide
    <2>4. Coming(s)' = Coming(s) /\ Coming(Other(s))' = Coming(Other(s))
      BY <2>1 DEF Coming
    <2>. HIDE DEF Goal
    <2>. QED  BY <1>4, <2>1, <2>3, <2>4
  <1>11. ASSUME NEW s \in Sides, NEW m \in MessageSet, NEW new \in BOOLEAN, Process(s, m, new)
         PROVE  chat'[s].out = chat[s].out /\ chat'[Other(s)] = chat[Other(s)]
    BY <1>11, ProcessKeeps, OtherSide DEF Inv
  <1>12. ASSUME NEW s \in Sides, NEW m, ReceiveNext(s, m) PROVE Goal
    <2>1. Takes(s, m) /\ m \in MessageSet /\ Process(s, m, UsesNew(s, m)) /\ UsesNew(s, m) \in BOOLEAN
      BY <1>2, <1>12, NextTakes
    <2>. HIDE DEF Goal
    <2>. QED  BY <1>5, <1>11, <2>1
  <1>13. ASSUME NEW s \in Sides, CheckHole(s) PROVE Goal
    <2>1. PICK m \in MessageSet, new \in BOOLEAN : Takes(s, m) /\ Process(s, m, new)
      BY <1>2, <1>13, HoleTakes
    <2>. HIDE DEF Goal
    <2>. QED  BY <1>5, <1>11, <2>1
  <1>14. ASSUME NEW s \in Sides, NEW m, ReceiveAhead(s, m) PROVE Goal
    <2>1. /\ open'[Other(s)] = open[Other(s)]
          /\ Coming(Other(s))' = Coming(Other(s))
          /\ \/ Coming(s)' = Coming(s) /\ open'[s] = open[s]
             \/ open'[s] = "closing"
          /\ chat' = chat
      BY <1>2, <1>14, AheadHas
    <2>2. MissesNone(s)' /\ MissesNone(Other(s))'
      BY <1>2, <2>1, OtherSide DEF MissesNone
    <2>. QED  BY <1>3, <2>2
  <1>15. ASSUME NEW s \in Sides, NEW m, ReceiveNothing(s, m) PROVE Goal
    <2>1. /\ m \in net[Other(s)] /\ m \in Coming(s) /\ (~CanRead(s, m) \/ m.n < chat[s].in)
          /\ Coming(s)' = Coming(s) \ {m} /\ Coming(Other(s))' = Coming(Other(s))
          /\ UNCHANGED <<chat, open, holes, busy, posted, declined, exchanges, keys, overlapped>>
      BY <1>2, <1>15, NothingHas
    <2>2. m.n \in Nat /\ chat[s].in \in Nat
      BY <2>1, ProperAt, HeldNumbers DEF Inv, MessageSet
    <2>3. ~(m.n >= chat[s].in)
      <3>1. m \in Awaited(s) => CanRead(s, m)
        BY <1>2, AwaitedRead
      <3>. QED  BY <2>1, <2>2, <3>1 DEF Awaited
    <2>4. MissesNone(s)'
      <3>1. ASSUME open[s] = "open", NEW n \in chat[s].in + 1 .. chat[Other(s)].out - 1
            PROVE  \E x \in Coming(s) \ {m} : x.n = n
        <4>1. PICK x \in Coming(s) : x.n = n
          BY <1>2, <3>1 DEF MissesNone
        <4>2. chat[Other(s)].out \in Nat
          BY OtherSide, HeldNumbers DEF Inv
        <4>3. x # m
          BY <2>2, <2>3, <4>1, <4>2
        <4>. QED  BY <4>1, <4>3
      <3>. QED  BY <2>1, <3>1 DEF MissesNone
    <2>5. MissesNone(Other(s))'
      BY <1>2, <2>1, OtherSide DEF MissesNone
    <2>. QED  BY <1>3, <2>4, <2>5
  <1>16. ASSUME NEW s \in Sides, CheckEnds(s) PROVE Goal
    <2>1. UNCHANGED <<chat, holes, net, open>>
      BY <1>16 DEF CheckEnds
    <2>. QED  BY <1>2, <2>1 DEF MissesNone, Coming
  <1>17. ASSUME NEW s \in Sides, Discard(s) PROVE Goal
    <2>1. UNCHANGED <<chat, holes, net>> /\ open' = [open EXCEPT ![s] = "closed"]
      BY <1>17 DEF Discard
    <2>2. open'[s] = "closed" /\ open'[Other(s)] = open[Other(s)]
      BY <2>1, OtherSide DEF Inv, TypeOK
    <2>3. Coming(s)' = Coming(s) /\ Coming(Other(s))' = Coming(Other(s))
      BY <2>1 DEF Coming
    <2>. HIDE DEF Goal
    <2>. QED  BY <1>4, <2>1, <2>2, <2>3
  <1>. HIDE DEF Goal
  <1>. QED
    BY <1>6, <1>7, <1>8, <1>9, <1>10, <1>12, <1>13, <1>14, <1>15, <1>16, <1>17 DEF Next, Receive

(* The chat begins idle.                                                    *)
LEMMA InitChatInv == Init => ChatInv
  <1>. SUFFICES ASSUME Init PROVE ChatInv
    OBVIOUS
  <1>1. Inv
    BY InitInv
  <1>2. /\ \A s \in Sides : /\ chat[s].in = 0 /\ chat[s].out = Started /\ chat[s].key = 1 /\ chat[s].future = 0
                            /\ chat[s].exchange = 0
                            /\ holes[s] = <<>> /\ posted[s] = <<>> /\ net[s] = {} /\ copies[s] = {}
                            /\ failed[s] = {}
                            /\ Other(s) \in Sides
        /\ exchanges = {} /\ keys = 1 /\ Started \in {0, 1}
    BY OtherSide, SecretChatAssumption DEF Init
  <1>3. Held(<<>>) = {} /\ HeldNew(<<>>) = {} /\ HeldOld(<<>>) = {} /\ Distinct(<<>>)
    BY DEF Held, HeldNew, HeldOld, Distinct
  <1>4. \A s \in Sides : Coming(s) = {} /\ Awaited(s) = {}
    BY <1>2, <1>3 DEF Coming, Awaited
  <1>5. Counted
    BY <1>2 DEF Counted
  <1>6. KeysKnown
    BY <1>2 DEF KeysKnown, KnownIn, ChatMade, AllMade, Made
  <1>7. Single
    BY <1>2, <1>4 DEF Single
  <1>8. Exchanging
    <2>1. ASSUME NEW s \in Sides PROVE LinkedAt(s)
      <3>. DEFINE t == Other(s)
      <3>1. Idle(chat[s], chat[t], Awaited(s), Awaited(t), posted[s], posted[t])
        BY <1>2, <1>4 DEF Idle, Under, FirstThen, Quietly
      <3>2. chat[s].key # 0 /\ chat[t].key # 0
        BY <1>2
      <3>. HIDE DEF t
      <3>. QED  BY <3>1, <3>2 DEF LinkedAt, Link, Between, t
    <2>. QED  BY <2>1 DEF Exchanging
  <1>9. NoneMissing
    <2>1. ASSUME NEW s \in Sides PROVE MissesNone(s)
      <3>1. chat[s].in + 1 .. chat[Other(s)].out - 1 = {}
        BY <1>2
      <3>. QED  BY <3>1 DEF MissesNone
    <2>. QED  BY <2>1, NoneMissingEach
  <1>. QED  BY <1>1, <1>5, <1>6, <1>7, <1>8, <1>9 DEF ChatInv

(* Every step keeps the invariant.                                          *)
LEMMA ChatInvStays == ChatInv /\ [Next]_vars => ChatInv'
  <1>. SUFFICES ASSUME ChatInv, [Next]_vars PROVE ChatInv'
    OBVIOUS
  <1>1. Inv /\ Counted /\ KeysKnown /\ Single /\ Exchanging /\ NoneMissing
    BY DEF ChatInv
  <1>2. Inv'
    BY <1>1, NextInv
  <1>3. Counted'
    BY <1>1, CountedStays
  <1>4. KeysKnown'
    BY <1>1, KeysStayKnown
  <1>5. Single'
    BY <1>1, <1>2, SingleStays
  <1>6. Exchanging'
    BY <1>1, <1>2, ExchangingStays
  <1>7. NoneMissing'
    BY <1>1, <1>2, NoneMissingStays
  <1>. QED  BY <1>2, <1>3, <1>4, <1>5, <1>6, <1>7 DEF ChatInv

(* A side can read all the messages on their way to it that it has not     *)
(* processed: a key is given up only when no message needs it.  That is so *)
(* AsPlanned: every message comes once, no request fails, exchanges do not *)
(* overlap, and no held message was misjudged.                             *)
THEOREM AlwaysReadable == Spec => []Readable
  <1>1. ChatInv => Readable
    BY ReadsAll DEF ChatInv
  <1>. QED  BY <1>1, InitChatInv, ChatInvStays, PTL DEF Spec

(* AsPlanned, every message that was sent and is not processed is on its   *)
(* way or held.                                                            *)
THEOREM AlwaysNoneMissing == Spec => []NoneMissing
  <1>1. ChatInv => NoneMissing
    BY DEF ChatInv
  <1>. QED  BY <1>1, InitChatInv, ChatInvStays, PTL DEF Spec

(* When nothing is on its way, nothing is held and no stage but the first  *)
(* is possible.                                                            *)
LEMMA QuietAgrees ==
  ASSUME Started = 1, ChatInv
  PROVE  KeysAgree
  <1>. SUFFICES ASSUME AsPlanned, Quiet, NEW s \in Sides
                PROVE  /\ chat[s].key = chat[Other(s)].key
                       /\ chat[s].exchange = 0 /\ chat[Other(s)].exchange = 0
    BY OtherSide DEF KeysAgree
  <1>1. /\ Inv /\ LinkedAt(s) /\ \A t \in Sides : MissesNone(t)
        /\ \A t \in Sides : net[t] = {} /\ posted[t] = <<>> /\ ~busy[t] /\ open[t] = "open"
    BY NoneMissingEach DEF ChatInv, Exchanging, Quiet
  <1>2. ASSUME NEW t \in Sides PROVE Awaited(t) = {} /\ Whole(t)
    <2>1. Other(t) \in Sides /\ net[Other(t)] = {}
      BY <1>1, OtherSide
    <2>2. Coming(t) = {}
      <3>1. SUFFICES ASSUME NEW m \in Coming(t) PROVE FALSE
        OBVIOUS
      <3>2. /\ \A x \in Coming(t) : chat[t].in + 1 < x.n /\ x.n \in Nat /\ x.n < chat[Other(t)].out
            /\ chat[t].in \in Nat /\ chat[Other(t)].out \in Nat
        <4>1. \A x \in Coming(t) : chat[t].in + 1 < x.n
          BY <1>1, <2>1 DEF Inv, HeldAhead, Coming, Held
        <4>2. /\ \A x \in Coming(t) : x.n \in Nat /\ x.n < chat[Other(t)].out
              /\ chat[t].in \in Nat /\ chat[Other(t)].out \in Nat
          BY <1>1, <2>1, ProperAt, HeldNumbers DEF Inv, MessageSet
        <4>. QED  BY <4>1, <4>2
      <3>3. chat[t].in + 1 \in chat[t].in + 1 .. chat[Other(t)].out - 1
        BY <3>2
      <3>4. PICK x \in Coming(t) : x.n = chat[t].in + 1
        BY <1>1, <3>3 DEF MissesNone
      <3>. QED  BY <3>2, <3>4
    <2>. QED  BY <1>1, <2>2 DEF Awaited, Whole
  <1>. DEFINE t == Other(s)
              I == Awaited(s)
              J == Awaited(t)
              q == posted[s]
              p == posted[t]
              w == Whole(s)
              v == Whole(t)
  <1>3. I = {} /\ J = {} /\ q = <<>> /\ p = <<>> /\ w /\ v
    BY <1>1, <1>2, OtherSide
  <1>4. Link(chat[s], chat[t], I, J, q, p, HeldNew(holes[s]), HeldNew(holes[t]),
             HeldOld(holes[s]), HeldOld(holes[t]), w, v)
    BY <1>1 DEF LinkedAt
  <1>. HIDE DEF I, J, q, p, w, v
  <1>5. \A a : ~Comes(I, q, a) /\ ~Comes(J, q, a) /\ ~Comes(I, p, a) /\ ~Comes(J, p, a)
    BY <1>3 DEF Comes
  <1>6. Idle(chat[s], chat[t], I, J, q, p) \/ Idle(chat[t], chat[s], J, I, p, q)
    BY <1>3, <1>4, <1>5 DEF Link, Between, Asked, BothAsked, Accepted, Committed, Switching
  <1>. QED  BY <1>6 DEF Idle

(* When everything has arrived, both sides of the chat that works have the *)
(* same key and no exchange is half done, after any number of exchanges.   *)
(* That holds when a message of each side was processed before the first   *)
(* exchange, as in the runs.                                               *)
THEOREM AlwaysKeysSettle ==
  ASSUME Started = 1
  PROVE  MCFairSpec => []KeysSettle
  <1>. DEFINE MCInv == ~faulty => ChatInv
  <1>1. MCInit => MCInv
    BY InitChatInv DEF MCInit
  <1>2. MCInv /\ [MCNext]_MCvars => MCInv'
    <2>. SUFFICES ASSUME MCInv, [MCNext]_MCvars, ~faulty' PROVE ChatInv'
      OBVIOUS
    <2>1. ~faulty /\ [Next]_vars
      BY DEF MCNext, FaultyStep, UsualStep, MCvars
    <2>. QED  BY <2>1, ChatInvStays
  <1>3. MCInv => KeysSettle
    BY QuietAgrees DEF KeysSettle
  <1>. QED  BY <1>1, <1>2, <1>3, PTL DEF MCFairSpec

=============================================================================
