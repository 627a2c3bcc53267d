----------------------- MODULE ConnectionsOrderProofs -----------------------
(***************************************************************************)
(* The order of the messages of the RPC layer, for all requests and        *)
(* datacenters and any number of events: messages are sent on in the order *)
(* in which they were given.                                               *)
(*                                                                         *)
(* The invariant, LineInv, holds what the lists, the packets and the       *)
(* servers have to know of each other for that.  An id belongs to one      *)
(* request; the lists keep the order of the requests, and so do the ids of *)
(* those that run; and whatever was given between a message that is on its *)
(* way, or at a server, and the one that it follows is over: sent on, or   *)
(* one that InOrder leaves out.                                            *)
(***************************************************************************)
EXTENDS ConnectionsProofs

-----------------------------------------------------------------------------
(* The order of the messages.  What follows holds in every state, those in *)
(* which a move has ended twice included.                                  *)

(* The place of r in a list of requests.                                   *)
Rank(l, r) == CHOOSE p \in DOMAIN l : l[p] = r

(* The requests of the caller's stand in l as they stand in perf.          *)
Rising(perf, l) ==
    \A i, j \in DOMAIN l :
        i < j /\ l[i] \in Requests /\ l[j] \in Requests => Rank(perf, l[i]) < Rank(perf, l[j])

(* What r has to be before a later request may go past it.                 *)
Over(s, ex, r) == r \in s.delayed \/ r \in Rpc!ToSet(ex)

(* On the way to a server, or there, is a message under the id i for the   *)
(* request r that comes after the message a.                               *)
Asks(up, kn, i, r, a) ==
    \E d \in Dcs :
        \/ \E p \in Rpc!ToSet(up[d]) : \E n \in DOMAIN p.messages :
              p.messages[n].mid = i /\ p.messages[n].req = r /\ p.messages[n].after = a
        \/ \E k \in kn[d] : k.mid = i /\ k.req = r /\ k.after = a

(* The id i was given to r and to nothing else.                            *)
Owner(s, kn, i, r) ==
    /\ i \in Nat /\ i # 0 /\ i <= s.mid
    /\ \A q, a : Asks(s.up, kn, i, q, a) => q = r
    /\ \A q \in DOMAIN s.req : s.req[q].mid = i => q = r

LineTyped(s) ==
    /\ s.queue \in Seq(Names) /\ s.running \in Seq(Names)
    /\ DOMAIN s.req \subseteq Names /\ s.req \in [DOMAIN s.req -> Waiting]
    /\ s.mid \in Nat /\ s.linked \subseteq Dcs
    /\ DOMAIN s.up = Dcs /\ \A d \in Dcs : Packed(s.up[d])
    /\ s.performed \in Seq(Requests) /\ s.completing \in Seq(Nat)

(* The requests of the caller's run and wait in their order, those that    *)
(* run before those that wait for the first time.                          *)
InLists(s) ==
    /\ \A i, j \in DOMAIN s.performed : s.performed[i] = s.performed[j] => i = j
    /\ Rpc!ToSet(s.running) \subseteq DOMAIN s.req /\ Rpc!ToSet(s.queue) \subseteq DOMAIN s.req
    /\ \A r \in Rpc!ToSet(s.running) : Rpc!NeedsAnswer(r)
    /\ \A r \in DOMAIN s.req \cap Requests : r \in Rpc!ToSet(s.performed) /\ s.req[r].dc = None
    /\ Rising(s.performed, s.running) /\ Rising(s.performed, s.queue)
    /\ \A r \in Rpc!ToSet(s.running) \cap Requests, q \in Rpc!ToSet(s.queue) \cap Requests :
          Rank(s.performed, r) < Rank(s.performed, q)
    /\ \A q \in Rpc!ToSet(s.queue) \cap Requests : s.req[q].mid = 0

(* What is in neither list is over.                                        *)
Present(s, ex) ==
    \A r \in Rpc!ToSet(s.performed) :
        r \in Rpc!ToSet(s.queue) \/ r \in Rpc!ToSet(s.running) \/ Over(s, ex, r)

(* Every id has one owner.                                                 *)
Ids(s, kn) ==
    /\ \A r \in DOMAIN s.req : s.req[r].mid # 0 => Owner(s, kn, s.req[r].mid, r)
    /\ \A i, r, a : Asks(s.up, kn, i, r, a) => Owner(s, kn, i, r)

(* The ids by which rpcCompleted looks for requests, C among them, are     *)
(* those of requests that are over.                                        *)
Finished(s, ex, C) ==
    \A i \in Rpc!ToSet(s.completing) \cup C :
        /\ i \in Nat /\ i # 0 /\ i <= s.mid
        /\ \A r \in DOMAIN s.req \cap Requests : s.req[r].mid = i => Over(s, ex, r)

(* The ids of the requests that run rise.                                  *)
Increasing(s) ==
    \A r, q \in Rpc!ToSet(s.running) \cap Requests :
        Rank(s.performed, r) < Rank(s.performed, q) /\ q \notin s.delayed /\ s.req[r].mid # 0 /\ s.req[q].mid # 0
          => s.req[r].mid < s.req[q].mid

(* A request that runs and has no id is sent as soon as others are.        *)
Waits(s) ==
    \A r \in Rpc!ToSet(s.running) \cap Requests :
        s.req[r].mid = 0 => r \in s.delayed \/ (s.req[r].due /\ s.req[r].on = None)

(* A message comes after one that covers it: what was given to performRpc  *)
(* between the two is over.                                                *)
Covered(s, kn, ex, r, a) ==
    LET perf == s.performed
    IN  \/ /\ a = 0
           /\ \A x \in Rpc!ToSet(perf) : Rank(perf, x) < Rank(perf, r) => Over(s, ex, x)
        \/ \E w \in Rpc!ToSet(perf) :
              /\ Owner(s, kn, a, w)
              /\ \A x \in Rpc!ToSet(perf) :
                    Rank(perf, w) < Rank(perf, x) /\ Rank(perf, x) < Rank(perf, r) => Over(s, ex, x)
Covers(s, kn, ex) ==
    \A i, a : \A r \in Requests :
        Asks(s.up, kn, i, r, a) => r \in Rpc!ToSet(s.performed) /\ Covered(s, kn, ex, r, a)

(* What the server knows as done was sent on, and so says its answer.      *)
Done(kn, ex) ==
    \A d \in Dcs : \A k \in kn[d] : k.what = "ok" /\ k.req \in Requests => k.req \in Rpc!ToSet(ex)
Told(s, dn, ex) ==
    \A d \in Dcs : \A g \in Rpc!ToSet(dn[d]) : g.kind = "result" =>
        /\ g.mid \in Nat /\ g.mid # 0 /\ g.mid <= s.mid
        /\ g.what = "ok" => \A r \in DOMAIN s.req \cap Requests : s.req[r].mid = g.mid => r \in Rpc!ToSet(ex)

(* Who was sent on was sent on once, and after the earlier ones.           *)
InTurn(s, ex) ==
    /\ ex \in Seq(Requests)
    /\ \A i, j \in DOMAIN ex : ex[i] = ex[j] => i = j
    /\ \A i \in DOMAIN ex : ex[i] \in Rpc!ToSet(s.performed)
    /\ \A i \in DOMAIN ex : \A x \in Rpc!ToSet(s.performed) :
          Rank(s.performed, x) < Rank(s.performed, ex[i])
            => x \in s.delayed \/ \E j \in DOMAIN ex : j < i /\ ex[j] = x

Line(s, kn, dn, ex, C) ==
    /\ LineTyped(s) /\ InLists(s) /\ Present(s, ex) /\ Ids(s, kn) /\ Finished(s, ex, C)
    /\ Increasing(s) /\ Waits(s) /\ Covers(s, kn, ex) /\ Done(kn, ex) /\ Told(s, dn, ex) /\ InTurn(s, ex)

-----------------------------------------------------------------------------
(* The places of the requests that were given to performRpc.               *)
LEMMA RankIs ==
    ASSUME NEW S, NEW l \in Seq(S), \A i, j \in DOMAIN l : l[i] = l[j] => i = j
    PROVE  /\ \A r \in Rpc!ToSet(l) : Rank(l, r) \in DOMAIN l /\ Rank(l, r) \in Nat /\ l[Rank(l, r)] = r
           /\ \A i \in DOMAIN l : Rank(l, l[i]) = i
           /\ \A r, q \in Rpc!ToSet(l) : Rank(l, r) = Rank(l, q) => r = q
<1>1. \A r \in Rpc!ToSet(l) : Rank(l, r) \in DOMAIN l /\ l[Rank(l, r)] = r
  <2> TAKE r \in Rpc!ToSet(l)
  <2>1. \E i \in DOMAIN l : l[i] = r
    BY DEF Rpc!ToSet
  <2> QED BY <2>1 DEF Rank
<1>2. DOMAIN l \subseteq Nat
  OBVIOUS
<1>3. \A i \in DOMAIN l : l[i] \in Rpc!ToSet(l)
  BY DEF Rpc!ToSet
<1> QED BY <1>1, <1>2, <1>3

(* k is in the first m of the list, in its order.                          *)
Embeds(k, list, m) ==
    /\ \A i \in DOMAIN k : \E a \in 1 .. m : list[a] = k[i]
    /\ \A i, j \in DOMAIN k : i < j => \E a, b \in 1 .. m : a < b /\ list[a] = k[i] /\ list[b] = k[j]

(* Kept keeps the order of a list.                                         *)
LEMMA KeptInOrder ==
    ASSUME NEW S, NEW list \in Seq(S), NEW T
    PROVE  LET k == Rpc!Kept(list, T)
           IN  \A i, j \in DOMAIN k : i < j => \E a, b \in DOMAIN list : a < b /\ list[a] = k[i] /\ list[b] = k[j]
<1> DEFINE n == Len(list)
           F == CHOOSE f : Keeping(list, T, n, f)
           Fits(m) == F[m] \in Seq(S) /\ Embeds(F[m], list, m)
           Bad == {k \in 0 .. n : ~Fits(k)}
<1>1. n \in Nat /\ DOMAIN list = 1 .. n /\ \A i \in 1 .. n : list[i] \in S
  OBVIOUS
<1>2. Keeping(list, T, n, F)
  BY <1>1, KeepingExists
<1>3. Rpc!Kept(list, T) = F[n]
  BY DEF Rpc!Kept, Keeping, KeepOne
<1> HIDE DEF F, n
<1>4. F[0] = <<>> /\ \A i \in 1 .. n : F[i] = KeepOne(F[i - 1], list, T, i)
  BY <1>1, <1>2 DEF Keeping
<1>5. Fits(0)
  BY <1>4 DEF Embeds
<1>6. \A m \in 1 .. n : Fits(m - 1) => Fits(m)
  <2> SUFFICES ASSUME NEW m \in 1 .. n, Fits(m - 1) PROVE Fits(m)
    OBVIOUS
  <2> DEFINE k == F[m - 1]
  <2>0. k \in Seq(S) /\ Embeds(k, list, m - 1)
    OBVIOUS
  <2>2. F[m] = IF list[m] \in T THEN Append(k, list[m]) ELSE k
    BY <1>4 DEF KeepOne
  <2> HIDE DEF k, Fits
  <2>1. /\ k \in Seq(S) /\ m \in Nat /\ list[m] \in S
        /\ \A i \in DOMAIN k : \E a \in 1 .. m - 1 : list[a] = k[i]
        /\ \A i, j \in DOMAIN k : i < j => \E a, b \in 1 .. m - 1 : a < b /\ list[a] = k[i] /\ list[b] = k[j]
    BY <1>1, <2>0 DEF Embeds
  <2>3. CASE list[m] \in T
    <3> DEFINE q == Append(k, list[m])
    <3>1. /\ q \in Seq(S) /\ Len(k) \in Nat /\ DOMAIN k = 1 .. Len(k) /\ DOMAIN q = 1 .. Len(k) + 1
          /\ q[Len(k) + 1] = list[m] /\ \A i \in 1 .. Len(k) : q[i] = k[i]
      BY <2>1
    <3> HIDE DEF q
    <3>2. \A i \in DOMAIN q : \E a \in 1 .. m : list[a] = q[i]
      <4> TAKE i \in DOMAIN q
      <4>1. CASE i \in DOMAIN k
        <5>1. PICK a \in 1 .. m - 1 : list[a] = k[i]
          BY <4>1, <2>1
        <5> QED BY <5>1, <4>1, <3>1, <2>1
      <4>2. CASE i = Len(k) + 1
        BY <4>2, <3>1, <2>1
      <4> QED BY <4>1, <4>2, <3>1
    <3>3. ASSUME NEW i \in DOMAIN q, NEW j \in DOMAIN q, i < j
          PROVE  \E a, b \in 1 .. m : a < b /\ list[a] = q[i] /\ list[b] = q[j]
      <4>1. i \in DOMAIN k /\ q[i] = k[i]
        BY <3>1, <3>3
      <4>2. CASE j \in DOMAIN k
        <5>1. PICK a, b \in 1 .. m - 1 : a < b /\ list[a] = k[i] /\ list[b] = k[j]
          BY <4>1, <4>2, <2>1, <3>3
        <5> QED BY <5>1, <4>1, <4>2, <3>1, <2>1
      <4>3. CASE j = Len(k) + 1
        <5>1. PICK a \in 1 .. m - 1 : list[a] = k[i]
          BY <4>1, <2>1
        <5>2. a \in 1 .. m /\ m \in 1 .. m /\ a < m /\ list[m] = q[j]
          BY <5>1, <4>3, <3>1, <2>1
        <5> QED BY <5>1, <5>2, <4>1
      <4> QED BY <4>2, <4>3, <3>1
    <3>4. F[m] = q
      BY <2>2, <2>3 DEF q
    <3>5. Embeds(q, list, m)
      BY <3>2, <3>3 DEF Embeds
    <3> QED BY <3>1, <3>4, <3>5 DEF Fits
  <2>4. CASE list[m] \notin T
    <3>1. 1 .. m - 1 \subseteq 1 .. m
      BY <2>1
    <3>2. Embeds(k, list, m)
      BY <3>1, <2>1 DEF Embeds
    <3> QED BY <3>2, <2>0, <2>2, <2>4 DEF Fits
  <2> QED BY <2>3, <2>4
<1> HIDE DEF Fits
<1>7. Bad = {}
  <2> SUFFICES ASSUME Bad # {} PROVE FALSE
    OBVIOUS
  <2>1. Bad \subseteq Nat /\ \A k \in 0 .. n : Fits(k) \/ k \in Bad
    BY <1>1
  <2>2. \A k \in Bad : k \in 0 .. n /\ ~Fits(k)
    OBVIOUS
  <2> HIDE DEF Bad
  <2>3. PICK m \in Bad : \A k \in Bad : m <= k
    BY <2>1, Least
  <2>4. m # 0 /\ m \in 0 .. n
    BY <2>2, <1>5
  <2>5. m \in 1 .. n /\ m - 1 \in 0 .. n /\ ~(m <= m - 1)
    BY <2>4, <1>1
  <2>6. Fits(m - 1)
    BY <2>1, <2>3, <2>5
  <2> QED BY <2>2, <2>5, <2>6, <1>6
<1>8. Fits(n)
  <2>1. n \in 0 .. n
    BY <1>1
  <2> QED BY <2>1, <1>7
<1>9. Embeds(Rpc!Kept(list, T), list, n)
  BY <1>3, <1>8 DEF Fits
<1> QED BY <1>1, <1>9 DEF Embeds

LEMMA KeptRises ==
    ASSUME NEW S, NEW list \in Seq(S), NEW T, NEW perf, Rising(perf, list)
    PROVE  Rising(perf, Rpc!Kept(list, T))
<1> DEFINE k == Rpc!Kept(list, T)
<1>1. \A i, j \in DOMAIN k : i < j => \E a, b \in DOMAIN list : a < b /\ list[a] = k[i] /\ list[b] = k[j]
  BY KeptInOrder
<1> HIDE DEF k
<1>2. Rising(perf, k)
  BY <1>1 DEF Rising
<1> QED BY <1>2 DEF k

(* Two lists in order, the first before the second.                        *)
LEMMA RisingJoined ==
    ASSUME NEW S, NEW k \in Seq(S), NEW l \in Seq(S), NEW perf, Rising(perf, k), Rising(perf, l),
           \A r \in Rpc!ToSet(k) \cap Requests, q \in Rpc!ToSet(l) \cap Requests : Rank(perf, r) < Rank(perf, q)
    PROVE  Rising(perf, k \o l)
<1> DEFINE a == Len(k)
           b == Len(l)
           j == k \o l
<1>1. /\ a \in Nat /\ b \in Nat /\ DOMAIN k = 1 .. a /\ DOMAIN l = 1 .. b
      /\ j \in Seq(S) /\ DOMAIN j = 1 .. a + b
      /\ \A i \in 1 .. a + b : j[i] = IF i <= a THEN k[i] ELSE l[i - a]
  OBVIOUS
<1>2. \A i \in 1 .. a : k[i] \in Rpc!ToSet(k)
  BY <1>1 DEF Rpc!ToSet
<1>3. \A i \in 1 .. b : l[i] \in Rpc!ToSet(l)
  BY <1>1 DEF Rpc!ToSet
<1> HIDE DEF a, b, j
<1>4. ASSUME NEW x \in DOMAIN j, NEW y \in DOMAIN j, x < y, j[x] \in Requests, j[y] \in Requests
      PROVE  Rank(perf, j[x]) < Rank(perf, j[y])
  <2>1. CASE y <= a
    <3>1. x \in 1 .. a /\ y \in 1 .. a /\ j[x] = k[x] /\ j[y] = k[y]
      BY <2>1, <1>1, <1>4
    <3> QED BY <3>1, <1>1, <1>4 DEF Rising
  <2>2. CASE x <= a /\ ~(y <= a)
    <3>1. x \in 1 .. a /\ y - a \in 1 .. b /\ j[x] = k[x] /\ j[y] = l[y - a]
      BY <2>2, <1>1, <1>4
    <3>2. j[x] \in Rpc!ToSet(k) \cap Requests /\ j[y] \in Rpc!ToSet(l) \cap Requests
      BY <3>1, <1>2, <1>3, <1>4
    <3> QED BY <3>2
  <2>3. CASE ~(x <= a)
    <3>1. x - a \in 1 .. b /\ y - a \in 1 .. b /\ x - a < y - a /\ j[x] = l[x - a] /\ j[y] = l[y - a]
      BY <2>3, <1>1, <1>4
    <3> QED BY <3>1, <1>1, <1>4 DEF Rising
  <2> QED BY <2>1, <2>2, <2>3, <1>1
<1> QED BY <1>4 DEF Rising, j

(* Line is about these fields.                                             *)
LineFields == {"queue", "running", "req", "mid", "linked", "up", "performed", "completing", "delayed"}

LEMMA LineStays ==
    ASSUME NEW s, NEW t, NEW kn, NEW dn, NEW ex, NEW C,
           Line(s, kn, dn, ex, C), Same(s, t, FieldNames \ LineFields)
    PROVE  Line(t, kn, dn, ex, C)
<1>1. /\ t.queue = s.queue /\ t.running = s.running /\ t.req = s.req /\ t.mid = s.mid /\ t.linked = s.linked
      /\ t.up = s.up /\ t.performed = s.performed /\ t.completing = s.completing /\ t.delayed = s.delayed
  BY DEF Same, FieldNames, LineFields
<1>2. \A r : Over(t, ex, r) = Over(s, ex, r)
  BY <1>1 DEF Over
<1>3. \A i, r : Owner(t, kn, i, r) = Owner(s, kn, i, r)
  BY <1>1 DEF Owner
<1>4. LineTyped(t) /\ InLists(t) /\ Increasing(t) /\ Waits(t) /\ Told(t, dn, ex) /\ InTurn(t, ex)
  BY <1>1 DEF Line, LineTyped, InLists, Increasing, Waits, Told, InTurn
<1>5. Present(t, ex) /\ Finished(t, ex, C)
  BY <1>1, <1>2 DEF Line, Present, Finished
<1>6. Ids(t, kn)
  BY <1>1, <1>3 DEF Line, Ids
<1>7. \A r, a : Covered(t, kn, ex, r, a) = Covered(s, kn, ex, r, a)
  BY <1>1, <1>2, <1>3 DEF Covered
<1>8. Covers(t, kn, ex)
  BY <1>1, <1>7 DEF Line, Covers
<1> QED BY <1>4, <1>5, <1>6, <1>8 DEF Line

(* t has what s has, or less: requests are gone or have no id any more,    *)
(* and messages and answers are gone.                                      *)
Shrinks(s, t, ex) ==
    /\ LineTyped(t)
    /\ t.performed = s.performed /\ s.delayed \subseteq t.delayed /\ s.mid <= t.mid
    /\ Rpc!ToSet(t.running) \subseteq DOMAIN t.req /\ Rpc!ToSet(t.queue) \subseteq DOMAIN t.req
    /\ Rising(s.performed, t.running) /\ Rising(s.performed, t.queue)
    /\ Rpc!ToSet(t.running) \subseteq Rpc!ToSet(s.running)
    /\ Rpc!ToSet(t.queue) \cap Requests \subseteq Rpc!ToSet(s.queue)
    /\ \A r \in DOMAIN t.req : t.req[r].mid = 0 \/ (r \in DOMAIN s.req /\ t.req[r].mid = s.req[r].mid)
    /\ \A r \in DOMAIN t.req \cap Requests : r \in DOMAIN s.req /\ t.req[r].dc = s.req[r].dc
    /\ \A r \in Requests : r \in Rpc!ToSet(s.running) \/ r \in Rpc!ToSet(s.queue) =>
          r \in Rpc!ToSet(t.running) \/ r \in Rpc!ToSet(t.queue) \/ Over(t, ex, r)
    /\ \A r \in Rpc!ToSet(t.running) \cap Requests : t.req[r].mid = 0 =>
          \/ r \in t.delayed
          \/ t.req[r].due /\ t.req[r].on = None
          \/ s.req[r].mid = 0 /\ (s.req[r].due /\ s.req[r].on = None => t.req[r].due /\ t.req[r].on = None)

Fewer(s, kn, dn, ex, C, t, kn1, dn1, C1) ==
    /\ \A i, r, a : Asks(t.up, kn1, i, r, a) => Asks(s.up, kn, i, r, a)
    /\ Rpc!ToSet(t.completing) \cup C1 \subseteq Rpc!ToSet(s.completing) \cup C
    /\ Done(kn1, ex)
    /\ \A d \in Dcs : \A g \in Rpc!ToSet(dn1[d]) : g.kind = "result" =>
          \/ g \in Rpc!ToSet(dn[d])
          \/ \E r, a : Asks(s.up, kn, g.mid, r, a) /\ (g.what = "ok" /\ r \in Requests => r \in Rpc!ToSet(ex))

LEMMA LineLess ==
    ASSUME NEW s, NEW t, NEW kn, NEW dn, NEW kn1, NEW dn1, NEW ex, NEW C, NEW C1,
           Line(s, kn, dn, ex, C), Shrinks(s, t, ex), Fewer(s, kn, dn, ex, C, t, kn1, dn1, C1)
    PROVE  Line(t, kn1, dn1, ex, C1)
<1>1. /\ LineTyped(t) /\ t.performed = s.performed /\ s.delayed \subseteq t.delayed /\ s.mid <= t.mid
      /\ s.mid \in Nat /\ t.mid \in Nat
  BY DEF Shrinks, Line, LineTyped
<1>2. \A r : Over(s, ex, r) => Over(t, ex, r)
  BY <1>1 DEF Over
<1>3. \A r \in DOMAIN t.req : t.req[r].mid = 0 \/ (r \in DOMAIN s.req /\ t.req[r].mid = s.req[r].mid)
  BY DEF Shrinks
<1>4. \A i, r, a : Asks(t.up, kn1, i, r, a) => Asks(s.up, kn, i, r, a)
  BY DEF Fewer
<1>5. ASSUME NEW i, NEW r, Owner(s, kn, i, r) PROVE Owner(t, kn1, i, r)
  <2>1. i \in Nat /\ i # 0 /\ i <= t.mid
    BY <1>1, <1>5 DEF Owner
  <2>2. \A q, a : Asks(t.up, kn1, i, q, a) => q = r
    BY <1>4, <1>5 DEF Owner
  <2>3. \A q \in DOMAIN t.req : t.req[q].mid = i => q = r
    BY <1>3, <1>5, <2>1 DEF Owner
  <2> QED BY <2>1, <2>2, <2>3 DEF Owner
<1>6. InLists(t)
  <2>1. \A r \in Rpc!ToSet(t.running) : Rpc!NeedsAnswer(r)
    BY DEF Line, Shrinks, InLists
  <2>2. \A r \in DOMAIN t.req \cap Requests : r \in Rpc!ToSet(t.performed) /\ t.req[r].dc = None
    BY <1>1 DEF Line, Shrinks, InLists
  <2>3. \A r \in Rpc!ToSet(t.running) \cap Requests, q \in Rpc!ToSet(t.queue) \cap Requests :
          Rank(t.performed, r) < Rank(t.performed, q)
    BY <1>1 DEF Line, Shrinks, InLists
  <2>4. \A q \in Rpc!ToSet(t.queue) \cap Requests : t.req[q].mid = 0
    BY <1>3 DEF Line, Shrinks, InLists
  <2> QED BY <1>1, <2>1, <2>2, <2>3, <2>4 DEF Line, Shrinks, InLists
<1>7. Present(t, ex)
  <2>1. Rpc!ToSet(s.performed) \subseteq Requests
    BY DEF Line, LineTyped, Rpc!ToSet
  <2> QED BY <1>1, <1>2, <2>1 DEF Line, Present, Shrinks
<1>8. Ids(t, kn1)
  <2>1. \A r \in DOMAIN t.req : t.req[r].mid # 0 => Owner(t, kn1, t.req[r].mid, r)
    BY <1>3, <1>5 DEF Line, Ids
  <2>2. \A i, r, a : Asks(t.up, kn1, i, r, a) => Owner(t, kn1, i, r)
    BY <1>4, <1>5 DEF Line, Ids
  <2> QED BY <2>1, <2>2 DEF Ids
<1>9. Finished(t, ex, C1)
  <2> SUFFICES ASSUME NEW i \in Rpc!ToSet(t.completing) \cup C1
               PROVE  /\ i \in Nat /\ i # 0 /\ i <= t.mid
                      /\ \A r \in DOMAIN t.req \cap Requests : t.req[r].mid = i => Over(t, ex, r)
    BY DEF Finished
  <2>1. i \in Rpc!ToSet(s.completing) \cup C
    BY DEF Fewer
  <2>2. /\ i \in Nat /\ i # 0 /\ i <= s.mid
        /\ \A r \in DOMAIN s.req \cap Requests : s.req[r].mid = i => Over(s, ex, r)
    BY <2>1 DEF Line, Finished
  <2> QED BY <1>1, <1>2, <1>3, <2>2
<1>10. Increasing(t)
  <2> SUFFICES ASSUME NEW r \in Rpc!ToSet(t.running) \cap Requests, NEW q \in Rpc!ToSet(t.running) \cap Requests,
                      Rank(t.performed, r) < Rank(t.performed, q), q \notin t.delayed,
                      t.req[r].mid # 0, t.req[q].mid # 0
               PROVE  t.req[r].mid < t.req[q].mid
    BY DEF Increasing
  <2>1. r \in Rpc!ToSet(s.running) \cap Requests /\ q \in Rpc!ToSet(s.running) \cap Requests
        /\ r \in DOMAIN t.req /\ q \in DOMAIN t.req
    BY DEF Shrinks
  <2>2. t.req[r].mid = s.req[r].mid /\ t.req[q].mid = s.req[q].mid
    BY <1>3, <2>1
  <2> QED BY <1>1, <2>1, <2>2 DEF Line, Increasing
<1>11. Waits(t)
  BY <1>1 DEF Line, Waits, Shrinks
<1>12. Covers(t, kn1, ex)
  <2>1. ASSUME NEW r, NEW a, Covered(s, kn, ex, r, a) PROVE Covered(t, kn1, ex, r, a)
    BY <1>1, <1>2, <1>5, <2>1 DEF Covered
  <2> QED BY <1>1, <1>4, <2>1 DEF Line, Covers
<1>13. Done(kn1, ex)
  BY DEF Fewer
<1>14. Told(t, dn1, ex)
  <2> SUFFICES ASSUME NEW d \in Dcs, NEW g \in Rpc!ToSet(dn1[d]), g.kind = "result"
               PROVE  /\ g.mid \in Nat /\ g.mid # 0 /\ g.mid <= t.mid
                      /\ g.what = "ok" =>
                           \A r \in DOMAIN t.req \cap Requests : t.req[r].mid = g.mid => r \in Rpc!ToSet(ex)
    BY DEF Told
  <2>1. CASE g \in Rpc!ToSet(dn[d])
    <3>1. /\ g.mid \in Nat /\ g.mid # 0 /\ g.mid <= s.mid
          /\ g.what = "ok" =>
               \A r \in DOMAIN s.req \cap Requests : s.req[r].mid = g.mid => r \in Rpc!ToSet(ex)
      BY <2>1 DEF Line, Told
    <3> QED BY <1>1, <1>3, <3>1
  <2>2. CASE \E r, a : Asks(s.up, kn, g.mid, r, a) /\ (g.what = "ok" /\ r \in Requests => r \in Rpc!ToSet(ex))
    <3>1. PICK r, a : Asks(s.up, kn, g.mid, r, a) /\ (g.what = "ok" /\ r \in Requests => r \in Rpc!ToSet(ex))
      BY <2>2
    <3>2. Owner(s, kn, g.mid, r)
      BY <3>1 DEF Line, Ids
    <3>3. Owner(t, kn1, g.mid, r)
      BY <3>2, <1>5
    <3> QED BY <3>1, <3>3 DEF Owner
  <2> QED BY <2>1, <2>2 DEF Fewer
<1>15. InTurn(t, ex)
  BY <1>1 DEF Line, InTurn
<1> QED BY <1>1, <1>6, <1>7, <1>8, <1>9, <1>10, <1>11, <1>12, <1>13, <1>14, <1>15 DEF Line

(* A method of the client's sends nothing and takes nothing.               *)
LEMMA LineShrinks ==
    ASSUME NEW s, NEW t, NEW kn, NEW dn, NEW ex, NEW C,
           Line(s, kn, dn, ex, C), Shrinks(s, t, ex), t.completing = s.completing,
           \A d \in Dcs : Rpc!ToSet(t.up[d]) \subseteq Rpc!ToSet(s.up[d])
    PROVE  Line(t, kn, dn, ex, C)
<1>1. \A i, r, a : Asks(t.up, kn, i, r, a) => Asks(s.up, kn, i, r, a)
  BY DEF Asks
<1>2. Fewer(s, kn, dn, ex, C, t, kn, dn, C)
  BY <1>1 DEF Fewer, Line
<1> QED BY <1>2, LineLess

(* The lists stay, and so do the ids or they are forgotten.                *)
LEMMA LineKeeps ==
    ASSUME NEW s, NEW t, NEW kn, NEW dn, NEW ex, NEW C, NEW C1, Line(s, kn, dn, ex, C),
           Same(s, t, (FieldNames \ LineFields) \cup {"req", "up", "linked", "delayed", "completing"}),
           DOMAIN t.req = DOMAIN s.req, t.req \in [DOMAIN s.req -> Waiting],
           \A r \in DOMAIN s.req : t.req[r].dc = s.req[r].dc /\ (t.req[r].mid = 0 \/ t.req[r].mid = s.req[r].mid),
           \A r \in Rpc!ToSet(s.running) \cap Requests : t.req[r].mid = 0 =>
              \/ r \in t.delayed
              \/ t.req[r].due /\ t.req[r].on = None
              \/ s.req[r].mid = 0 /\ (s.req[r].due /\ s.req[r].on = None => t.req[r].due /\ t.req[r].on = None),
           DOMAIN t.up = Dcs, \A d \in Dcs : Packed(t.up[d]) /\ Rpc!ToSet(t.up[d]) \subseteq Rpc!ToSet(s.up[d]),
           t.linked \subseteq Dcs, s.delayed \subseteq t.delayed,
           t.completing \in Seq(Nat), Rpc!ToSet(t.completing) \cup C1 \subseteq Rpc!ToSet(s.completing) \cup C
    PROVE  Line(t, kn, dn, ex, C1)
<1>1. t.queue = s.queue /\ t.running = s.running /\ t.mid = s.mid /\ t.performed = s.performed
  BY DEF Same, FieldNames, LineFields
<1>2. LineTyped(s) /\ InLists(s) /\ Done(kn, ex)
  BY DEF Line
<1>3. LineTyped(t)
  BY <1>1, <1>2 DEF LineTyped
<1>4. Rpc!ToSet(s.running) \subseteq DOMAIN s.req /\ Rpc!ToSet(s.queue) \subseteq DOMAIN s.req
      /\ Rising(s.performed, s.running) /\ Rising(s.performed, s.queue) /\ s.mid \in Nat
  BY <1>2 DEF InLists, LineTyped
<1>5. Shrinks(s, t, ex)
  BY <1>1, <1>3, <1>4 DEF Shrinks
<1>6. \A i, r, a : Asks(t.up, kn, i, r, a) => Asks(s.up, kn, i, r, a)
  BY ZenonT(90) DEF Asks
<1>7. Fewer(s, kn, dn, ex, C, t, kn, dn, C1)
  BY <1>2, <1>6 DEF Fewer
<1> QED BY <1>5, <1>7, LineLess

(* s is all there and in order.                                            *)
Lined(s, kn, dn, ex, C) == Shape(s) /\ Line(s, kn, dn, ex, C)

LEMMA LinedStays ==
    ASSUME NEW s, NEW t, NEW kn, NEW dn, NEW ex, NEW C,
           Lined(s, kn, dn, ex, C), Shape(t), Same(s, t, FieldNames \ LineFields)
    PROVE  Lined(t, kn, dn, ex, C)
  BY LineStays DEF Lined

(* Requests are cleared.                                                   *)
LEMMA LineClears ==
    ASSUME NEW s, NEW S, NEW kn, NEW dn, NEW ex, NEW C,
           Lined(s, kn, dn, ex, C), S \subseteq Rpc!ToSet(s.running)
    PROVE  Lined(Rpc!ClearRequests(s, S), kn, dn, ex, C)
<1> DEFINE t == Rpc!ClearRequests(s, S)
<1>1. Shape(t) /\ Same(s, t, {"req", "revived", "spoiled"}) /\ t.req = Cleared(s.req, S)
  BY ClearRequestsIs DEF Lined
<1> HIDE DEF t
<1>2. Line(s, kn, dn, ex, C) /\ LineTyped(s) /\ InLists(s)
  BY DEF Lined, Line
<1>3. S \subseteq DOMAIN s.req /\ \A r \in DOMAIN s.req : s.req[r] \in Waiting
  BY <1>2 DEF InLists, LineTyped
<1>4. /\ DOMAIN t.req = DOMAIN s.req /\ t.req = [r \in DOMAIN t.req |-> t.req[r]]
      /\ \A r \in DOMAIN s.req : t.req[r] = IF r \in S THEN Forgotten(s.req[r]) ELSE s.req[r]
  BY <1>1, <1>3 DEF Cleared
<1>5. \A r \in S : /\ t.req[r] \in Waiting /\ t.req[r].mid = 0 /\ t.req[r].dc = s.req[r].dc
                   /\ t.req[r].due /\ t.req[r].on = None
  <2> TAKE r \in S
  <2>1. t.req[r] = Forgotten(s.req[r]) /\ s.req[r] \in Waiting
    BY <1>3, <1>4
  <2>2. Forgotten(s.req[r]).due /\ Forgotten(s.req[r]).on = None
    BY <2>1 DEF Waiting, Forgotten
  <2> QED BY <2>1, <2>2, ForgottenIs
<1>6. \A r \in DOMAIN s.req \ S : t.req[r] = s.req[r]
  BY <1>4
<1>7. t.req \in [DOMAIN s.req -> Waiting]
  BY <1>3, <1>4, <1>5, <1>6
<1>8. t.up = s.up /\ t.linked = s.linked /\ t.delayed = s.delayed /\ t.completing = s.completing
  BY <1>1 DEF Same, FieldNames
<1>9. DOMAIN t.up = Dcs /\ t.linked \subseteq Dcs /\ t.completing \in Seq(Nat) /\ \A d \in Dcs : Packed(t.up[d])
  BY <1>2, <1>8 DEF LineTyped
<1>10. Same(s, t, (FieldNames \ LineFields) \cup {"req", "up", "linked", "delayed", "completing"})
  BY <1>1 DEF Same, FieldNames, LineFields
<1>11. \A r \in DOMAIN s.req : t.req[r].dc = s.req[r].dc /\ (t.req[r].mid = 0 \/ t.req[r].mid = s.req[r].mid)
  BY <1>5, <1>6
<1>12. \A r \in Rpc!ToSet(s.running) \cap Requests : t.req[r].mid = 0 =>
              \/ t.req[r].due /\ t.req[r].on = None
              \/ s.req[r].mid = 0 /\ (s.req[r].due /\ s.req[r].on = None => t.req[r].due /\ t.req[r].on = None)
  BY <1>2, <1>5, <1>6 DEF InLists
<1>13. Line(t, kn, dn, ex, C)
  BY <1>2, <1>4, <1>7, <1>8, <1>9, <1>10, <1>11, <1>12, LineKeeps
<1> QED BY <1>1, <1>13 DEF Lined, t

LEMMA LineClearsDatacenter ==
    ASSUME NEW s, NEW d, NEW kn, NEW dn, NEW ex, NEW C, Lined(s, kn, dn, ex, C)
    PROVE  Lined(Rpc!ClearRequestsForDatacenter(s, d), kn, dn, ex, C)
<1>1. Rpc!RunningIn(s, d) \subseteq Rpc!ToSet(s.running)
  BY DEF Rpc!RunningIn
<1> QED BY <1>1, LineClears DEF Rpc!ClearRequestsForDatacenter

(* recreateSession, and performRpc from within.                            *)
LEMMA LineRecreates ==
    ASSUME NEW s, NEW d, NEW kn, NEW dn, NEW ex, NEW C, Lined(s, kn, dn, ex, C)
    PROVE  Lined(Rpc!RecreateSessions(s, d), kn, dn, ex, C)
<1>1. Shape(Rpc!RecreateSessions(s, d)) /\ Same(s, Rpc!RecreateSessions(s, d), {"session", "processed"})
  BY RecreateSessionsIs DEF Lined
<1>2. Same(s, Rpc!RecreateSessions(s, d), FieldNames \ LineFields)
  BY <1>1 DEF Same, FieldNames, LineFields
<1> QED BY <1>1, <1>2, LinedStays

LEMMA LinePerforms ==
    ASSUME NEW s, NEW kind, NEW about, NEW to, NEW kn, NEW dn, NEW ex, NEW C, Lined(s, kn, dn, ex, C)
    PROVE  Lined(Rpc!PerformRpc(s, kind, about, to), kn, dn, ex, C)
<1>1. Shape(Rpc!PerformRpc(s, kind, about, to)) /\ Same(s, Rpc!PerformRpc(s, kind, about, to), {"posted", "made"})
  BY PerformRpcIs DEF Lined
<1>2. Same(s, Rpc!PerformRpc(s, kind, about, to), FieldNames \ LineFields)
  BY <1>1 DEF Same, FieldNames, LineFields
<1> QED BY <1>1, <1>2, LinedStays

LEMMA LineHandshakes ==
    ASSUME NEW s, NEW d, NEW kn, NEW dn, NEW ex, NEW C, Lined(s, kn, dn, ex, C)
    PROVE  Lined(Rpc!Handshake(s, d), kn, dn, ex, C)
<1>1. Shape(Rpc!Handshake(s, d)) /\ Same(s, Rpc!Handshake(s, d), {"handshakes", "wanted"})
  BY HandshakeIs DEF Lined
<1>2. Same(s, Rpc!Handshake(s, d), FieldNames \ LineFields)
  BY <1>1 DEF Same, FieldNames, LineFields
<1> QED BY <1>1, <1>2, LinedStays

(* A connection is closed.                                                 *)
LEMMA LineUnlinks ==
    ASSUME NEW s, NEW d, NEW kn, NEW dn, NEW ex, NEW C, Lined(s, kn, dn, ex, C)
    PROVE  Lined(Rpc!Unlink(s, d), kn, dn, ex, C)
<1> DEFINE t == Rpc!Unlink(s, d)
<1>1. /\ Shape(t) /\ Grows(s, t) /\ Same(s, t, {"linked", "up", "req"})
      /\ t.up = [s.up EXCEPT ![d] = <<>>] /\ t.req = Unlinked(s.req, d)
  BY UnlinkIs DEF Lined
<1> HIDE DEF t
<1>2. Line(s, kn, dn, ex, C) /\ LineTyped(s)
  BY DEF Lined, Line
<1>3. DOMAIN s.up = Dcs /\ s.linked \subseteq Dcs /\ s.completing \in Seq(Nat)
      /\ (\A e \in Dcs : Packed(s.up[e])) /\ s.req \in [DOMAIN s.req -> Waiting]
  BY <1>2 DEF LineTyped
<1>4. DOMAIN t.up = Dcs /\ \A e \in Dcs : t.up[e] = IF e = d THEN <<>> ELSE s.up[e]
  BY <1>1, <1>3
<1>5. \A e \in Dcs : Packed(t.up[e]) /\ Rpc!ToSet(t.up[e]) \subseteq Rpc!ToSet(s.up[e])
  BY <1>3, <1>4, OneListed DEF Packed
<1>6. DOMAIN t.req = DOMAIN s.req /\ t.req = [r \in DOMAIN s.req |-> t.req[r]]
  BY <1>1 DEF Unlinked
<1>7. ASSUME NEW r \in DOMAIN s.req
      PROVE  /\ t.req[r] \in Waiting /\ t.req[r].mid = s.req[r].mid /\ t.req[r].dc = s.req[r].dc
             /\ t.req[r].due = s.req[r].due /\ (s.req[r].on = None => t.req[r].on = None)
  <2> DEFINE q == s.req[r]
             e == IF q.on = d THEN None ELSE q.on
  <2>1. t.req[r] = [q EXCEPT !.on = e]
    BY <1>1, <1>7 DEF Unlinked
  <2>2. q \in Waiting
    BY <1>3, <1>7
  <2>3. e \in Dcs \cup {None} /\ (q.on = None => e = None)
    BY <2>2 DEF Waiting
  <2> HIDE DEF q, e
  <2>4. [q EXCEPT !.on = e] \in Waiting
    BY <2>2, <2>3 DEF Waiting
  <2>5. /\ [q EXCEPT !.on = e].mid = q.mid /\ [q EXCEPT !.on = e].dc = q.dc
        /\ [q EXCEPT !.on = e].due = q.due /\ [q EXCEPT !.on = e].on = e
    BY <2>2 DEF Waiting
  <2> QED BY <2>1, <2>3, <2>4, <2>5 DEF q
<1>8. t.req \in [DOMAIN s.req -> Waiting]
  BY <1>6, <1>7
<1>9. /\ t.linked \subseteq Dcs /\ t.delayed = s.delayed /\ t.completing = s.completing /\ t.running = s.running
  BY <1>1, <1>3 DEF Same, FieldNames, Grows
<1>10. Same(s, t, (FieldNames \ LineFields) \cup {"req", "up", "linked", "delayed", "completing"})
  BY <1>1 DEF Same, FieldNames, LineFields
<1>11. Rpc!ToSet(s.running) \subseteq DOMAIN s.req
  BY <1>2 DEF Line, InLists
<1>12. \A r \in Rpc!ToSet(s.running) \cap Requests : t.req[r].mid = 0 =>
              s.req[r].mid = 0 /\ (s.req[r].due /\ s.req[r].on = None => t.req[r].due /\ t.req[r].on = None)
  BY <1>7, <1>11
<1>13. \A r \in DOMAIN s.req : t.req[r].dc = s.req[r].dc /\ (t.req[r].mid = 0 \/ t.req[r].mid = s.req[r].mid)
  BY <1>7
<1>14. Line(t, kn, dn, ex, C)
  BY <1>2, <1>3, <1>4, <1>5, <1>6, <1>8, <1>9, <1>10, <1>12, <1>13, LineKeeps
<1> QED BY <1>1, <1>14 DEF Lined, t

(* A bounded set of numbers has a largest one, and that is Max.            *)
LEMMA Largest ==
    ASSUME NEW n \in Nat, NEW S, S \subseteq 0 .. n, S # {}
    PROVE  Rpc!Max(S) \in S /\ \A k \in S : k <= Rpc!Max(S)
<1> DEFINE D == {n - k : k \in S}
<1>1. D \subseteq Nat /\ D # {}
  <2>1. \A k \in S : k \in 0 .. n
    OBVIOUS
  <2>2. \A k \in 0 .. n : n - k \in Nat
    OBVIOUS
  <2>3. PICK k \in S : TRUE
    OBVIOUS
  <2>4. n - k \in D
    OBVIOUS
  <2> QED BY <2>1, <2>2, <2>4
<1>2. PICK m \in D : \A k \in D : m <= k
  BY <1>1, Least
<1>3. PICK x \in S : m = n - x
  BY <1>2
<1>4. \A k \in S : x >= k
  <2> TAKE k \in S
  <2>1. m <= n - k
    BY <1>2
  <2> QED BY <2>1, <1>3
<1>5. Rpc!Max(S) \in S /\ \A k \in S : Rpc!Max(S) >= k
  BY <1>4 DEF Rpc!Max
<1> QED BY <1>5

(* What is sent again, and what is started, is in order.                   *)
LEMMA ResentRises ==
    ASSUME NEW s, NEW forced, NEW d, NEW perf, s.running \in Seq(Names), Rising(perf, s.running)
    PROVE  /\ Rising(perf, Rpc!Resent(s, forced, d))
           /\ \A r \in Rpc!ToSet(s.running) :
                 Rpc!Sendable(s, r) /\ s.req[r].due /\ s.req[r].on # Rpc!Dc(s, r)
                   => r \in Rpc!ToSet(Rpc!Resent(s, forced, d))
<1> DEFINE T == {r \in Rpc!ToSet(s.running) :
                   /\ Rpc!Sendable(s, r)
                   /\ \/ forced /\ Rpc!Dc(s, r) = d
                      \/ s.req[r].due /\ s.req[r].on # Rpc!Dc(s, r)}
<1>1. Rpc!Resent(s, forced, d) = Rpc!Kept(s.running, T)
  BY DEF Rpc!Resent
<1>2. \A r \in Rpc!ToSet(s.running) :
          Rpc!Sendable(s, r) /\ s.req[r].due /\ s.req[r].on # Rpc!Dc(s, r) => r \in T
  OBVIOUS
<1> HIDE DEF T
<1>3. Rising(perf, Rpc!Kept(s.running, T)) /\ Rpc!ToSet(Rpc!Kept(s.running, T)) = Rpc!ToSet(s.running) \cap T
  BY KeptRises, KeptOf
<1> QED BY <1>1, <1>2, <1>3

(* How many of the first x of a list need an answer.                       *)
LEMMA CountedRises ==
    ASSUME NEW S, NEW l \in Seq(S), NEW x \in DOMAIN l, NEW y \in DOMAIN l, x < y
    PROVE  /\ Rpc!Counted(SubSeq(l, 1, x)) \in Nat /\ Rpc!Counted(SubSeq(l, 1, y)) \in Nat
           /\ Rpc!Counted(SubSeq(l, 1, x)) <= Rpc!Counted(SubSeq(l, 1, y))
<1> DEFINE T(i) == {j \in 1 .. i : Rpc!NeedsAnswer(l[j])}
<1>1. ASSUME NEW i \in DOMAIN l PROVE Rpc!Counted(SubSeq(l, 1, i)) = Cardinality(T(i)) /\ IsFiniteSet(T(i))
  <2> DEFINE k == SubSeq(l, 1, i)
  <2>1. i \in Nat /\ DOMAIN k = 1 .. i /\ \A j \in 1 .. i : k[j] = l[j]
    OBVIOUS
  <2> HIDE DEF k
  <2>2. {j \in DOMAIN k : Rpc!NeedsAnswer(k[j])} = T(i)
    BY <2>1
  <2>3. IsFiniteSet(1 .. i) /\ T(i) \subseteq 1 .. i
    BY <2>1, FS_Interval
  <2> HIDE DEF T
  <2>4. Rpc!Counted(k) = Cardinality(T(i))
    BY <2>2, RpcOperators DEF Rpc!Counted
  <2> QED BY <2>3, <2>4, FS_Subset DEF k
<1>2. T(x) \subseteq T(y)
  OBVIOUS
<1> HIDE DEF T
<1>3. Cardinality(T(x)) <= Cardinality(T(y)) /\ Cardinality(T(x)) \in Nat /\ Cardinality(T(y)) \in Nat
  BY <1>1, <1>2, FS_Subset, FS_CardinalityType
<1> QED BY <1>1, <1>3

(* Of the requests that may be sent, the first ones are started.           *)
LEMMA StartedRises ==
    ASSUME NEW s, NEW perf, s.queue \in Seq(Names), s.running \in Seq(Names), Rising(perf, s.queue),
           \A r \in Rpc!ToSet(s.queue) \cap Requests : s.req[r].dc = None /\ Rank(perf, r) \in Nat,
           \A r, q \in Rpc!ToSet(s.queue) \cap Requests : Rank(perf, r) = Rank(perf, q) => r = q
    PROVE  /\ Rising(perf, Rpc!Started(s))
           /\ \A q \in Rpc!ToSet(Rpc!Started(s)) \cap Requests, x \in Rpc!ToSet(s.queue) \cap Requests :
                 Rank(perf, x) < Rank(perf, q) => x \in Rpc!ToSet(Rpc!Started(s))
<1> DEFINE T == {r \in Rpc!ToSet(s.queue) : Rpc!Sendable(s, r)}
           able == Rpc!Kept(s.queue, T)
           At(l, r) == CHOOSE i \in DOMAIN l : l[i] = r
           Place(l, r) == Rpc!Counted(SubSeq(l, 1, CHOOSE i \in DOMAIN l : l[i] = r))
           U(l) == {r \in Rpc!ToSet(l) :
                      Rpc!NeedsAnswer(r) => Rpc!Counted(s.running) + Place(l, r) <= MaxGeneric}
<1>1. Rpc!Started(s) = Rpc!Kept(able, U(able))
  BY DEF Rpc!Started, Rpc!Then
<1>2. \A r, q \in Rpc!ToSet(s.queue) \cap Requests : r \in T => q \in T
  BY DEF Rpc!Sendable, Rpc!MayUse, Rpc!Authorized, Rpc!Held, Rpc!Dc
<1>3. \A l, r : Place(l, r) = Rpc!Counted(SubSeq(l, 1, At(l, r)))
  OBVIOUS
<1> HIDE DEF T, Place
<1>4. able \in Seq(Names) /\ Rpc!ToSet(able) = Rpc!ToSet(s.queue) \cap T /\ Rising(perf, able)
  BY KeptOf, KeptRises
<1> HIDE DEF able
<1>5. \A r \in Rpc!ToSet(able) : At(able, r) \in DOMAIN able /\ able[At(able, r)] = r
  <2> TAKE r \in Rpc!ToSet(able)
  <2>1. \E i \in DOMAIN able : able[i] = r
    BY DEF Rpc!ToSet
  <2> QED BY <2>1
<1> HIDE DEF At
<1>6. \A r \in U(able) : Rpc!NeedsAnswer(r) => Rpc!Counted(s.running) + Place(able, r) <= MaxGeneric
  OBVIOUS
<1>7. \A r \in Rpc!ToSet(able) : Rpc!Counted(s.running) + Place(able, r) <= MaxGeneric => r \in U(able)
  OBVIOUS
<1> HIDE DEF U
<1>8. /\ Rising(perf, Rpc!Kept(able, U(able)))
      /\ Rpc!ToSet(Rpc!Kept(able, U(able))) = Rpc!ToSet(able) \cap U(able)
  BY <1>4, KeptOf, KeptRises
<1>9. Rpc!Counted(s.running) \in Nat
  <2> DEFINE R == {i \in DOMAIN s.running : Rpc!NeedsAnswer(s.running[i])}
  <2>1. Len(s.running) \in Nat /\ DOMAIN s.running = 1 .. Len(s.running)
    OBVIOUS
  <2>2. IsFiniteSet(1 .. Len(s.running)) /\ R \subseteq 1 .. Len(s.running)
    BY <2>1, FS_Interval
  <2>3. Rpc!Counted(s.running) = Cardinality(R)
    BY RpcOperators DEF Rpc!Counted
  <2> HIDE DEF R
  <2> QED BY <2>2, <2>3, FS_Subset, FS_CardinalityType
<1>10. ASSUME NEW q \in Rpc!ToSet(able) \cap U(able) \cap Requests, NEW x \in Rpc!ToSet(s.queue) \cap Requests,
              Rank(perf, x) < Rank(perf, q)
       PROVE  x \in Rpc!ToSet(able) \cap U(able)
  <2>1. q \in Rpc!ToSet(s.queue) \cap Requests /\ q \in T
    BY <1>4
  <2>2. x \in Rpc!ToSet(able)
    BY <2>1, <1>2, <1>4
  <2> DEFINE i == At(able, x)
             j == At(able, q)
  <2>3. i \in DOMAIN able /\ j \in DOMAIN able /\ able[i] = x /\ able[j] = q
    BY <2>2, <1>5
  <2>4. i \in Nat /\ j \in Nat
    BY <2>3, <1>4
  <2> HIDE DEF i, j
  <2>5. Rank(perf, x) \in Nat /\ Rank(perf, q) \in Nat
    BY <2>1
  <2>6. ~(j < i)
    BY <2>3, <2>5, <1>4, <1>10 DEF Rising
  <2>7. i # j
    BY <2>3, <2>5, <1>10
  <2>8. i < j
    BY <2>4, <2>6, <2>7
  <2>9. /\ Place(able, x) \in Nat /\ Place(able, q) \in Nat /\ Place(able, x) <= Place(able, q)
    BY <2>3, <2>8, <1>3, <1>4, CountedRises DEF i, j
  <2>10. Rpc!Counted(s.running) + Place(able, q) <= MaxGeneric
    BY <1>6 DEF Rpc!NeedsAnswer, Rpc!Kind
  <2>11. MaxGeneric \in Nat
    BY RpcAssumption DEF Rpc!RequestsAssumption
  <2>12. Rpc!Counted(s.running) + Place(able, x) <= MaxGeneric
    BY <2>9, <2>10, <2>11, <1>9
  <2> QED BY <2>2, <2>12, <1>7
<1> QED BY <1>1, <1>8, <1>10

(* What processRequestQueue picks to send: all that wait in a list before  *)
(* what it picks of it.                                                    *)
Picked(s, resent, started) ==
    LET perf == s.performed
    IN  /\ resent \in Seq(Names) /\ started \in Seq(Names)
        /\ Rpc!ToSet(resent) \subseteq Rpc!ToSet(s.running) /\ Rpc!ToSet(started) \subseteq Rpc!ToSet(s.queue)
        /\ \A r \in Rpc!ToSet(resent) \cup Rpc!ToSet(started) : Rpc!Sendable(s, r)
        /\ Rising(perf, resent) /\ Rising(perf, started)
        /\ \A q \in (Rpc!ToSet(resent) \cup Rpc!ToSet(started)) \cap Requests :
           \A x \in Rpc!ToSet(s.running) \cap Requests :
              s.req[x].due /\ s.req[x].on = None => x \in Rpc!ToSet(resent)
        /\ \A q \in Rpc!ToSet(started) \cap Requests, x \in Rpc!ToSet(s.queue) \cap Requests :
              Rank(perf, x) < Rank(perf, q) => x \in Rpc!ToSet(started)

(* Who was given before one of R, which are sent, is over, or one of R, or *)
(* runs under an id; and in the last case R leaves it out and passes it,   *)
(* if another of R was given before it.                                    *)
Left(s, t, ex, R) ==
    LET perf == s.performed
    IN  /\ \A q \in R \cap Requests : q \in Rpc!ToSet(perf)
        /\ \A q \in R \cap Requests, x \in Rpc!ToSet(perf) : Rank(perf, x) < Rank(perf, q) =>
              \/ Over(t, ex, x) \/ x \in R
              \/ x \in Rpc!ToSet(s.running) \cap Requests /\ x \notin R /\ s.req[x].mid # 0
        /\ \A v, q \in R \cap Requests, x \in Rpc!ToSet(s.running) \cap Requests :
              Rank(perf, v) < Rank(perf, x) /\ Rank(perf, x) < Rank(perf, q) /\ x \notin R /\ s.req[x].mid # 0
                => x \in t.delayed
        /\ \A v \in R \cap Requests, q \in Rpc!ToSet(s.running) \cap Requests :
              Rank(perf, v) < Rank(perf, q) /\ s.req[v].mid = 0 /\ s.req[q].mid # 0
                => q \in t.delayed

LEMMA Ranks ==
    ASSUME NEW s, LineTyped(s), InLists(s)
    PROVE  /\ \A r \in Rpc!ToSet(s.performed) : Rank(s.performed, r) \in Nat
           /\ \A r, q \in Rpc!ToSet(s.performed) : Rank(s.performed, r) = Rank(s.performed, q) => r = q
           /\ Rpc!ToSet(s.performed) \subseteq Requests
           /\ \A r \in Rpc!ToSet(s.running) \cap Requests : r \in Rpc!ToSet(s.performed) /\ s.req[r].dc = None
           /\ \A r \in Rpc!ToSet(s.queue) \cap Requests : r \in Rpc!ToSet(s.performed) /\ s.req[r].dc = None
<1>1. s.performed \in Seq(Requests) /\ \A i, j \in DOMAIN s.performed : s.performed[i] = s.performed[j] => i = j
  BY DEF LineTyped, InLists
<1>2. Rpc!ToSet(s.performed) \subseteq Requests
  BY <1>1 DEF Rpc!ToSet
<1>3. /\ \A r \in Rpc!ToSet(s.running) \cap Requests : r \in Rpc!ToSet(s.performed) /\ s.req[r].dc = None
      /\ \A r \in Rpc!ToSet(s.queue) \cap Requests : r \in Rpc!ToSet(s.performed) /\ s.req[r].dc = None
  BY DEF InLists
<1> QED BY <1>1, <1>2, <1>3, RankIs

(* Whom the packet passes is noted.                                        *)
LEMMA PassedIs ==
    ASSUME NEW s, NEW rs, LineTyped(s), InLists(s), NEW v \in Rpc!ToSet(s.running) \cap Requests,
           NEW x \in Rpc!ToSet(s.running) \cap Requests, Rank(s.performed, v) < Rank(s.performed, x),
           v \in Rpc!ToSet(rs), s.req[x].mid # 0,
           \/ s.req[v].mid = 0
           \/ /\ x \notin Rpc!ToSet(rs)
              /\ \E q \in Rpc!ToSet(rs) \cap Requests : q \in Rpc!ToSet(s.performed) /\ Rank(s.performed, x) < Rank(s.performed, q)
    PROVE  x \in Rpc!Passed(s, rs)
<1> DEFINE l == s.running
           perf == s.performed
           sent == Rpc!ToSet(rs) \cap Requests
<1>1. l \in Seq(Names) /\ Rising(perf, l) /\ DOMAIN l \subseteq Nat
  BY DEF LineTyped, InLists
<1>2. PICK i \in DOMAIN l : l[i] = x
  BY DEF Rpc!ToSet
<1>3. PICK j \in DOMAIN l : l[j] = v
  BY DEF Rpc!ToSet
<1>4. Rank(perf, v) \in Nat /\ Rank(perf, x) \in Nat
  BY Ranks
<1>5. ~(i < j)
  BY <1>1, <1>2, <1>3, <1>4 DEF Rising
<1>6. i # j
  BY <1>2, <1>3, <1>4
<1>7. i \in Nat /\ j \in Nat /\ j < i /\ j \in 1 .. (i - 1)
  BY <1>1, <1>2, <1>3, <1>5, <1>6
<1>8. \/ s.req[l[j]].mid = 0
      \/ l[i] \notin sent /\ ~(sent \subseteq Rpc!ToSet(SubSeq(l, 1, i)))
  <2>1. CASE s.req[v].mid = 0
    BY <2>1, <1>3
  <2>2. CASE /\ x \notin Rpc!ToSet(rs)
             /\ \E q \in Rpc!ToSet(rs) \cap Requests : q \in Rpc!ToSet(s.performed) /\ Rank(perf, x) < Rank(perf, q)
    <3>1. PICK q \in sent : q \in Rpc!ToSet(s.performed) /\ Rank(perf, x) < Rank(perf, q)
      BY <2>2
    <3>2. Rank(perf, q) \in Nat
      BY <3>1, Ranks
    <3>3. ASSUME q \in Rpc!ToSet(SubSeq(l, 1, i)) PROVE FALSE
      <4>1. DOMAIN SubSeq(l, 1, i) = 1 .. i /\ \A m \in 1 .. i : SubSeq(l, 1, i)[m] = l[m] /\ m \in DOMAIN l
        BY <1>1, <1>2
      <4>2. PICK m \in 1 .. i : l[m] = q /\ m \in DOMAIN l
        BY <3>3, <4>1 DEF Rpc!ToSet
      <4>3. m # i
        BY <4>2, <3>1, <3>2, <1>2, <1>4
      <4>4. m < i
        BY <4>2, <4>3, <1>7
      <4>5. Rank(perf, q) < Rank(perf, x)
        BY <4>2, <4>4, <1>1, <1>2 DEF Rising
      <4> QED BY <4>5, <3>1, <3>2, <1>4
    <3> QED BY <3>1, <3>3, <2>2, <1>2
  <2> QED BY <2>1, <2>2
<1>9. l[j] \in sent
  BY <1>3
<1> QED BY <1>2, <1>7, <1>8, <1>9 DEF Rpc!Passed

LEMMA LeftOut ==
    ASSUME NEW s, NEW t, NEW kn, NEW dn, NEW ex, NEW C, NEW resent, NEW started, NEW rs,
           Line(s, kn, dn, ex, C), Picked(s, resent, started),
           Rpc!ToSet(rs) = Rpc!ToSet(resent) \cup Rpc!ToSet(started),
           t.delayed = s.delayed \cup (Rpc!Passed(s, rs) \cap Requests)
    PROVE  Left(s, t, ex, Rpc!ToSet(rs))
<1> DEFINE perf == s.performed
           P == Rpc!ToSet(perf)
           R == Rpc!ToSet(rs)
<1>1. LineTyped(s) /\ InLists(s) /\ Present(s, ex) /\ Waits(s)
  BY DEF Line
<1>2. /\ \A r \in P : Rank(perf, r) \in Nat
      /\ P \subseteq Requests
      /\ \A r \in Rpc!ToSet(s.running) \cap Requests : r \in P
      /\ \A r \in Rpc!ToSet(s.queue) \cap Requests : r \in P
  BY <1>1, Ranks
<1>3. \A r \in Rpc!ToSet(s.running) \cap Requests, q \in Rpc!ToSet(s.queue) \cap Requests : Rank(perf, r) < Rank(perf, q)
  BY <1>1 DEF InLists
<1>4. /\ R = Rpc!ToSet(resent) \cup Rpc!ToSet(started)
      /\ Rpc!ToSet(resent) \subseteq Rpc!ToSet(s.running) /\ Rpc!ToSet(started) \subseteq Rpc!ToSet(s.queue)
      /\ \A q \in R \cap Requests : \A x \in Rpc!ToSet(s.running) \cap Requests :
            s.req[x].due /\ s.req[x].on = None => x \in Rpc!ToSet(resent)
      /\ \A q \in Rpc!ToSet(started) \cap Requests, x \in Rpc!ToSet(s.queue) \cap Requests :
            Rank(perf, x) < Rank(perf, q) => x \in Rpc!ToSet(started)
  BY DEF Picked
<1>5. \A q \in R \cap Requests : q \in P
  BY <1>2, <1>4
<1>6. ASSUME NEW q \in R \cap Requests, NEW x \in P, Rank(perf, x) < Rank(perf, q)
      PROVE  \/ Over(t, ex, x) \/ x \in R
             \/ x \in Rpc!ToSet(s.running) \cap Requests /\ x \notin R /\ s.req[x].mid # 0
  <2>1. CASE x \in Rpc!ToSet(s.queue)
    <3>1. x \in Rpc!ToSet(s.queue) \cap Requests /\ Rank(perf, x) \in Nat /\ Rank(perf, q) \in Nat
      BY <2>1, <1>2, <1>5
    <3>2. q \notin Rpc!ToSet(s.running)
      BY <3>1, <1>3, <1>6
    <3>3. q \in Rpc!ToSet(started) \cap Requests
      BY <3>2, <1>4
    <3> QED BY <3>1, <3>3, <1>4, <1>6
  <2>2. CASE x \in Rpc!ToSet(s.running) /\ x \notin R /\ s.req[x].mid = 0
    <3>1. x \in Rpc!ToSet(s.running) \cap Requests
      BY <2>2, <1>2
    <3>2. x \in s.delayed
      BY <3>1, <2>2, <1>1, <1>4 DEF Waits
    <3> QED BY <3>2 DEF Over
  <2>3. CASE Over(s, ex, x)
    BY <2>3 DEF Over
  <2> QED BY <2>1, <2>2, <2>3, <1>1, <1>2 DEF Present
<1>7. ASSUME NEW v \in R \cap Requests, NEW x \in Rpc!ToSet(s.running) \cap Requests, Rank(perf, v) < Rank(perf, x)
      PROVE  v \in Rpc!ToSet(s.running) \cap Requests
  <2>1. Rank(perf, v) \in Nat /\ Rank(perf, x) \in Nat
    BY <1>2, <1>5
  <2>2. v \notin Rpc!ToSet(s.queue)
    BY <2>1, <1>3, <1>7
  <2> QED BY <2>2, <1>4
<1>8. ASSUME NEW v \in R \cap Requests, NEW q \in R \cap Requests, NEW x \in Rpc!ToSet(s.running) \cap Requests,
             Rank(perf, v) < Rank(perf, x), Rank(perf, x) < Rank(perf, q), x \notin R, s.req[x].mid # 0
      PROVE  x \in t.delayed
  <2>1. v \in Rpc!ToSet(s.running) \cap Requests /\ q \in P
    BY <1>5, <1>7, <1>8
  <2>2. x \in Rpc!Passed(s, rs)
    BY <2>1, <1>1, <1>8, PassedIs
  <2> QED BY <2>2
<1>9. ASSUME NEW v \in R \cap Requests, NEW q \in Rpc!ToSet(s.running) \cap Requests,
             Rank(perf, v) < Rank(perf, q), s.req[v].mid = 0, s.req[q].mid # 0
      PROVE  q \in t.delayed
  <2>1. v \in Rpc!ToSet(s.running) \cap Requests
    BY <1>7, <1>9
  <2>2. q \in Rpc!Passed(s, rs)
    BY <2>1, <1>1, <1>9, PassedIs
  <2> QED BY <2>2
<1> HIDE DEF R
<1>10. Left(s, t, ex, R)
  BY <1>5, <1>6, <1>8, <1>9 DEF Left
<1> QED BY <1>10 DEF R

(* A message that sending brings is one of the packet for its datacenter.  *)
LEMMA NewMessages ==
    ASSUME NEW u, NEW rs \in Seq(Names), NEW kn, NEW i, NEW q, NEW a,
           DOMAIN u.up = Dcs, \A d \in Dcs : Packed(u.up[d]), \A r \in Rpc!ToSet(rs) : Rpc!Dc(u, r) \in Dcs,
           Asks(Delivered(u, rs), kn, i, q, a)
    PROVE  \/ Asks(u.up, kn, i, q, a)
           \/ \E d \in Dcs, k \in Seq(Names) :
                 /\ k = Rpc!Kept(rs, {r \in Rpc!ToSet(rs) : Rpc!Dc(u, r) = d})
                 /\ \E n \in DOMAIN k : q = k[n] /\ i = u.req[q].mid /\ a = Rpc!After(u, k, n)
<1> DEFINE up == Delivered(u, rs)
<1>1. Goals(u, rs) \subseteq Dcs
  BY DEF Goals
<1>2. /\ DOMAIN up = Dcs
      /\ \A d \in Dcs : up[d] = IF d \in Goals(u, rs) THEN Append(u.up[d], PacketFor(u, rs, d)) ELSE u.up[d]
  BY <1>1 DEF Delivered
<1> HIDE DEF up
<1>3. PICK d \in Dcs :
        \/ \E p \in Rpc!ToSet(up[d]) : \E n \in DOMAIN p.messages :
              p.messages[n].mid = i /\ p.messages[n].req = q /\ p.messages[n].after = a
        \/ \E x \in kn[d] : x.mid = i /\ x.req = q /\ x.after = a
  <2>1. Asks(up, kn, i, q, a)
    BY DEF up
  <2> QED BY <2>1 DEF Asks
<1>4. CASE \E x \in kn[d] : x.mid = i /\ x.req = q /\ x.after = a
  BY <1>4 DEF Asks
<1>5. CASE \E p \in Rpc!ToSet(up[d]) : \E n \in DOMAIN p.messages :
              p.messages[n].mid = i /\ p.messages[n].req = q /\ p.messages[n].after = a
  <2>1. PICK p \in Rpc!ToSet(up[d]) : \E n \in DOMAIN p.messages :
              p.messages[n].mid = i /\ p.messages[n].req = q /\ p.messages[n].after = a
    BY <1>5
  <2> DEFINE T == {r \in Rpc!ToSet(rs) : Rpc!Dc(u, r) = d}
             k == Rpc!Kept(rs, T)
             A(x) == Rpc!After(u, k, x)
  <2>2. k \in Seq(Names)
    BY KeptOf
  <2>3. PacketFor(u, rs, d) = Rpc!Packet(u, d, k)
    BY DEF PacketFor
  <2>4. k = Rpc!Kept(rs, {r \in Rpc!ToSet(rs) : Rpc!Dc(u, r) = d})
    OBVIOUS
  <2>5. \A x : A(x) = Rpc!After(u, k, x)
    OBVIOUS
  <2> HIDE DEF k, T, A
  <2>6. PacketFor(u, rs, d).messages =
          [x \in DOMAIN k |-> [req |-> k[x], mid |-> u.req[k[x]].mid, after |-> A(x)]]
    BY <2>3, <2>5 DEF Rpc!Packet
  <2>7. \E n \in Nat : DOMAIN PacketFor(u, rs, d).messages = 1 .. n
    BY <2>2, <2>6
  <2>8. p \in Rpc!ToSet(u.up[d]) \/ p = PacketFor(u, rs, d)
    <3>1. Rpc!ToSet(Append(u.up[d], PacketFor(u, rs, d))) = Rpc!ToSet(u.up[d]) \cup {PacketFor(u, rs, d)}
      BY <2>7, OnePacketMore
    <3> QED BY <3>1, <2>1, <1>2
  <2>9. CASE p \in Rpc!ToSet(u.up[d])
    BY <2>1, <2>9 DEF Asks
  <2>10. CASE p = PacketFor(u, rs, d)
    <3>1. PICK n \in DOMAIN p.messages :
              p.messages[n].mid = i /\ p.messages[n].req = q /\ p.messages[n].after = a
      BY <2>1
    <3>2. n \in DOMAIN k /\ q = k[n] /\ i = u.req[q].mid /\ a = A(n)
      BY <3>1, <2>6, <2>10
    <3> QED BY <3>2, <2>2, <2>4, <2>5
  <2> QED BY <2>8, <2>9, <2>10
<1> QED BY <1>3, <1>4, <1>5

(* What the records and the ids are once R are sent.                       *)
Going(s, t, w, R, kn) ==
    /\ t.performed = s.performed /\ s.delayed \subseteq t.delayed /\ t.mid \in Nat
    /\ \A r \in Rpc!ToSet(t.running) \cap Requests :
          r \in DOMAIN w /\ (r \in R \/ (r \in Rpc!ToSet(s.running) /\ w[r] = s.req[r]))
    /\ \A r \in Rpc!ToSet(s.running) : r \in Rpc!ToSet(t.running)
    /\ \A r \in DOMAIN w : w[r].mid \in Nat /\ w[r].mid <= t.mid /\ (w[r].mid # 0 => Owner(t, kn, w[r].mid, r))
    /\ \A r, q \in DOMAIN w : w[r].mid = w[q].mid /\ w[r].mid # 0 => r = q
    /\ R \subseteq DOMAIN w /\ \A r \in R : w[r].mid # 0

(* The message of a request comes after one that covers it: the last one   *)
(* before it in its packet, or the last one that runs and is not in the    *)
(* packet.                                                                 *)
LEMMA NewCovered ==
    ASSUME NEW s, NEW t, NEW u, NEW w, NEW kn, NEW ex, NEW R, NEW k \in Seq(Names), NEW n \in DOMAIN k,
           LineTyped(s), InLists(s), Increasing(s), Left(s, t, ex, R), Going(s, t, w, R, kn),
           u.req = w, u.running = t.running, Rising(s.performed, k),
           Rpc!ToSet(k) \cap Requests = R \cap Requests, k[n] \in Requests
    PROVE  Covered(t, kn, ex, k[n], Rpc!After(u, k, n))
<1> DEFINE perf == s.performed
           P == Rpc!ToSet(perf)
           q == k[n]
           K == Rpc!ToSet(k)
           before == {j \in 1 .. (n - 1) : k[j] \in Requests}
           others == {w[r].mid : r \in {x \in Rpc!ToSet(t.running) \cap Requests : x \notin K}}
           last == IF before # {} THEN w[k[Rpc!Max(before)]].mid ELSE Rpc!Max(others \cup {0})
<1>1. Rpc!After(u, k, n) = IF last = w[q].mid THEN 0 ELSE last
  BY DEF Rpc!After
<1>2. /\ \A r \in P : Rank(perf, r) \in Nat
      /\ \A r, v \in P : Rank(perf, r) = Rank(perf, v) => r = v
      /\ P \subseteq Requests
      /\ \A r \in Rpc!ToSet(s.running) \cap Requests : r \in P
  BY Ranks
<1>3. /\ t.performed = perf /\ s.delayed \subseteq t.delayed /\ t.mid \in Nat
      /\ \A r \in Rpc!ToSet(t.running) \cap Requests :
            r \in DOMAIN w /\ (r \in R \/ (r \in Rpc!ToSet(s.running) /\ w[r] = s.req[r]))
      /\ \A r \in Rpc!ToSet(s.running) : r \in Rpc!ToSet(t.running)
      /\ \A r \in DOMAIN w : w[r].mid \in Nat /\ w[r].mid <= t.mid /\ (w[r].mid # 0 => Owner(t, kn, w[r].mid, r))
      /\ \A r, v \in DOMAIN w : w[r].mid = w[v].mid /\ w[r].mid # 0 => r = v
      /\ R \subseteq DOMAIN w /\ \A r \in R : w[r].mid # 0
  BY DEF Going
<1>4. /\ \A v \in R \cap Requests : v \in P
      /\ \A v \in R \cap Requests, x \in P : Rank(perf, x) < Rank(perf, v) =>
              \/ Over(t, ex, x) \/ x \in R
              \/ x \in Rpc!ToSet(s.running) \cap Requests /\ x \notin R /\ s.req[x].mid # 0
      /\ \A v, y \in R \cap Requests, x \in Rpc!ToSet(s.running) \cap Requests :
              Rank(perf, v) < Rank(perf, x) /\ Rank(perf, x) < Rank(perf, y) /\ x \notin R /\ s.req[x].mid # 0
                => x \in t.delayed
  BY DEF Left
<1>5. K \cap Requests = R \cap Requests
  OBVIOUS
<1>6. DOMAIN k \subseteq Nat /\ n \in Nat /\ n >= 1 /\ \A j \in 1 .. (n - 1) : j \in DOMAIN k /\ j < n
  OBVIOUS
<1>7. q \in R \cap Requests /\ q \in P /\ \A j \in DOMAIN k : k[j] \in K
  <2>1. \A j \in DOMAIN k : k[j] \in K
    BY DEF Rpc!ToSet
  <2> QED BY <2>1, <1>4, <1>5
<1>8. ASSUME NEW x \in R \cap Requests, Rank(perf, x) < Rank(perf, q)
      PROVE  \E j \in before : k[j] = x
  <2>1. PICK j \in DOMAIN k : k[j] = x
    <3>1. x \in K
      BY <1>5
    <3> QED BY <3>1 DEF Rpc!ToSet
  <2>2. Rank(perf, x) \in Nat /\ Rank(perf, q) \in Nat
    BY <1>2, <1>4, <1>7
  <2>3. ~(n < j) /\ n # j
    BY <2>1, <2>2, <1>7, <1>8 DEF Rising
  <2>4. j \in 1 .. (n - 1)
    BY <2>1, <2>3, <1>6
  <2> QED BY <2>1, <2>4
<1> HIDE DEF P, K, q, last
<1>9. CASE before # {}
  <2> DEFINE m == Rpc!Max(before)
  <2>1. before \subseteq 0 .. n
    BY <1>6
  <2>2. m \in before /\ \A j \in before : j <= m
    BY <2>1, <1>6, <1>9, Largest
  <2> HIDE DEF m
  <2> DEFINE v == k[m]
  <2>3. m \in DOMAIN k /\ m \in Nat /\ m < n /\ v \in Requests /\ v \in K
    BY <2>2, <1>6, <1>7
  <2>4. v \in R \cap Requests /\ v \in P
    BY <2>3, <1>4, <1>5
  <2>5. Rank(perf, v) < Rank(perf, q)
    BY <2>3, <1>7 DEF Rising, q
  <2>6. v # q
    BY <2>4, <2>5, <1>2
  <2>7. v \in DOMAIN w /\ q \in DOMAIN w /\ w[v].mid # 0 /\ w[v].mid # w[q].mid
    BY <2>4, <2>6, <1>3, <1>7
  <2>8. Rpc!After(u, k, n) = w[v].mid
    BY <2>7, <1>1, <1>9 DEF last, m
  <2>9. ASSUME NEW x \in P, Rank(perf, v) < Rank(perf, x), Rank(perf, x) < Rank(perf, q)
        PROVE  Over(t, ex, x)
    <3>1. CASE x \in R
      <4>1. PICK j \in before : k[j] = x
        BY <3>1, <2>9, <1>2, <1>8
      <4>2. j \in DOMAIN k /\ j \in Nat /\ j <= m
        BY <4>1, <2>2, <1>6
      <4>3. Rank(perf, v) \in Nat /\ Rank(perf, x) \in Nat
        BY <2>4, <1>2
      <4>4. j # m /\ ~(j < m)
        BY <4>1, <4>2, <4>3, <2>3, <2>9, <1>2 DEF Rising
      <4> QED BY <4>2, <4>4, <2>3
    <3>2. CASE x \in Rpc!ToSet(s.running) \cap Requests /\ x \notin R /\ s.req[x].mid # 0
      BY <3>2, <2>4, <2>9, <1>4, <1>7 DEF Over
    <3> QED BY <3>1, <3>2, <2>9, <1>4, <1>7
  <2>10. Owner(t, kn, w[v].mid, v)
    BY <2>7, <1>3
  <2> HIDE DEF v
  <2> QED BY <2>4, <2>8, <2>9, <2>10, <1>3 DEF Covered, q, P
<1>10. CASE before = {}
  <2> DEFINE M == Rpc!Max(others \cup {0})
  <2>1. others \cup {0} \subseteq 0 .. t.mid
    BY <1>3
  <2>2. M \in others \cup {0} /\ \A i \in others \cup {0} : i <= M
    BY <2>1, <1>3, Largest
  <2>3. M \in Nat
    BY <2>1, <2>2
  <2>4. last = M
    BY <1>10 DEF last
  <2>5. ASSUME NEW x \in P, Rank(perf, x) < Rank(perf, q), ~Over(t, ex, x)
        PROVE  x \in Rpc!ToSet(s.running) \cap Requests /\ s.req[x].mid # 0 /\ s.req[x].mid <= M
    <3>1. x \notin R
      BY <2>5, <1>2, <1>8, <1>10
    <3>2. x \in Rpc!ToSet(s.running) \cap Requests /\ s.req[x].mid # 0
      BY <3>1, <2>5, <1>4, <1>7
    <3>3. x \in Rpc!ToSet(t.running) \cap Requests /\ w[x] = s.req[x] /\ x \notin K
      BY <3>1, <3>2, <1>3, <1>5
    <3>4. w[x].mid \in others
      BY <3>3
    <3> QED BY <3>2, <3>3, <3>4, <2>2
  <2>6. CASE M = 0
    <3>1. \A x \in P : Rank(perf, x) < Rank(perf, q) => Over(t, ex, x)
      <4> TAKE x \in P
      <4> HAVE Rank(perf, x) < Rank(perf, q)
      <4>1. CASE ~Over(t, ex, x)
        <5>1. x \in Rpc!ToSet(s.running) \cap Requests /\ s.req[x].mid # 0 /\ s.req[x].mid <= 0
          BY <4>1, <2>5, <2>6
        <5>2. s.req[x].mid \in Nat
          BY <5>1 DEF LineTyped, InLists, Waiting
        <5> QED BY <5>1, <5>2
      <4> QED BY <4>1
    <3>2. Rpc!After(u, k, n) = 0
      BY <2>4, <2>6, <1>1
    <3> QED BY <3>1, <3>2, <1>3 DEF Covered, q, P
  <2>7. CASE M # 0
    <3>1. PICK v \in Rpc!ToSet(t.running) \cap Requests : v \notin K /\ M = w[v].mid
      BY <2>2, <2>7
    <3>2. v \notin R /\ v \in Rpc!ToSet(s.running) \cap Requests /\ w[v] = s.req[v] /\ v \in DOMAIN w /\ v \in P
      BY <3>1, <1>2, <1>3, <1>5
    <3>3. M # w[q].mid
      BY <3>1, <3>2, <2>7, <1>3, <1>7
    <3>4. Rpc!After(u, k, n) = M
      BY <3>3, <2>4, <1>1
    <3>5. ASSUME NEW x \in P, Rank(perf, v) < Rank(perf, x), Rank(perf, x) < Rank(perf, q)
          PROVE  Over(t, ex, x)
      <4>1. CASE ~Over(t, ex, x)
        <5>1. x \in Rpc!ToSet(s.running) \cap Requests /\ s.req[x].mid # 0 /\ s.req[x].mid <= s.req[v].mid
          BY <4>1, <3>1, <3>2, <3>5, <2>5
        <5>2. s.req[x].mid \in Nat /\ s.req[v].mid \in Nat
          BY <5>1, <3>2 DEF LineTyped, InLists, Waiting
        <5>3. x \notin s.delayed
          BY <4>1, <1>3 DEF Over
        <5>4. s.req[v].mid < s.req[x].mid
          BY <5>1, <5>3, <3>1, <3>2, <3>5, <2>7 DEF Increasing
        <5> QED BY <5>1, <5>2, <5>4
      <4> QED BY <4>1
    <3>6. Owner(t, kn, M, v)
      BY <3>1, <3>2, <2>7, <1>3
    <3> HIDE DEF M
    <3> QED BY <3>2, <3>4, <3>5, <3>6, <1>3 DEF Covered, q, P
  <2> QED BY <2>6, <2>7
<1> QED BY <1>9, <1>10

(* What sending makes of the ids, w being the records with their ids and R *)
(* the requests that are sent.                                             *)
Numbering(s, t, w, R, kn) ==
    /\ s.mid \in Nat /\ t.mid \in Nat /\ s.mid <= t.mid
    /\ w \in [DOMAIN s.req -> Waiting] /\ R \subseteq DOMAIN s.req
    /\ DOMAIN t.req \subseteq DOMAIN s.req /\ \A r \in DOMAIN t.req : t.req[r] = w[r]
    /\ \A r \in DOMAIN s.req : w[r].dc = s.req[r].dc
    /\ \A r \in DOMAIN s.req : r \notin R \/ s.req[r].mid # 0 => w[r].mid = s.req[r].mid
    /\ \A r \in R : /\ w[r].mid # 0 /\ w[r].mid <= t.mid
                    /\ s.req[r].mid = 0 => w[r].mid > s.mid
    /\ \A r, q \in DOMAIN s.req : w[r].mid = w[q].mid /\ w[r].mid # 0 => r = q
    /\ \A r \in DOMAIN s.req \ R : w[r] = s.req[r]
    /\ \A i, q, a : Asks(t.up, kn, i, q, a) =>
          Asks(s.up, kn, i, q, a) \/ (q \in R /\ i = w[q].mid)

(* Who owned an id still does, and whoever is sent owns its own.           *)
LEMMA OwnersStay ==
    ASSUME NEW s, NEW t, NEW w, NEW R, NEW kn, Numbering(s, t, w, R, kn), Ids(s, kn)
    PROVE  /\ \A i, r : Owner(s, kn, i, r) => Owner(t, kn, i, r)
           /\ \A r \in DOMAIN s.req : w[r].mid # 0 => Owner(t, kn, w[r].mid, r)
           /\ Ids(t, kn)
           /\ \A r \in DOMAIN s.req : w[r].mid \in Nat /\ w[r].mid <= t.mid
           /\ \A r \in DOMAIN s.req : w[r].mid # 0 /\ w[r].mid <= s.mid => s.req[r].mid = w[r].mid
<1>1. /\ s.mid \in Nat /\ t.mid \in Nat /\ s.mid <= t.mid
      /\ R \subseteq DOMAIN s.req /\ \A r \in DOMAIN s.req : w[r].mid \in Nat
      /\ DOMAIN t.req \subseteq DOMAIN s.req /\ \A r \in DOMAIN t.req : t.req[r] = w[r]
      /\ \A r \in DOMAIN s.req : r \notin R \/ s.req[r].mid # 0 => w[r].mid = s.req[r].mid
      /\ \A r \in R : /\ w[r].mid # 0 /\ w[r].mid <= t.mid
                      /\ s.req[r].mid = 0 => w[r].mid > s.mid
      /\ \A r, q \in DOMAIN s.req : w[r].mid = w[q].mid /\ w[r].mid # 0 => r = q
  BY DEF Numbering, Waiting
<1>2. \A i, q, a : Asks(t.up, kn, i, q, a) => Asks(s.up, kn, i, q, a) \/ (q \in R /\ i = w[q].mid)
  BY DEF Numbering
<1>3. \A r \in DOMAIN s.req : w[r].mid # 0 /\ w[r].mid <= s.mid => s.req[r].mid = w[r].mid
  BY <1>1
<1>4. \A r \in DOMAIN s.req : s.req[r].mid # 0 => Owner(s, kn, s.req[r].mid, r)
  BY DEF Ids
<1>5. \A i, r, a : Asks(s.up, kn, i, r, a) => Owner(s, kn, i, r)
  BY DEF Ids
<1>6. \A i, r : Owner(s, kn, i, r) => i \in Nat /\ i # 0 /\ i <= s.mid
  BY DEF Owner
<1>7. \A r \in DOMAIN s.req : w[r].mid <= t.mid
  <2> TAKE r \in DOMAIN s.req
  <2>1. CASE r \in R
    BY <2>1, <1>1
  <2>2. CASE r \notin R /\ s.req[r].mid = 0
    BY <2>2, <1>1
  <2>3. CASE r \notin R /\ s.req[r].mid # 0
    BY <2>3, <1>1, <1>4, <1>6
  <2> QED BY <2>1, <2>2, <2>3
<1>8. ASSUME NEW i, NEW r, Owner(s, kn, i, r) PROVE Owner(t, kn, i, r)
  <2>1. i \in Nat /\ i # 0 /\ i <= s.mid /\ i <= t.mid
    BY <1>1, <1>6, <1>8
  <2>2. \A q \in DOMAIN s.req : w[q].mid = i => q = r
    BY <2>1, <1>3, <1>8 DEF Owner
  <2>3. \A q, a : Asks(t.up, kn, i, q, a) => q = r
    BY <2>2, <1>1, <1>2, <1>8 DEF Owner
  <2>4. \A q \in DOMAIN t.req : t.req[q].mid = i => q = r
    BY <2>2, <1>1
  <2> QED BY <2>1, <2>3, <2>4 DEF Owner
<1>9. ASSUME NEW r \in DOMAIN s.req, w[r].mid # 0 PROVE Owner(t, kn, w[r].mid, r)
  <2>1. \A q \in DOMAIN t.req : t.req[q].mid = w[r].mid => q = r
    BY <1>1, <1>9
  <2>2. ASSUME NEW q, NEW a, Asks(s.up, kn, w[r].mid, q, a) PROVE q = r
    <3>1. Owner(s, kn, w[r].mid, q)
      BY <2>2, <1>5
    <3>2. s.req[r].mid = w[r].mid
      BY <3>1, <1>3, <1>6
    <3> QED BY <3>1, <3>2 DEF Owner
  <2>3. \A q, a : Asks(t.up, kn, w[r].mid, q, a) => q = r
    BY <2>2, <1>1, <1>2, <1>9
  <2> QED BY <2>1, <2>3, <1>1, <1>7, <1>9 DEF Owner
<1>10. Ids(t, kn)
  <2>1. \A r \in DOMAIN t.req : t.req[r].mid # 0 => Owner(t, kn, t.req[r].mid, r)
    BY <1>1, <1>9
  <2>2. \A i, r, a : Asks(t.up, kn, i, r, a) => Owner(t, kn, i, r)
    BY <1>1, <1>2, <1>5, <1>8, <1>9
  <2> QED BY <2>1, <2>2 DEF Ids
<1> QED BY <1>1, <1>3, <1>7, <1>8, <1>9, <1>10

(* What sending makes of the lists.                                        *)
Listing(s, t, w, resent, started) ==
    /\ t.performed = s.performed /\ s.delayed \subseteq t.delayed /\ t.completing = s.completing
    /\ t.linked = s.linked
    /\ t.running \in Seq(Names) /\ t.queue \in Seq(Names)
    /\ Rpc!ToSet(t.running) = Rpc!ToSet(s.running) \cup Rpc!Answerable(started)
    /\ Rpc!ToSet(t.queue) = Rpc!ToSet(s.queue) \ Rpc!ToSet(started)
    /\ Rising(s.performed, t.running) /\ Rising(s.performed, t.queue)
    /\ DOMAIN t.req = DOMAIN s.req \ (Rpc!ToSet(started) \ Rpc!Answerable(started))
    /\ t.req \in [DOMAIN t.req -> Waiting]
    /\ DOMAIN t.up = Dcs /\ \A d \in Dcs : Packed(t.up[d])

LEMMA AnswerableAre ==
    ASSUME NEW l
    PROVE  /\ Rpc!Answerable(l) \subseteq Rpc!ToSet(l) /\ \A r \in Rpc!Answerable(l) : Rpc!NeedsAnswer(r)
           /\ \A r \in Rpc!ToSet(l) : Rpc!NeedsAnswer(r) => r \in Rpc!Answerable(l)
           /\ \A r \in Requests : Rpc!NeedsAnswer(r)
  BY DEF Rpc!Answerable, Rpc!NeedsAnswer, Rpc!Kind

LEMMA SendAllInLists ==
    ASSUME NEW s, NEW t, NEW w, NEW resent, NEW started, NEW kn, NEW ex, NEW C, NEW dn, NEW R,
           Line(s, kn, dn, ex, C), Picked(s, resent, started),
           R = Rpc!ToSet(resent) \cup Rpc!ToSet(started),
           Numbering(s, t, w, R, kn), Listing(s, t, w, resent, started)
    PROVE  /\ InLists(t) /\ LineTyped(t) /\ Present(t, ex) /\ Waits(t)
           /\ Finished(t, ex, C) /\ Told(t, dn, ex) /\ InTurn(t, ex)
<1>1. LineTyped(s) /\ InLists(s) /\ Present(s, ex) /\ Ids(s, kn) /\ Finished(s, ex, C) /\ Waits(s)
      /\ Told(s, dn, ex) /\ InTurn(s, ex)
  BY DEF Line
<1> DEFINE A == Rpc!Answerable(started)
           Q == Rpc!ToSet(started)
<1>2. /\ A \subseteq Q /\ \A r \in A : Rpc!NeedsAnswer(r)
      /\ \A r \in Q : Rpc!NeedsAnswer(r) => r \in A
      /\ \A r \in Requests : Rpc!NeedsAnswer(r)
  BY AnswerableAre
<1>3. /\ t.performed = s.performed /\ s.delayed \subseteq t.delayed /\ t.completing = s.completing
      /\ t.linked = s.linked
      /\ t.running \in Seq(Names) /\ t.queue \in Seq(Names)
      /\ Rpc!ToSet(t.running) = Rpc!ToSet(s.running) \cup A
      /\ Rpc!ToSet(t.queue) = Rpc!ToSet(s.queue) \ Q
      /\ Rising(s.performed, t.running) /\ Rising(s.performed, t.queue)
      /\ DOMAIN t.req = DOMAIN s.req \ (Q \ A)
      /\ t.req \in [DOMAIN t.req -> Waiting]
      /\ DOMAIN t.up = Dcs /\ \A d \in Dcs : Packed(t.up[d])
  BY DEF Listing
<1>4. Rpc!ToSet(resent) \subseteq Rpc!ToSet(s.running) /\ Q \subseteq Rpc!ToSet(s.queue)
      /\ \A q \in Q \cap Requests, x \in Rpc!ToSet(s.queue) \cap Requests :
              Rank(s.performed, x) < Rank(s.performed, q) => x \in Q
  BY DEF Picked
<1>5. /\ s.mid \in Nat /\ t.mid \in Nat /\ s.mid <= t.mid
      /\ w \in [DOMAIN s.req -> Waiting] /\ R \subseteq DOMAIN s.req
      /\ \A r \in DOMAIN t.req : t.req[r] = w[r]
      /\ \A r \in DOMAIN s.req : w[r].dc = s.req[r].dc
      /\ \A r \in DOMAIN s.req : r \notin R \/ s.req[r].mid # 0 => w[r].mid = s.req[r].mid
      /\ \A r \in R : w[r].mid # 0
      /\ \A r \in DOMAIN s.req \ R : w[r] = s.req[r]
  BY DEF Numbering
<1>6. \A r \in DOMAIN s.req : w[r].mid # 0 /\ w[r].mid <= s.mid => s.req[r].mid = w[r].mid
  BY <1>1, OwnersStay
<1>7. \A r : Over(s, ex, r) => Over(t, ex, r)
  BY <1>3 DEF Over
<1>8. /\ \A i, j \in DOMAIN s.performed : s.performed[i] = s.performed[j] => i = j
      /\ Rpc!ToSet(s.running) \subseteq DOMAIN s.req /\ Rpc!ToSet(s.queue) \subseteq DOMAIN s.req
      /\ \A r \in Rpc!ToSet(s.running) : Rpc!NeedsAnswer(r)
      /\ \A r \in DOMAIN s.req \cap Requests : r \in Rpc!ToSet(s.performed) /\ s.req[r].dc = None
      /\ \A r \in Rpc!ToSet(s.running) \cap Requests, q \in Rpc!ToSet(s.queue) \cap Requests :
          Rank(s.performed, r) < Rank(s.performed, q)
      /\ \A q \in Rpc!ToSet(s.queue) \cap Requests : s.req[q].mid = 0
  BY <1>1 DEF InLists
<1> HIDE DEF A, Q
<1>9. /\ \A r \in Rpc!ToSet(s.performed) : Rank(s.performed, r) \in Nat
      /\ \A r, q \in Rpc!ToSet(s.performed) : Rank(s.performed, r) = Rank(s.performed, q) => r = q
      /\ Rpc!ToSet(s.performed) \subseteq Requests
  BY <1>1, Ranks
<1>10. R = Rpc!ToSet(resent) \cup Q
  BY DEF Q
<1>11. InLists(t)
  <2>1. Rpc!ToSet(t.running) \subseteq DOMAIN t.req /\ Rpc!ToSet(t.queue) \subseteq DOMAIN t.req
    BY <1>2, <1>3, <1>4, <1>8
  <2>2. \A r \in Rpc!ToSet(t.running) : Rpc!NeedsAnswer(r)
    BY <1>2, <1>3, <1>8
  <2>3. \A r \in DOMAIN t.req \cap Requests : r \in Rpc!ToSet(t.performed) /\ t.req[r].dc = None
    BY <1>3, <1>5, <1>8
  <2>4. ASSUME NEW r \in Rpc!ToSet(t.running) \cap Requests, NEW q \in Rpc!ToSet(t.queue) \cap Requests
        PROVE  Rank(t.performed, r) < Rank(t.performed, q)
    <3>1. CASE r \in Rpc!ToSet(s.running)
      BY <3>1, <1>3, <1>8
    <3>2. CASE r \in A
      <4>1. r \in Q \cap Requests /\ q \in Rpc!ToSet(s.queue) \cap Requests /\ q \notin Q
        BY <3>2, <1>2, <1>3
      <4>2. ~(Rank(s.performed, q) < Rank(s.performed, r)) /\ r # q
        BY <4>1, <1>4
      <4>3. r \in Rpc!ToSet(s.performed) /\ q \in Rpc!ToSet(s.performed)
        BY <4>1, <1>4, <1>8
      <4> QED BY <4>2, <4>3, <1>3, <1>9
    <3> QED BY <3>1, <3>2, <1>3
  <2>5. \A q \in Rpc!ToSet(t.queue) \cap Requests : t.req[q].mid = 0
    <3> TAKE q \in Rpc!ToSet(t.queue) \cap Requests
    <3>1. q \in Rpc!ToSet(s.queue) \cap Requests /\ q \notin Q /\ q \in DOMAIN t.req /\ q \in DOMAIN s.req
      BY <2>1, <1>3, <1>8
    <3>2. q \notin Rpc!ToSet(s.running)
      <4>1. q \in Rpc!ToSet(s.performed)
        BY <3>1, <1>8
      <4> QED BY <4>1, <3>1, <1>8, <1>9
    <3>3. q \notin R
      BY <3>1, <3>2, <1>4, <1>10
    <3> QED BY <3>1, <3>3, <1>5, <1>8
  <2> QED BY <2>1, <2>2, <2>3, <2>4, <2>5, <1>3, <1>8 DEF InLists
<1>12. LineTyped(t)
  <2>1. DOMAIN t.req \subseteq Names
    BY <1>1, <1>3 DEF LineTyped
  <2> QED BY <2>1, <1>1, <1>3, <1>5 DEF LineTyped
<1>13. Present(t, ex)
  <2> SUFFICES ASSUME NEW r \in Rpc!ToSet(s.performed)
               PROVE  r \in Rpc!ToSet(t.queue) \/ r \in Rpc!ToSet(t.running) \/ Over(t, ex, r)
    BY <1>3 DEF Present
  <2>1. r \in Rpc!ToSet(s.queue) \/ r \in Rpc!ToSet(s.running) \/ Over(s, ex, r)
    BY <1>1 DEF Present
  <2>2. r \in Q => r \in A
    BY <1>2, <1>9
  <2> QED BY <2>1, <2>2, <1>3, <1>7
<1>14. Waits(t)
  <2> SUFFICES ASSUME NEW r \in Rpc!ToSet(t.running) \cap Requests, t.req[r].mid = 0
               PROVE  r \in t.delayed \/ (t.req[r].due /\ t.req[r].on = None)
    BY DEF Waits
  <2>1. r \in DOMAIN t.req /\ r \in DOMAIN s.req
    BY <1>2, <1>3, <1>4, <1>8
  <2>2. r \notin R /\ t.req[r] = s.req[r]
    BY <2>1, <1>5
  <2>3. r \in Rpc!ToSet(s.running) \cap Requests
    BY <2>2, <1>2, <1>3, <1>10
  <2> QED BY <2>2, <2>3, <1>1, <1>3 DEF Waits
<1>15. Finished(t, ex, C)
  <2> SUFFICES ASSUME NEW i \in Rpc!ToSet(s.completing) \cup C
               PROVE  /\ i \in Nat /\ i # 0 /\ i <= t.mid
                      /\ \A r \in DOMAIN t.req \cap Requests : t.req[r].mid = i => Over(t, ex, r)
    BY <1>3 DEF Finished
  <2>1. /\ i \in Nat /\ i # 0 /\ i <= s.mid
        /\ \A r \in DOMAIN s.req \cap Requests : s.req[r].mid = i => Over(s, ex, r)
    BY <1>1 DEF Finished
  <2> QED BY <2>1, <1>3, <1>5, <1>6, <1>7
<1>16. Told(t, dn, ex)
  <2> SUFFICES ASSUME NEW d \in Dcs, NEW g \in Rpc!ToSet(dn[d]), g.kind = "result"
               PROVE  /\ g.mid \in Nat /\ g.mid # 0 /\ g.mid <= t.mid
                      /\ g.what = "ok" =>
                           \A r \in DOMAIN t.req \cap Requests : t.req[r].mid = g.mid => r \in Rpc!ToSet(ex)
    BY DEF Told
  <2>1. /\ g.mid \in Nat /\ g.mid # 0 /\ g.mid <= s.mid
        /\ g.what = "ok" =>
               \A r \in DOMAIN s.req \cap Requests : s.req[r].mid = g.mid => r \in Rpc!ToSet(ex)
    BY <1>1 DEF Told
  <2> QED BY <2>1, <1>3, <1>5, <1>6
<1>17. InTurn(t, ex)
  BY <1>1, <1>3 DEF InTurn
<1> QED BY <1>11, <1>12, <1>13, <1>14, <1>15, <1>16, <1>17

LEMMA SendAllIncreasing ==
    ASSUME NEW s, NEW t, NEW w, NEW resent, NEW started, NEW kn, NEW ex, NEW R,
           LineTyped(s), InLists(s), Ids(s, kn), Increasing(s), Left(s, t, ex, R), Picked(s, resent, started),
           R = Rpc!ToSet(resent) \cup Rpc!ToSet(started),
           Numbering(s, t, w, R, kn), Listing(s, t, w, resent, started),
           \A r, q \in R \cap Requests :
              Rank(s.performed, r) < Rank(s.performed, q) /\ s.req[r].mid = 0 /\ s.req[q].mid = 0
                => w[r].mid < w[q].mid
    PROVE  Increasing(t)
<1>1. /\ t.performed = s.performed /\ s.delayed \subseteq t.delayed
      /\ Rpc!ToSet(t.running) = Rpc!ToSet(s.running) \cup Rpc!Answerable(started)
      /\ DOMAIN t.req = DOMAIN s.req \ (Rpc!ToSet(started) \ Rpc!Answerable(started))
  BY DEF Listing
<1>2. /\ Rpc!Answerable(started) \subseteq Rpc!ToSet(started) /\ \A r \in Requests : Rpc!NeedsAnswer(r)
      /\ \A r \in Rpc!ToSet(started) : Rpc!NeedsAnswer(r) => r \in Rpc!Answerable(started)
  BY AnswerableAre
<1>3. /\ s.mid \in Nat /\ t.mid \in Nat /\ s.mid <= t.mid
      /\ R \subseteq DOMAIN s.req
      /\ \A r \in DOMAIN t.req : t.req[r] = w[r]
      /\ \A r \in DOMAIN s.req : w[r].mid \in Nat
      /\ \A r \in DOMAIN s.req : r \notin R \/ s.req[r].mid # 0 => w[r].mid = s.req[r].mid
      /\ \A r \in R : s.req[r].mid = 0 => w[r].mid > s.mid
  BY DEF Numbering, Waiting
<1>4. \A r \in DOMAIN s.req : s.req[r].mid # 0 => s.req[r].mid <= s.mid
  BY DEF Ids, Owner
<1>5. Rpc!ToSet(s.running) \subseteq DOMAIN s.req /\ Rpc!ToSet(s.queue) \subseteq DOMAIN s.req
      /\ \A q \in Rpc!ToSet(s.queue) \cap Requests : s.req[q].mid = 0
  BY DEF InLists
<1>6. Rpc!ToSet(started) \subseteq Rpc!ToSet(s.queue)
  BY DEF Picked
<1>7. \A v \in R \cap Requests, q \in Rpc!ToSet(s.running) \cap Requests :
              Rank(s.performed, v) < Rank(s.performed, q) /\ s.req[v].mid = 0 /\ s.req[q].mid # 0
                => q \in t.delayed
  BY DEF Left
<1> SUFFICES ASSUME NEW r \in Rpc!ToSet(t.running) \cap Requests, NEW q \in Rpc!ToSet(t.running) \cap Requests,
                    Rank(s.performed, r) < Rank(s.performed, q), q \notin t.delayed,
                    t.req[r].mid # 0, t.req[q].mid # 0
             PROVE  t.req[r].mid < t.req[q].mid
  BY <1>1 DEF Increasing
<1>8. /\ r \in DOMAIN s.req /\ t.req[r] = w[r] /\ (r \in Rpc!ToSet(s.running) \/ s.req[r].mid = 0)
      /\ q \in DOMAIN s.req /\ t.req[q] = w[q] /\ (q \in Rpc!ToSet(s.running) \/ s.req[q].mid = 0)
  BY <1>1, <1>2, <1>3, <1>5, <1>6
<1>9. CASE s.req[r].mid = 0 /\ s.req[q].mid = 0
  BY <1>3, <1>8, <1>9
<1>10. CASE s.req[r].mid = 0 /\ s.req[q].mid # 0
  BY <1>3, <1>7, <1>8, <1>10
<1>11. CASE s.req[r].mid # 0 /\ s.req[q].mid = 0
  <2>1. w[r].mid = s.req[r].mid /\ s.req[r].mid <= s.mid /\ q \in R
    BY <1>3, <1>4, <1>8, <1>11
  <2>2. w[q].mid > s.mid /\ w[r].mid \in Nat /\ w[q].mid \in Nat
    BY <2>1, <1>3, <1>8, <1>11
  <2> QED BY <2>1, <2>2, <1>3, <1>8
<1>12. CASE s.req[r].mid # 0 /\ s.req[q].mid # 0
  <2>1. s.req[r].mid < s.req[q].mid
    BY <1>1, <1>8, <1>12 DEF Increasing
  <2> QED BY <2>1, <1>3, <1>8, <1>12
<1> QED BY <1>9, <1>10, <1>11, <1>12

LEMMA SendAllGoing ==
    ASSUME NEW s, NEW t, NEW w, NEW resent, NEW started, NEW kn, NEW R,
           InLists(s), Ids(s, kn), Picked(s, resent, started),
           R = Rpc!ToSet(resent) \cup Rpc!ToSet(started),
           Numbering(s, t, w, R, kn), Listing(s, t, w, resent, started)
    PROVE  Going(s, t, w, R, kn)
<1>1. /\ t.performed = s.performed /\ s.delayed \subseteq t.delayed
      /\ Rpc!ToSet(t.running) = Rpc!ToSet(s.running) \cup Rpc!Answerable(started)
  BY DEF Listing
<1>2. Rpc!Answerable(started) \subseteq Rpc!ToSet(started)
  BY AnswerableAre
<1>3. /\ \A r \in DOMAIN s.req : w[r].mid # 0 => Owner(t, kn, w[r].mid, r)
      /\ \A r \in DOMAIN s.req : w[r].mid \in Nat /\ w[r].mid <= t.mid
  BY OwnersStay
<1>4. /\ t.mid \in Nat /\ DOMAIN w = DOMAIN s.req /\ R \subseteq DOMAIN s.req
      /\ \A r \in R : w[r].mid # 0
      /\ \A r, q \in DOMAIN s.req : w[r].mid = w[q].mid /\ w[r].mid # 0 => r = q
      /\ \A r \in DOMAIN s.req \ R : w[r] = s.req[r]
  BY DEF Numbering
<1>5. Rpc!ToSet(s.running) \subseteq DOMAIN s.req
  BY DEF InLists
<1>6. \A r \in Rpc!ToSet(t.running) \cap Requests :
          r \in DOMAIN w /\ (r \in R \/ (r \in Rpc!ToSet(s.running) /\ w[r] = s.req[r]))
  BY <1>1, <1>2, <1>4, <1>5
<1> QED BY <1>1, <1>3, <1>4, <1>6 DEF Going

LEMMA SendAllCovers ==
    ASSUME NEW s, NEW t, NEW u, NEW w, NEW kn, NEW ex, NEW R, NEW rs \in Seq(Names),
           LineTyped(s), InLists(s), Increasing(s), Ids(s, kn), Covers(s, kn, ex),
           Left(s, t, ex, R), Going(s, t, w, R, kn), Numbering(s, t, w, R, kn),
           R = Rpc!ToSet(rs), Rising(s.performed, rs),
           u.req = w, u.running = t.running, u.current = s.current, u.up = s.up, t.up = Delivered(u, rs),
           \A r \in R : Rpc!Dc(u, r) \in Dcs
    PROVE  Covers(t, kn, ex)
<1>1. t.performed = s.performed /\ s.delayed \subseteq t.delayed
  BY DEF Going
<1>2. \A r : Over(s, ex, r) => Over(t, ex, r)
  BY <1>1 DEF Over
<1>3. \A i, r : Owner(s, kn, i, r) => Owner(t, kn, i, r)
  BY OwnersStay
<1>4. ASSUME NEW r, NEW a, Covered(s, kn, ex, r, a) PROVE Covered(t, kn, ex, r, a)
  BY <1>1, <1>2, <1>3, <1>4 DEF Covered
<1>5. ASSUME NEW i, NEW a, NEW r \in Requests, Asks(t.up, kn, i, r, a)
      PROVE  r \in Rpc!ToSet(t.performed) /\ Covered(t, kn, ex, r, a)
  <2>1. DOMAIN u.up = Dcs /\ \A d \in Dcs : Packed(u.up[d])
    BY DEF LineTyped
  <2>2. CASE Asks(s.up, kn, i, r, a)
    BY <2>2, <1>1, <1>4 DEF Covers
  <2>3. CASE ~Asks(s.up, kn, i, r, a)
    <3>0. Asks(Delivered(u, rs), kn, i, r, a)
      BY <1>5
    <3>1. PICK d \in Dcs, k \in Seq(Names) :
            /\ k = Rpc!Kept(rs, {q \in Rpc!ToSet(rs) : Rpc!Dc(u, q) = d})
            /\ \E n \in DOMAIN k : r = k[n] /\ i = u.req[r].mid /\ a = Rpc!After(u, k, n)
      BY <3>0, <2>1, <2>3, NewMessages
    <3>2. PICK n \in DOMAIN k : r = k[n] /\ a = Rpc!After(u, k, n)
      BY <3>1
    <3>3. Rising(s.performed, k)
      BY <3>1, KeptRises
    <3>4. Rpc!ToSet(k) = R \cap {q \in R : Rpc!Dc(u, q) = d}
      BY <3>1, KeptOf
    <3>5. \A q \in R \cap Requests : Rpc!Dc(u, q) = Rpc!DatacenterWithId(s, None)
      BY DEF Rpc!Dc, Rpc!DatacenterWithId, InLists, Numbering
    <3>6. r \in Rpc!ToSet(k)
      BY <3>2 DEF Rpc!ToSet
    <3>7. Rpc!ToSet(k) \cap Requests = R \cap Requests
      BY <3>4, <3>5, <3>6
    <3>8. Covered(t, kn, ex, k[n], Rpc!After(u, k, n))
      BY <3>2, <3>3, <3>7, NewCovered
    <3>9. r \in Rpc!ToSet(t.performed)
      BY <3>4, <3>6, <1>1 DEF Left
    <3> QED BY <3>2, <3>8, <3>9
  <2> QED BY <2>2, <2>3
<1> QED BY <1>5 DEF Covers

(* The requests that are sent go to datacenters that are known.            *)
LEMMA PickedAre ==
    ASSUME NEW s, NEW kn, NEW resent, NEW started,
           LineTyped(s), InLists(s), Ids(s, kn), Picked(s, resent, started)
    PROVE  LET rs == resent \o started
           IN  /\ rs \in Seq(Names)
               /\ Rpc!ToSet(rs) = Rpc!ToSet(resent) \cup Rpc!ToSet(started)
               /\ Rising(s.performed, rs) /\ Numbered(s, rs)
               /\ \A r \in Rpc!ToSet(rs) : Rpc!Dc(s, r) \in Dcs
<1> DEFINE rs == resent \o started
           R == Rpc!ToSet(rs)
<1>1. /\ resent \in Seq(Names) /\ started \in Seq(Names)
      /\ Rpc!ToSet(resent) \subseteq Rpc!ToSet(s.running) /\ Rpc!ToSet(started) \subseteq Rpc!ToSet(s.queue)
      /\ \A r \in Rpc!ToSet(resent) \cup Rpc!ToSet(started) : Rpc!Sendable(s, r)
      /\ Rising(s.performed, resent) /\ Rising(s.performed, started)
  BY DEF Picked
<1>2. rs \in Seq(Names) /\ R = Rpc!ToSet(resent) \cup Rpc!ToSet(started)
  BY <1>1, Joined
<1>3. /\ Rpc!ToSet(s.running) \subseteq DOMAIN s.req /\ Rpc!ToSet(s.queue) \subseteq DOMAIN s.req
      /\ \A r \in Rpc!ToSet(s.running) \cap Requests, q \in Rpc!ToSet(s.queue) \cap Requests :
          Rank(s.performed, r) < Rank(s.performed, q)
  BY DEF InLists
<1>4. Rising(s.performed, rs)
  BY <1>1, <1>3, RisingJoined
<1> HIDE DEF rs, R
<1>5. \A r \in R : Rpc!Dc(s, r) \in Dcs /\ r \in DOMAIN s.req
  BY <1>1, <1>2, <1>3 DEF Rpc!Sendable, LineTyped
<1>6. /\ s.mid \in Nat /\ s.req \in [DOMAIN s.req -> Waiting]
      /\ \A r \in DOMAIN s.req : s.req[r].mid \in Nat
  BY DEF LineTyped, Waiting
<1>7. \A r \in DOMAIN s.req : s.req[r].mid # 0 => Owner(s, kn, s.req[r].mid, r)
  BY DEF Ids
<1>8. /\ \A r \in DOMAIN s.req : s.req[r].mid <= s.mid
      /\ \A r, q \in DOMAIN s.req : s.req[r].mid = s.req[q].mid /\ s.req[r].mid # 0 => r = q
  BY <1>6, <1>7 DEF Owner
<1>9. Numbered(s, rs)
  BY <1>5, <1>6, <1>8 DEF Numbered, R
<1> QED BY <1>2, <1>4, <1>5, <1>9 DEF rs, R

(* SendAll keeps the order.                                                *)
LEMMA SendAllLine ==
    ASSUME NEW s, NEW kn, NEW dn, NEW ex, NEW C, NEW resent, NEW started,
           Lined(s, kn, dn, ex, C), Picked(s, resent, started)
    PROVE  Lined(Rpc!SendAll(s, resent, started), kn, dn, ex, C)
<1> DEFINE t == Rpc!SendAll(s, resent, started)
           rs == resent \o started
           w == AllWithIds(s, rs)
           R == Rpc!ToSet(rs)
<1>1. /\ LineTyped(s) /\ InLists(s) /\ Ids(s, kn) /\ Increasing(s) /\ Covers(s, kn, ex) /\ Done(kn, ex)
      /\ Line(s, kn, dn, ex, C)
  BY DEF Lined, Line
<1>2. /\ rs \in Seq(Names) /\ R = Rpc!ToSet(resent) \cup Rpc!ToSet(started)
      /\ Rising(s.performed, rs) /\ Numbered(s, rs)
      /\ \A r \in R : Rpc!Dc(s, r) \in Dcs
  BY <1>1, PickedAre
<1>3. SentAway(s, t, resent, started)
  BY SendAllIs DEF Lined
<1> HIDE DEF t, rs
<1>4. /\ Shape(t) /\ Same(s, t, {"req", "mid", "running", "queue", "up", "delayed"})
      /\ t.mid = s.mid + Fresh(s, rs, Len(rs))
      /\ t.running = s.running \o Rpc!Kept(started, Rpc!Answerable(started))
      /\ t.queue = Rpc!Kept(s.queue, Rpc!ToSet(s.queue) \ Rpc!ToSet(started))
      /\ t.req = Remaining(w, started)
      /\ t.delayed = s.delayed \cup (Rpc!Passed(s, rs) \cap Requests)
  BY <1>3 DEF SentAway, Grows, rs
<1>5. PICK u : u.req = w /\ u.current = s.current /\ u.up = s.up /\ u.running = t.running /\ t.up = Delivered(u, rs)
  BY <1>3 DEF SentAway, rs
<1>6. /\ t.mid \in Nat /\ t.mid >= s.mid /\ s.mid \in Nat
      /\ w \in [DOMAIN s.req -> Waiting]
      /\ \A r \in DOMAIN s.req : w[r].dc = s.req[r].dc /\ w[r].completed = s.req[r].completed
      /\ \A r \in DOMAIN s.req : r \notin R \/ s.req[r].mid # 0 => w[r].mid = s.req[r].mid
      /\ \A r \in R : /\ w[r].mid # 0 /\ w[r].mid <= t.mid
                      /\ s.req[r].mid = 0 => w[r].mid > s.mid
      /\ \A r, q \in DOMAIN s.req : w[r].mid = w[q].mid /\ w[r].mid # 0 => r = q
      /\ \A r \in DOMAIN s.req \ R : w[r] = s.req[r]
      /\ R \subseteq DOMAIN s.req
  <2>1. s.mid \in Nat /\ R \subseteq DOMAIN s.req
    BY <1>2 DEF Numbered
  <2> QED BY <2>1, <1>2, <1>4, AllWithIdsAre
<1>7. \A r, q \in R :
         s.req[r].mid = 0 /\ s.req[q].mid = 0 /\ (\A i, j \in DOMAIN rs : rs[i] = r /\ rs[j] = q => i < j)
                       => w[r].mid < w[q].mid
  BY <1>2, AllWithIdsAre
<1> HIDE DEF w
<1>8. /\ t.performed = s.performed /\ t.completing = s.completing /\ t.linked = s.linked
  BY <1>4 DEF Same, FieldNames
<1>9. Left(s, t, ex, R)
  BY <1>1, <1>2, <1>4, LeftOut
<1>10. \A r, q \in R \cap Requests :
              Rank(s.performed, r) < Rank(s.performed, q) /\ s.req[r].mid = 0 /\ s.req[q].mid = 0
                => w[r].mid < w[q].mid
  <2> SUFFICES ASSUME NEW r \in R \cap Requests, NEW q \in R \cap Requests,
                      Rank(s.performed, r) < Rank(s.performed, q), s.req[r].mid = 0, s.req[q].mid = 0
               PROVE  w[r].mid < w[q].mid
    OBVIOUS
  <2>1. Rank(s.performed, r) \in Nat /\ Rank(s.performed, q) \in Nat
    BY <1>1, <1>9, Ranks DEF Left
  <2>2. ASSUME NEW i \in DOMAIN rs, NEW j \in DOMAIN rs, rs[i] = r, rs[j] = q PROVE i < j
    <3>1. i \in Nat /\ j \in Nat
      BY <1>2
    <3>2. ~(j < i) /\ i # j
      BY <2>1, <2>2, <1>2 DEF Rising
    <3> QED BY <3>1, <3>2
  <2> QED BY <2>2, <1>7
<1>11. \A r \in R : Rpc!Dc(u, r) = Rpc!Dc(s, r) /\ Rpc!Dc(u, r) \in Dcs
  BY <1>2, <1>5, <1>6 DEF Rpc!Dc, Rpc!DatacenterWithId
<1>12. DOMAIN u.up = Dcs /\ \A d \in Dcs : Packed(u.up[d])
  BY <1>1, <1>5 DEF LineTyped
<1>13. DOMAIN t.up = Dcs /\ \A d \in Dcs : Packed(t.up[d])
  <2> DEFINE up == Delivered(u, rs)
  <2>1. Brings(u, rs, Dcs, kn, dn, up)
    BY <1>2, <1>11, <1>12, DeliveredIs
  <2>2. t.up = up
    BY <1>5
  <2> HIDE DEF up
  <2> QED BY <2>1, <2>2 DEF Brings
<1>14. \A i, q, a : Asks(t.up, kn, i, q, a) => Asks(s.up, kn, i, q, a) \/ (q \in R /\ i = w[q].mid)
  <2> SUFFICES ASSUME NEW i, NEW q, NEW a, Asks(t.up, kn, i, q, a), ~Asks(s.up, kn, i, q, a)
               PROVE  q \in R /\ i = w[q].mid
    OBVIOUS
  <2>1. PICK d \in Dcs, k \in Seq(Names) :
            /\ k = Rpc!Kept(rs, {r \in Rpc!ToSet(rs) : Rpc!Dc(u, r) = d})
            /\ \E n \in DOMAIN k : q = k[n] /\ i = u.req[q].mid /\ a = Rpc!After(u, k, n)
    BY <1>2, <1>5, <1>11, <1>12, NewMessages
  <2>2. PICK n \in DOMAIN k : q = k[n] /\ i = u.req[q].mid
    BY <2>1
  <2>3. Rpc!ToSet(k) \subseteq R
    BY <2>1, <1>2, KeptOf
  <2> QED BY <2>2, <2>3, <1>5 DEF Rpc!ToSet
<1>15. /\ DOMAIN t.req = DOMAIN s.req \ (Rpc!ToSet(started) \ Rpc!Answerable(started))
       /\ \A r \in DOMAIN t.req : t.req[r] = w[r]
       /\ t.req \in [DOMAIN t.req -> Waiting]
  <2>1. t.req = [r \in DOMAIN w \ (Rpc!ToSet(started) \ Rpc!Answerable(started)) |-> w[r]]
    BY <1>4 DEF Remaining
  <2> QED BY <2>1, <1>6
<1>16. Numbering(s, t, w, R, kn)
  BY <1>6, <1>14, <1>15 DEF Numbering
<1>17. /\ started \in Seq(Names) /\ Rpc!ToSet(started) \subseteq Rpc!ToSet(s.queue)
       /\ Rising(s.performed, started)
       /\ s.running \in Seq(Names) /\ s.queue \in Seq(Names)
       /\ Rising(s.performed, s.running) /\ Rising(s.performed, s.queue)
       /\ \A r \in Rpc!ToSet(s.running) \cap Requests, q \in Rpc!ToSet(s.queue) \cap Requests :
             Rank(s.performed, r) < Rank(s.performed, q)
  BY <1>1 DEF Picked, LineTyped, InLists
<1>18. Listing(s, t, w, resent, started)
  <2> DEFINE k == Rpc!Kept(started, Rpc!Answerable(started))
             l == Rpc!Kept(s.queue, Rpc!ToSet(s.queue) \ Rpc!ToSet(started))
  <2>1. k \in Seq(Names) /\ Rpc!ToSet(k) = Rpc!Answerable(started) /\ Rising(s.performed, k)
    <3>1. Rpc!Answerable(started) = Rpc!ToSet(started) \cap Rpc!Answerable(started)
      BY AnswerableAre
    <3>2. k \in Seq(Names) /\ Rpc!ToSet(k) = Rpc!ToSet(started) \cap Rpc!Answerable(started)
      BY <1>17, KeptOf
    <3>3. Rising(s.performed, k)
      BY <1>17, KeptRises
    <3> QED BY <3>1, <3>2, <3>3
  <2>2. l \in Seq(Names) /\ Rpc!ToSet(l) = Rpc!ToSet(s.queue) \ Rpc!ToSet(started) /\ Rising(s.performed, l)
    BY <1>17, KeptOut, KeptRises, ZenonT(90)
  <2>3. t.running = s.running \o k /\ t.queue = l
    BY <1>4
  <2>4. Rpc!Answerable(started) \subseteq Rpc!ToSet(started)
    BY AnswerableAre
  <2> HIDE DEF k, l
  <2>5. t.running \in Seq(Names) /\ Rpc!ToSet(t.running) = Rpc!ToSet(s.running) \cup Rpc!Answerable(started)
    BY <2>1, <2>3, <1>17, Joined
  <2>6. Rising(s.performed, t.running)
    BY <2>1, <2>3, <2>4, <1>17, RisingJoined
  <2> QED BY <2>2, <2>3, <2>5, <2>6, <1>4, <1>8, <1>13, <1>15 DEF Listing
<1>19. Going(s, t, w, R, kn)
  BY <1>1, <1>2, <1>16, <1>18, SendAllGoing
<1>20. Increasing(t)
  BY <1>1, <1>2, <1>9, <1>10, <1>16, <1>18, SendAllIncreasing
<1>21. Covers(t, kn, ex)
  BY <1>1, <1>2, <1>5, <1>9, <1>11, <1>16, <1>19, SendAllCovers
<1>22. Ids(t, kn)
  BY <1>1, <1>16, OwnersStay
<1>23. /\ InLists(t) /\ LineTyped(t) /\ Present(t, ex) /\ Waits(t)
       /\ Finished(t, ex, C) /\ Told(t, dn, ex) /\ InTurn(t, ex)
  BY <1>1, <1>2, <1>16, <1>18, SendAllInLists
<1> QED BY <1>1, <1>4, <1>20, <1>21, <1>22, <1>23 DEF Lined, Line, t

(* A ping takes an id and is sent.                                         *)
LEMMA LineWithPing ==
    ASSUME NEW s, NEW t, NEW kn, NEW dn, NEW ex, NEW C, Line(s, kn, dn, ex, C),
           Same(s, t, {"up", "mid"}), t.mid = s.mid + 1,
           DOMAIN t.up = Dcs, \A d \in Dcs : Packed(t.up[d]),
           \A i, q, a : Asks(t.up, kn, i, q, a) =>
              Asks(s.up, kn, i, q, a) \/ (i = s.mid + 1 /\ q = <<"ping", 0>>)
    PROVE  Line(t, kn, dn, ex, C)
<1>1. /\ t.queue = s.queue /\ t.running = s.running /\ t.req = s.req /\ t.linked = s.linked
      /\ t.performed = s.performed /\ t.completing = s.completing /\ t.delayed = s.delayed
  BY DEF Same, FieldNames
<1>2. /\ LineTyped(s) /\ InLists(s) /\ Present(s, ex) /\ Ids(s, kn) /\ Finished(s, ex, C)
      /\ Increasing(s) /\ Waits(s) /\ Covers(s, kn, ex) /\ Done(kn, ex) /\ Told(s, dn, ex) /\ InTurn(s, ex)
  BY DEF Line
<1>3. s.mid \in Nat /\ t.mid \in Nat /\ s.mid <= t.mid /\ s.mid + 1 # 0 /\ ~(s.mid + 1 <= s.mid)
  BY <1>2 DEF LineTyped
<1>4. LineTyped(t)
  BY <1>1, <1>2, <1>3 DEF LineTyped
<1>5. \A r : Over(t, ex, r) = Over(s, ex, r)
  BY <1>1 DEF Over
<1>6. \A i, r : Owner(s, kn, i, r) => Owner(t, kn, i, r)
  <2> SUFFICES ASSUME NEW i, NEW r, Owner(s, kn, i, r) PROVE Owner(t, kn, i, r)
    OBVIOUS
  <2>1. i \in Nat /\ i # 0 /\ i <= s.mid /\ i <= t.mid /\ i # s.mid + 1
    BY <1>3 DEF Owner
  <2>2. \A q, a : Asks(t.up, kn, i, q, a) => q = r
    BY <2>1 DEF Owner
  <2>3. \A q \in DOMAIN t.req : t.req[q].mid = i => q = r
    BY <1>1 DEF Owner
  <2> QED BY <2>1, <2>2, <2>3 DEF Owner
<1>7. Owner(t, kn, s.mid + 1, <<"ping", 0>>)
  <2>1. \A q, a : Asks(t.up, kn, s.mid + 1, q, a) => q = <<"ping", 0>>
    BY <1>2, <1>3 DEF Ids, Owner
  <2>2. \A q \in DOMAIN t.req : t.req[q].mid # s.mid + 1
    BY <1>1, <1>2, <1>3 DEF Ids, Owner
  <2> QED BY <2>1, <2>2, <1>3 DEF Owner
<1>8. Ids(t, kn)
  <2>1. \A r \in DOMAIN t.req : t.req[r].mid # 0 => Owner(t, kn, t.req[r].mid, r)
    BY <1>1, <1>2, <1>6 DEF Ids
  <2>2. \A i, r, a : Asks(t.up, kn, i, r, a) => Owner(t, kn, i, r)
    BY <1>2, <1>6, <1>7 DEF Ids
  <2> QED BY <2>1, <2>2 DEF Ids
<1>9. \A r, a : Covered(s, kn, ex, r, a) => Covered(t, kn, ex, r, a)
  BY <1>1, <1>5, <1>6 DEF Covered
<1>10. Covers(t, kn, ex)
  <2>1. \A r \in Requests : r # <<"ping", 0>>
    BY RpcAssumption DEF Rpc!RequestsAssumption
  <2> QED BY <2>1, <1>1, <1>2, <1>9 DEF Covers
<1>11. InLists(t) /\ Increasing(t) /\ Waits(t) /\ InTurn(t, ex)
  BY <1>1, <1>2 DEF InLists, Increasing, Waits, InTurn
<1>12. Present(t, ex)
  BY <1>1, <1>2, <1>5 DEF Present
<1>13. Finished(t, ex, C)
  <2> SUFFICES ASSUME NEW i \in Rpc!ToSet(s.completing) \cup C
               PROVE  /\ i \in Nat /\ i # 0 /\ i <= t.mid
                      /\ \A r \in DOMAIN t.req \cap Requests : t.req[r].mid = i => Over(t, ex, r)
    BY <1>1 DEF Finished
  <2>1. /\ i \in Nat /\ i # 0 /\ i <= s.mid
        /\ \A r \in DOMAIN s.req \cap Requests : s.req[r].mid = i => Over(s, ex, r)
    BY <1>2 DEF Finished
  <2> QED BY <2>1, <1>1, <1>3, <1>5
<1>14. Told(t, dn, ex)
  <2> SUFFICES ASSUME NEW d \in Dcs, NEW g \in Rpc!ToSet(dn[d]), g.kind = "result"
               PROVE  /\ g.mid \in Nat /\ g.mid # 0 /\ g.mid <= t.mid
                      /\ g.what = "ok" =>
                           \A r \in DOMAIN t.req \cap Requests : t.req[r].mid = g.mid => r \in Rpc!ToSet(ex)
    BY DEF Told
  <2>1. /\ g.mid \in Nat /\ g.mid # 0 /\ g.mid <= s.mid
        /\ g.what = "ok" =>
               \A r \in DOMAIN s.req \cap Requests : s.req[r].mid = g.mid => r \in Rpc!ToSet(ex)
    BY <1>2 DEF Told
  <2> QED BY <2>1, <1>1, <1>3
<1> QED BY <1>2, <1>4, <1>8, <1>10, <1>11, <1>12, <1>13, <1>14 DEF Line

LEMMA GeneratePingLine ==
    ASSUME NEW s, NEW kn, NEW dn, NEW ex, NEW C, Lined(s, kn, dn, ex, C)
    PROVE  Lined(Rpc!GeneratePing(s), kn, dn, ex, C)
<1> DEFINE t == Rpc!GeneratePing(s)
           p == [session |-> s.session[s.current],
                 messages |-> <<[req |-> <<"ping", 0>>, mid |-> s.mid + 1, after |-> 0]>>]
<1>1. /\ Shape(t) /\ Same(s, t, {"up", "mid"})
      /\ \/ t = s
         \/ t.mid = s.mid + 1 /\ t.up = [s.up EXCEPT ![s.current] = Append(@, p)]
  BY GeneratePingIs DEF Lined
<1>2. /\ \A n \in DOMAIN p.messages : p.messages[n].mid = s.mid + 1 /\ p.messages[n].req = <<"ping", 0>>
      /\ \E n \in Nat : DOMAIN p.messages = 1 .. n
  <2>1. DOMAIN p.messages = 1 .. 1 /\ p.messages[1].mid = s.mid + 1 /\ p.messages[1].req = <<"ping", 0>>
    OBVIOUS
  <2>2. 1 \in Nat /\ \A n \in 1 .. 1 : n = 1
    OBVIOUS
  <2> HIDE DEF p
  <2> QED BY <2>1, <2>2
<1> HIDE DEF t, p
<1>3. CASE t = s
  BY <1>3 DEF t
<1>4. CASE t.mid = s.mid + 1 /\ t.up = [s.up EXCEPT ![s.current] = Append(@, p)]
  <2>1. Line(s, kn, dn, ex, C) /\ DOMAIN s.up = Dcs /\ \A d \in Dcs : Packed(s.up[d])
    BY DEF Lined, Line, LineTyped
  <2>2. /\ DOMAIN t.up = Dcs
        /\ \A d \in Dcs : t.up[d] = IF d = s.current THEN Append(s.up[d], p) ELSE s.up[d]
    BY <1>4, <2>1
  <2>3. \A d \in Dcs : /\ Packed(t.up[d])
                       /\ \A q \in Rpc!ToSet(t.up[d]) : q \in Rpc!ToSet(s.up[d]) \/ q = p
    <3> TAKE d \in Dcs
    <3>1. CASE d = s.current
      <4>1. t.up[d] = Append(s.up[d], p)
        BY <3>1, <2>2
      <4>2. Packed(Append(s.up[d], p)) /\ Rpc!ToSet(Append(s.up[d], p)) = Rpc!ToSet(s.up[d]) \cup {p}
        BY <2>1, <1>2, OnePacketMore
      <4> QED BY <4>1, <4>2
    <3>2. CASE d # s.current
      BY <3>2, <2>1, <2>2
    <3> QED BY <3>1, <3>2
  <2>4. \A i, q, a : Asks(t.up, kn, i, q, a) =>
              Asks(s.up, kn, i, q, a) \/ (i = s.mid + 1 /\ q = <<"ping", 0>>)
    BY <2>3, <1>2, ZenonT(90) DEF Asks
  <2>5. Line(t, kn, dn, ex, C)
    BY <1>1, <1>4, <2>1, <2>2, <2>3, <2>4, LineWithPing
  <2> QED BY <2>5, <1>1 DEF Lined, t
<1> QED BY <1>1, <1>3, <1>4

(* What processRequestQueue picks, s being the state before.               *)
LEMMA PickedByQueue ==
    ASSUME NEW s, NEW t, NEW forced, NEW d, LineTyped(s), InLists(s),
           Same(s, t, {"wanted", "handshakes"})
    PROVE  Picked(t, Rpc!Resent(s, forced, d), Rpc!Started(s))
<1> DEFINE resent == Rpc!Resent(s, forced, d)
           started == Rpc!Started(s)
<1>1. /\ t.performed = s.performed /\ t.running = s.running /\ t.queue = s.queue /\ t.req = s.req
      /\ t.current = s.current /\ t.moving = s.moving /\ t.keys = s.keys /\ t.linked = s.linked
      /\ t.authorized = s.authorized
  BY DEF Same, FieldNames
<1>2. \A r : Rpc!Sendable(t, r) = Rpc!Sendable(s, r)
  BY <1>1 DEF Rpc!Sendable, Rpc!MayUse, Rpc!Authorized, Rpc!Held, Rpc!Dc, Rpc!DatacenterWithId
<1>3. /\ s.running \in Seq(Names) /\ s.queue \in Seq(Names) /\ s.linked \subseteq Dcs
      /\ Rising(s.performed, s.running) /\ Rising(s.performed, s.queue)
  BY DEF LineTyped, InLists
<1>4. /\ \A r \in Rpc!ToSet(s.performed) : Rank(s.performed, r) \in Nat
      /\ \A r, q \in Rpc!ToSet(s.performed) : Rank(s.performed, r) = Rank(s.performed, q) => r = q
      /\ \A r \in Rpc!ToSet(s.running) \cap Requests : r \in Rpc!ToSet(s.performed) /\ s.req[r].dc = None
      /\ \A r \in Rpc!ToSet(s.queue) \cap Requests : r \in Rpc!ToSet(s.performed) /\ s.req[r].dc = None
  BY Ranks
<1>5. /\ resent \in Seq(Names) /\ Rpc!ToSet(resent) \subseteq Rpc!ToSet(s.running)
      /\ \A r \in Rpc!ToSet(resent) : Rpc!Sendable(s, r)
  BY <1>3, ResentIs
<1>6. /\ started \in Seq(Names) /\ Rpc!ToSet(started) \subseteq Rpc!ToSet(s.queue)
      /\ \A r \in Rpc!ToSet(started) : Rpc!Sendable(s, r)
  BY <1>3, StartedIs
<1>7. /\ Rising(s.performed, resent)
      /\ \A r \in Rpc!ToSet(s.running) :
                 Rpc!Sendable(s, r) /\ s.req[r].due /\ s.req[r].on # Rpc!Dc(s, r) => r \in Rpc!ToSet(resent)
  BY <1>3, ResentRises
<1>8. /\ Rising(s.performed, started)
      /\ \A q \in Rpc!ToSet(started) \cap Requests, x \in Rpc!ToSet(s.queue) \cap Requests :
                 Rank(s.performed, x) < Rank(s.performed, q) => x \in Rpc!ToSet(started)
  BY <1>3, <1>4, StartedRises
<1> HIDE DEF resent, started
<1>9. ASSUME NEW q \in (Rpc!ToSet(resent) \cup Rpc!ToSet(started)) \cap Requests,
             NEW x \in Rpc!ToSet(s.running) \cap Requests, s.req[x].due, s.req[x].on = None
      PROVE  x \in Rpc!ToSet(resent)
  <2>1. Rpc!Sendable(s, q) /\ s.req[q].dc = None /\ s.req[x].dc = None
    BY <1>4, <1>5, <1>6
  <2>2. Rpc!Dc(s, x) = Rpc!Dc(s, q)
    BY <2>1 DEF Rpc!Dc
  <2>3. Rpc!Sendable(s, x) /\ Rpc!Dc(s, x) \in Dcs
    BY <2>1, <2>2, <1>3 DEF Rpc!Sendable, Rpc!MayUse, Rpc!Authorized, Rpc!Held
  <2>4. s.req[x].on # Rpc!Dc(s, x)
    BY <2>3, <1>9, RpcAssumption DEF Rpc!DcsAssumption
  <2> QED BY <2>3, <2>4, <1>7, <1>9
<1>10. Picked(t, resent, started)
  BY <1>1, <1>2, <1>5, <1>6, <1>7, <1>8, <1>9 DEF Picked
<1> QED BY <1>10 DEF resent, started

(* processRequestQueue keeps the order.                                    *)
LEMMA ProcessRequestQueueLine ==
    ASSUME NEW s, NEW forced, NEW d, NEW kn, NEW dn, NEW ex, NEW C, Lined(s, kn, dn, ex, C)
    PROVE  Lined(Rpc!ProcessRequestQueue(s, forced, d), kn, dn, ex, C)
<1> DEFINE rs == Rpc!ToSet(s.running) \cup Rpc!ToSet(s.queue)
           asked == [s EXCEPT !.wanted = @ \cup Rpc!Wanted(s, rs) \cup Rpc!Needed(s, rs),
                              !.handshakes = @ \cup Rpc!Needed(s, rs)]
           resent == Rpc!Resent(s, forced, d)
           started == Rpc!Started(s)
           sent == Rpc!SendAll(asked, resent, started)
           pinged == IF forced /\ (d = None \/ sent.up[d] = s.up[d]) THEN Rpc!GeneratePing(sent) ELSE sent
           t == Rpc!ProcessRequestQueue(s, forced, d)
<1>0. Shape(s) /\ LineTyped(s) /\ InLists(s)
  BY DEF Lined, Line
<1>1. t = s \/ t = pinged
  BY DEF Rpc!ProcessRequestQueue, Rpc!Then
<1>2. Shape(asked)
  BY <1>0 DEF Shape, FieldNames
<1>3. Same(s, asked, {"wanted", "handshakes"})
  BY <1>0 DEF Same, Shape, FieldNames
<1> HIDE DEF asked, t
<1>4. Same(s, asked, FieldNames \ LineFields)
  BY <1>3 DEF Same, FieldNames, LineFields
<1>5. Lined(asked, kn, dn, ex, C)
  BY <1>2, <1>4, LinedStays
<1>6. Picked(asked, resent, started)
  BY <1>0, <1>3, PickedByQueue
<1> HIDE DEF resent, started
<1>7. Lined(sent, kn, dn, ex, C)
  BY <1>5, <1>6, SendAllLine
<1> HIDE DEF sent
<1>8. Lined(pinged, kn, dn, ex, C)
  BY <1>7, GeneratePingLine
<1> QED BY <1>1, <1>8 DEF t

(* The methods of a move keep the order.                                   *)
LEMMA AuthorizedLine ==
    ASSUME NEW s, NEW kn, NEW dn, NEW ex, NEW C, Lined(s, kn, dn, ex, C)
    PROVE  Lined(Rpc!AuthorizedOnMovingDatacenter(s), kn, dn, ex, C)
<1> DEFINE u == Rpc!Unlink(s, s.current)
           v == [u EXCEPT !.wanted = @ \ {s.current}, !.exported = FALSE, !.current = s.moving, !.moving = None]
           t == Rpc!ProcessRequestQueue(v, FALSE, None)
<1>1. Rpc!AuthorizedOnMovingDatacenter(s) = t
  BY DEF Rpc!AuthorizedOnMovingDatacenter
<1>2. Lined(u, kn, dn, ex, C)
  BY LineUnlinks
<1> HIDE DEF u
<1>3. Shape(v) /\ Same(u, v, {"wanted", "exported", "current", "moving"})
  BY <1>2 DEF Lined, Shape, FieldNames, Same
<1> HIDE DEF v
<1>4. Same(u, v, FieldNames \ LineFields)
  BY <1>3 DEF Same, FieldNames, LineFields
<1>5. Lined(v, kn, dn, ex, C)
  BY <1>2, <1>3, <1>4, LinedStays
<1>6. Lined(t, kn, dn, ex, C)
  BY <1>5, ProcessRequestQueueLine
<1> QED BY <1>1, <1>6

LEMMA AuthorizeLine ==
    ASSUME NEW s, NEW kn, NEW dn, NEW ex, NEW C, Lined(s, kn, dn, ex, C)
    PROVE  Lined(Rpc!AuthorizeOnMovingDatacenter(s), kn, dn, ex, C)
<1> DEFINE e == Rpc!DatacenterWithId(s, s.moving)
           v == Rpc!RecreateSessions(s, e)
           w == Rpc!ClearRequestsForDatacenter(v, e)
           k == IF e \in s.keys THEN w ELSE Rpc!Handshake(w, e)
           p == Rpc!PerformRpc(k, "import", e, e)
           a == Rpc!AuthorizedOnMovingDatacenter(k)
           t == Rpc!AuthorizeOnMovingDatacenter(s)
<1>1. t = IF s.exported THEN p ELSE a
  BY DEF Rpc!AuthorizeOnMovingDatacenter, Rpc!Then
<1> HIDE DEF e, t
<1>2. Lined(v, kn, dn, ex, C)
  BY LineRecreates
<1> HIDE DEF v
<1>3. Lined(w, kn, dn, ex, C)
  BY <1>2, LineClearsDatacenter
<1> HIDE DEF w
<1>4. Lined(k, kn, dn, ex, C)
  BY <1>3, LineHandshakes
<1> HIDE DEF k
<1>5. Lined(p, kn, dn, ex, C) /\ Lined(a, kn, dn, ex, C)
  BY <1>4, LinePerforms, AuthorizedLine
<1> HIDE DEF p, a
<1> QED BY <1>1, <1>5 DEF t

LEMMA MoveLine ==
    ASSUME NEW s, NEW d, NEW kn, NEW dn, NEW ex, NEW C, Lined(s, kn, dn, ex, C)
    PROVE  Lined(Rpc!MoveToDatacenter(s, d), kn, dn, ex, C)
<1> DEFINE u == [s EXCEPT !.moving = d]
           w == Rpc!ClearRequestsForDatacenter(u, s.current)
           p == Rpc!PerformRpc(w, "export", d, s.current)
           q == [p EXCEPT !.stuck = @ \/ Rpc!Counted(s.running) >= MaxGeneric]
           a == Rpc!AuthorizeOnMovingDatacenter(w)
           t == Rpc!MoveToDatacenter(s, d)
<1>1. t = IF s.moving = d THEN s ELSE IF s.activated THEN q ELSE a
  BY DEF Rpc!MoveToDatacenter, Rpc!Then
<1> HIDE DEF t
<1>2. Shape(u) /\ Same(s, u, FieldNames \ LineFields)
  BY DEF Lined, Shape, FieldNames, Same, LineFields
<1> HIDE DEF u
<1>3. Lined(u, kn, dn, ex, C)
  BY <1>2, LinedStays
<1>4. Lined(w, kn, dn, ex, C)
  BY <1>3, LineClearsDatacenter
<1> HIDE DEF w
<1>5. Lined(p, kn, dn, ex, C) /\ Lined(a, kn, dn, ex, C)
  BY <1>4, LinePerforms, AuthorizeLine
<1> HIDE DEF p, a
<1>6. Shape(q) /\ Same(p, q, FieldNames \ LineFields)
  BY <1>5 DEF Lined, Shape, FieldNames, Same, LineFields
<1> HIDE DEF q
<1>7. Lined(q, kn, dn, ex, C)
  BY <1>5, <1>6, LinedStays
<1> QED BY <1>1, <1>5, <1>7 DEF t

(* More requests are excused.                                              *)
LEMMA LineExcuses ==
    ASSUME NEW s, NEW t, NEW kn, NEW dn, NEW ex, NEW C, Line(s, kn, dn, ex, C),
           Same(s, t, (FieldNames \ LineFields) \cup {"delayed"}), s.delayed \subseteq t.delayed
    PROVE  Line(t, kn, dn, ex, C)
<1>1. t.running = s.running /\ t.req = s.req /\ t.up = s.up /\ t.linked = s.linked /\ t.completing = s.completing
  BY DEF Same, FieldNames, LineFields
<1>2. LineTyped(s)
  BY DEF Line
<1>3. /\ t.req \in [DOMAIN s.req -> Waiting] /\ DOMAIN t.up = Dcs /\ \A d \in Dcs : Packed(t.up[d])
      /\ t.linked \subseteq Dcs /\ t.completing \in Seq(Nat)
  BY <1>1, <1>2 DEF LineTyped
<1>4. Same(s, t, (FieldNames \ LineFields) \cup {"req", "up", "linked", "delayed", "completing"})
  BY DEF Same, FieldNames, LineFields
<1>5. \A r \in Rpc!ToSet(s.running) \cap Requests : t.req[r].mid = 0 =>
              s.req[r].mid = 0 /\ (s.req[r].due /\ s.req[r].on = None => t.req[r].due /\ t.req[r].on = None)
  BY <1>1
<1> QED BY <1>1, <1>3, <1>4, <1>5, LineKeeps

(* The callbacks, of the class's own requests and of the caller's.         *)
LEMMA CallbackLine ==
    ASSUME NEW s, NEW r, NEW ok, NEW kn, NEW dn, NEW ex, NEW C, Lined(s, kn, dn, ex, C)
    PROVE  Lined(Rpc!Callback(s, r, ok), kn, dn, ex, C)
<1> DEFINE t == Rpc!Callback(s, r, ok)
           o == [s EXCEPT !.ended[r] = @ + 1, !.delayed = IF ok THEN @ ELSE @ \cup {r}]
           e1 == [s EXCEPT !.exported = TRUE]
           e0 == [s EXCEPT !.exported = FALSE]
           g == [s EXCEPT !.again = @ \cup {r[3]}, !.stuck = TRUE]
           f == [s EXCEPT !.exported = FALSE, !.stuck = TRUE]
<1>1. t = IF r \in Requests THEN o
          ELSE IF r[1] = "export"
          THEN IF ok THEN Rpc!AuthorizeOnMovingDatacenter(e1) ELSE g
          ELSE IF ok THEN Rpc!AuthorizedOnMovingDatacenter(e0) ELSE Rpc!MoveToDatacenter(f, s.moving)
  BY DEF Rpc!Callback
<1> HIDE DEF t
<1>2. /\ Shape(e1) /\ Same(s, e1, FieldNames \ LineFields)
      /\ Shape(e0) /\ Same(s, e0, FieldNames \ LineFields)
      /\ Shape(f) /\ Same(s, f, FieldNames \ LineFields)
      /\ Shape(g) /\ Same(s, g, FieldNames \ LineFields)
  BY ZenonT(90) DEF Lined, Shape, FieldNames, Same, LineFields
<1>3. /\ Shape(o) /\ Same(s, o, (FieldNames \ LineFields) \cup {"delayed"})
      /\ o.delayed = IF ok THEN s.delayed ELSE s.delayed \cup {r}
  BY DEF Lined, Shape, FieldNames, Same, LineFields
<1> HIDE DEF e1, e0, f, g, o
<1>4. Lined(e1, kn, dn, ex, C) /\ Lined(e0, kn, dn, ex, C) /\ Lined(f, kn, dn, ex, C) /\ Lined(g, kn, dn, ex, C)
  BY <1>2, LinedStays
<1>5. s.delayed \subseteq o.delayed
  BY <1>3
<1>6. Lined(o, kn, dn, ex, C)
  BY <1>3, <1>5, LineExcuses DEF Lined
<1>7. /\ Lined(Rpc!AuthorizeOnMovingDatacenter(e1), kn, dn, ex, C)
      /\ Lined(Rpc!AuthorizedOnMovingDatacenter(e0), kn, dn, ex, C)
      /\ Lined(Rpc!MoveToDatacenter(f, s.moving), kn, dn, ex, C)
  BY <1>4, AuthorizeLine, AuthorizedLine, MoveLine
<1> QED BY <1>1, <1>4, <1>6, <1>7 DEF t

(* A request is marked completed, its id among those that rpcCompleted     *)
(* looks for.                                                              *)
LEMMA CompletedLine ==
    ASSUME NEW s, NEW r, NEW i \in Nat, NEW kn, NEW dn, NEW ex, Lined(s, kn, dn, ex, {i})
    PROVE  Lined(Rpc!Completed(s, r, i), kn, dn, ex, {})
<1> DEFINE t == Rpc!Completed(s, r, i)
<1>0. Shape(s) /\ Line(s, kn, dn, ex, {i}) /\ LineTyped(s) /\ InLists(s)
  BY DEF Lined, Line
<1>1. /\ Shape(t) /\ Same(s, t, {"req", "completing"})
      /\ t.req = [s.req EXCEPT ![r].completed = TRUE] /\ t.completing = Append(s.completing, i)
  BY <1>0 DEF Shape, FieldNames, Same, Rpc!Completed
<1> HIDE DEF t
<1>2. /\ s.req \in [DOMAIN s.req -> Waiting] /\ s.completing \in Seq(Nat)
      /\ DOMAIN s.up = Dcs /\ (\A d \in Dcs : Packed(s.up[d])) /\ s.linked \subseteq Dcs
  BY <1>0 DEF LineTyped
<1>a. DOMAIN t.req = DOMAIN s.req
  BY <1>1, <1>2
<1>3. \A q \in DOMAIN s.req : /\ t.req[q] \in Waiting /\ t.req[q].mid = s.req[q].mid
                              /\ t.req[q].dc = s.req[q].dc /\ t.req[q].due = s.req[q].due
                              /\ t.req[q].on = s.req[q].on
  <2> TAKE q \in DOMAIN s.req
  <2>1. s.req[q] \in Waiting
    BY <1>2
  <2>2. t.req[q] = IF q = r THEN [s.req[q] EXCEPT !.completed = TRUE] ELSE s.req[q]
    BY <1>1, <1>2
  <2> QED BY <2>1, <2>2 DEF Waiting
<1>4. t.req \in [DOMAIN s.req -> Waiting]
  <2>1. t.req = [q \in DOMAIN s.req |-> t.req[q]]
    BY <1>1, <1>2
  <2> QED BY <2>1, <1>a, <1>3
<1>5. t.completing \in Seq(Nat) /\ Rpc!ToSet(t.completing) = Rpc!ToSet(s.completing) \cup {i}
  <2> DEFINE l == s.completing
             k == Append(l, i)
  <2>1. /\ k \in Seq(Nat) /\ Len(l) \in Nat /\ DOMAIN l = 1 .. Len(l) /\ DOMAIN k = 1 .. Len(l) + 1
        /\ k[Len(l) + 1] = i /\ \A j \in 1 .. Len(l) : k[j] = l[j]
    BY <1>2
  <2>2. t.completing = k
    BY <1>1
  <2> HIDE DEF k
  <2>3. Rpc!ToSet(k) = Rpc!ToSet(l) \cup {i}
    <3>1. 1 .. Len(l) + 1 = 1 .. Len(l) \cup {Len(l) + 1}
      BY <2>1
    <3> QED BY <3>1, <2>1 DEF Rpc!ToSet
  <2> QED BY <2>1, <2>2, <2>3
<1>6. t.running = s.running /\ t.up = s.up /\ t.linked = s.linked /\ t.delayed = s.delayed
  BY <1>1 DEF Same, FieldNames
<1>7. Same(s, t, (FieldNames \ LineFields) \cup {"req", "up", "linked", "delayed", "completing"})
  BY <1>1 DEF Same, FieldNames, LineFields
<1>8. \A q \in Rpc!ToSet(s.running) \cap Requests : t.req[q].mid = 0 =>
              s.req[q].mid = 0 /\ (s.req[q].due /\ s.req[q].on = None => t.req[q].due /\ t.req[q].on = None)
  BY <1>0, <1>a, <1>3 DEF InLists
<1>9. \A q \in DOMAIN s.req : t.req[q].dc = s.req[q].dc /\ (t.req[q].mid = 0 \/ t.req[q].mid = s.req[q].mid)
  BY <1>3
<1>10. Line(t, kn, dn, ex, {})
  BY <1>0, <1>2, <1>a, <1>3, <1>4, <1>5, <1>6, <1>7, <1>8, <1>9, LineKeeps
<1> QED BY <1>1, <1>10 DEF Lined, t

(* A request waits to be sent again.                                       *)
LEMMA SentAgainLine ==
    ASSUME NEW s, NEW r \in Rpc!ToSet(s.running), NEW what, NEW kn, NEW dn, NEW ex, NEW C, Lined(s, kn, dn, ex, C)
    PROVE  Lined(Rpc!SentAgain(s, r, what), kn, dn, ex, C)
<1> DEFINE t == Rpc!SentAgain(s, r, what)
           q == [s.req[r] EXCEPT !.mid = 0, !.on = None, !.due = @ /\ what # "420"]
<1>0. Shape(s) /\ Line(s, kn, dn, ex, C) /\ LineTyped(s) /\ InLists(s)
  BY DEF Lined, Line
<1>1. /\ Shape(t) /\ Same(s, t, {"req", "delayed"})
      /\ t.req = [s.req EXCEPT ![r] = q] /\ t.delayed = s.delayed \cup {r}
  BY <1>0 DEF Shape, FieldNames, Same, Rpc!SentAgain
<1>2. /\ s.req \in [DOMAIN s.req -> Waiting] /\ s.completing \in Seq(Nat)
      /\ DOMAIN s.up = Dcs /\ (\A d \in Dcs : Packed(s.up[d])) /\ s.linked \subseteq Dcs
      /\ r \in DOMAIN s.req /\ Rpc!ToSet(s.running) \subseteq DOMAIN s.req
  BY <1>0 DEF LineTyped, InLists
<1>3. q \in Waiting /\ q.mid = 0 /\ q.dc = s.req[r].dc
  <2>1. s.req[r] \in Waiting
    BY <1>2
  <2> QED BY <2>1 DEF Waiting
<1> HIDE DEF t, q
<1>4. /\ DOMAIN t.req = DOMAIN s.req /\ t.req[r] = q
      /\ \A x \in DOMAIN s.req \ {r} : t.req[x] = s.req[x]
      /\ t.req \in [DOMAIN s.req -> Waiting]
  BY <1>1, <1>2, <1>3
<1>5. t.running = s.running /\ t.up = s.up /\ t.linked = s.linked /\ t.completing = s.completing
  BY <1>1 DEF Same, FieldNames
<1>6. Same(s, t, (FieldNames \ LineFields) \cup {"req", "up", "linked", "delayed", "completing"})
  BY <1>1 DEF Same, FieldNames, LineFields
<1>7. \A x \in DOMAIN s.req : t.req[x].dc = s.req[x].dc /\ (t.req[x].mid = 0 \/ t.req[x].mid = s.req[x].mid)
  BY <1>3, <1>4
<1>8. \A x \in Rpc!ToSet(s.running) \cap Requests : t.req[x].mid = 0 =>
              \/ x \in t.delayed
              \/ s.req[x].mid = 0 /\ (s.req[x].due /\ s.req[x].on = None => t.req[x].due /\ t.req[x].on = None)
  BY <1>1, <1>2, <1>4
<1>9. Line(t, kn, dn, ex, C)
  BY <1>0, <1>1, <1>2, <1>4, <1>5, <1>6, <1>7, <1>8, LineKeeps
<1> QED BY <1>1, <1>9 DEF Lined, t

(* An id is looked for when all requests under it are over.                *)
LEMMA LineFinishes ==
    ASSUME NEW s, NEW i \in Nat \ {0}, NEW kn, NEW dn, NEW ex, Lined(s, kn, dn, ex, {}), i <= s.mid,
           \A r \in DOMAIN s.req \cap Requests : s.req[r].mid = i => Over(s, ex, r)
    PROVE  Lined(s, kn, dn, ex, {i})
<1>1. Finished(s, ex, {})
  BY DEF Lined, Line
<1>2. Finished(s, ex, {i})
  BY <1>1 DEF Finished
<1> QED BY <1>2 DEF Lined, Line

(* An answer is handled.                                                   *)
LEMMA AnsweredLine ==
    ASSUME NEW s, NEW r \in Rpc!ToSet(s.running), NEW i \in Nat \ {0}, NEW ok \in BOOLEAN,
           NEW kn, NEW dn, NEW ex, Lined(s, kn, dn, ex, {}), i <= s.mid, s.req[r].mid = i,
           ok => \A q \in DOMAIN s.req \cap Requests : s.req[q].mid = i => q \in Rpc!ToSet(ex)
    PROVE  Lined(Rpc!Completed(Rpc!Callback(s, r, ok), r, i), kn, dn, ex, {})
<1> DEFINE t == Rpc!Callback(s, r, ok)
<1>1. Lined(t, kn, dn, ex, {})
  BY CallbackLine
<1>2. \A q \in DOMAIN s.req : s.req[q].mid = i => q = r
  <2>1. r \in DOMAIN s.req /\ Ids(s, kn)
    BY DEF Lined, Line, InLists
  <2>2. Owner(s, kn, i, r)
    BY <2>1 DEF Ids
  <2> QED BY <2>2 DEF Owner
<1>3. CASE ok \/ r \notin Requests
  <2>1. \A q \in DOMAIN s.req \cap Requests : s.req[q].mid = i => Over(s, ex, q)
    BY <1>2, <1>3 DEF Over
  <2>2. Lined(s, kn, dn, ex, {i})
    BY <2>1, LineFinishes
  <2>3. Lined(t, kn, dn, ex, {i})
    BY <2>2, CallbackLine
  <2> QED BY <2>3, CompletedLine
<1>4. CASE ~ok /\ r \in Requests
  <2>1. t.req = s.req /\ t.mid = s.mid /\ r \in t.delayed
    BY <1>4 DEF Lined, Shape, FieldNames, Rpc!Callback
  <2> HIDE DEF t
  <2>2. \A q \in DOMAIN t.req \cap Requests : t.req[q].mid = i => Over(t, ex, q)
    BY <2>1, <1>2 DEF Over
  <2>3. Lined(t, kn, dn, ex, {i})
    BY <2>1, <2>2, <1>1, LineFinishes
  <2>4. Lined(Rpc!Completed(t, r, i), kn, dn, ex, {})
    BY <2>3, CompletedLine
  <2> QED BY <2>4 DEF t
<1> QED BY <1>3, <1>4

(* A message that the client handles.                                      *)
LineMessage(s, ex, g) ==
    g.kind = "result" =>
        /\ g.mid \in Nat \ {0} /\ g.mid <= s.mid
        /\ g.what = "ok" => \A r \in DOMAIN s.req \cap Requests : s.req[r].mid = g.mid => r \in Rpc!ToSet(ex)

LEMMA RpcResultLine ==
    ASSUME NEW s, NEW g, NEW kn, NEW dn, NEW ex, Lined(s, kn, dn, ex, {}),
           g.kind = "result", LineMessage(s, ex, g)
    PROVE  Lined(Rpc!RpcResult(s, g), kn, dn, ex, {})
<1> DEFINE mine == {r \in Rpc!ToSet(s.running) : s.req[r].mid = g.mid}
           r == CHOOSE y \in mine : TRUE
           back == Rpc!SentAgain(s, r, g.what)
           done == Rpc!Completed(Rpc!Callback(s, r, g.what = "ok"), r, g.mid)
           after == IF g.what \in Dcs THEN Rpc!MoveToDatacenter(s, g.what)
                    ELSE IF mine = {} THEN s
                    ELSE IF g.what \in {"500", "420"} THEN back ELSE done
           t == Rpc!ProcessRequestQueue(after, FALSE, None)
<1>1. Rpc!RpcResult(s, g) = t
  BY DEF Rpc!RpcResult
<1>2. CASE g.what \in Dcs
  <2>1. after = Rpc!MoveToDatacenter(s, g.what)
    BY <1>2
  <2> HIDE DEF after
  <2>2. Lined(after, kn, dn, ex, {})
    BY <2>1, MoveLine
  <2> QED BY <2>2, <1>1, ProcessRequestQueueLine
<1>3. CASE g.what \notin Dcs /\ mine = {}
  <2>1. after = s
    BY <1>3
  <2> HIDE DEF after
  <2> QED BY <2>1, <1>1, ProcessRequestQueueLine
<1>4. CASE g.what \notin Dcs /\ mine # {}
  <2>1. r \in Rpc!ToSet(s.running) /\ s.req[r].mid = g.mid
    BY <1>4
  <2> HIDE DEF r
  <2>2. Lined(back, kn, dn, ex, {})
    BY <2>1, SentAgainLine
  <2>3. Lined(done, kn, dn, ex, {})
    <3>1. /\ g.mid \in Nat \ {0} /\ g.mid <= s.mid /\ (g.what = "ok") \in BOOLEAN
          /\ g.what = "ok" => \A q \in DOMAIN s.req \cap Requests : s.req[q].mid = g.mid => q \in Rpc!ToSet(ex)
      BY DEF LineMessage
    <3> QED BY <2>1, <3>1, AnsweredLine
  <2>4. after = back \/ after = done
    BY <1>4
  <2> HIDE DEF after, back, done
  <2>5. Lined(after, kn, dn, ex, {})
    BY <2>2, <2>3, <2>4
  <2> QED BY <2>5, <1>1, ProcessRequestQueueLine
<1> QED BY <1>2, <1>3, <1>4

LEMMA ProcessMessageLine ==
    ASSUME NEW s, NEW d, NEW g, NEW kn, NEW dn, NEW ex, Lined(s, kn, dn, ex, {}),
           g.kind \in {"new", "result", "bad", "salt"}, LineMessage(s, ex, g)
    PROVE  Lined(Rpc!ProcessMessage(s, d, g), kn, dn, ex, {})
<1> DEFINE t == Rpc!ProcessMessage(s, d, g)
<1>1. CASE g.kind = "new"
  <2> DEFINE S == {r \in Rpc!RunningIn(s, d) : s.req[r].mid < g.first}
  <2>1. t = Rpc!ClearRequests(s, S)
    BY <1>1 DEF Rpc!ProcessMessage, Rpc!NewSessionCreated
  <2>2. S \subseteq Rpc!ToSet(s.running)
    BY DEF Rpc!RunningIn
  <2> HIDE DEF S
  <2> QED BY <2>1, <2>2, LineClears
<1>2. CASE g.kind = "result"
  <2>1. t = Rpc!RpcResult(s, g)
    BY <1>2 DEF Rpc!ProcessMessage
  <2> QED BY <2>1, <1>2, RpcResultLine
<1>3. CASE g.kind = "bad"
  <2>1. t = Rpc!ClearRequestsForDatacenter(Rpc!RecreateSessions(s, d), d)
    BY <1>3 DEF Rpc!ProcessMessage, Rpc!BadMsgNotification
  <2>2. Lined(Rpc!RecreateSessions(s, d), kn, dn, ex, {})
    BY LineRecreates
  <2> QED BY <2>1, <2>2, LineClearsDatacenter
<1>4. CASE g.kind = "salt"
  <2>1. t = Rpc!ProcessRequestQueue(s, TRUE, d)
    BY <1>4 DEF Rpc!ProcessMessage, Rpc!BadServerSalt
  <2> QED BY <2>1, ProcessRequestQueueLine
<1> QED BY <1>1, <1>2, <1>3, <1>4

-----------------------------------------------------------------------------
(* The operations of the client.                                           *)

(* A request of the caller's joins the queue.                              *)
LEMMA JoinsLine ==
    ASSUME NEW s, NEW r \in Requests, NEW kn, NEW dn, NEW ex, Lined(s, kn, dn, ex, {}),
           r \notin Rpc!ToSet(s.performed)
    PROVE  Lined([s EXCEPT !.req = Rpc!Updated(@, [x \in {r} |-> Rpc!New(None)]), !.queue = Append(@, r),
                           !.performed = Append(@, r)], kn, dn, ex, {})
<1> DEFINE t == [s EXCEPT !.req = Rpc!Updated(@, [x \in {r} |-> Rpc!New(None)]), !.queue = Append(@, r),
                          !.performed = Append(@, r)]
           perf == s.performed
           more == t.performed
           n == Len(perf)
<1>0. Line(s, kn, dn, ex, {}) /\ LineTyped(s) /\ InLists(s)
  BY DEF Lined, Line
<1>1. /\ Shape(t) /\ Same(s, t, {"req", "queue", "performed"})
      /\ t.req = Rpc!Updated(s.req, [x \in {r} |-> Rpc!New(None)])
      /\ t.queue = Append(s.queue, r) /\ more = Append(perf, r)
  BY DEF Lined, Shape, FieldNames, Same
<1> HIDE DEF t
<1>2. /\ t.running = s.running /\ t.mid = s.mid /\ t.linked = s.linked /\ t.up = s.up
      /\ t.completing = s.completing /\ t.delayed = s.delayed
  BY <1>1 DEF Same, FieldNames
<1>3. r \notin DOMAIN s.req /\ r \in Names
  BY <1>0 DEF InLists, Names
<1>4. /\ DOMAIN t.req = DOMAIN s.req \cup {r} /\ t.req = [y \in DOMAIN t.req |-> t.req[y]]
      /\ t.req[r] = Rpc!New(None) /\ \A y \in DOMAIN s.req : t.req[y] = s.req[y]
  BY <1>1, <1>3, UpdatedIs
<1>5. t.req[r] \in Waiting /\ t.req[r].mid = 0 /\ t.req[r].dc = None
  BY <1>4 DEF Rpc!New, Waiting
<1>6. /\ perf \in Seq(Requests) /\ s.queue \in Seq(Names)
      /\ s.running \in Seq(Names) /\ \A i, j \in DOMAIN perf : perf[i] = perf[j] => i = j
  BY <1>0 DEF LineTyped, InLists
<1>7. t.queue \in Seq(Names) /\ Rpc!ToSet(t.queue) = Rpc!ToSet(s.queue) \cup {r}
  BY <1>1, <1>3, <1>6, OneAppended
<1>8. more \in Seq(Requests) /\ Rpc!ToSet(more) = Rpc!ToSet(perf) \cup {r}
  BY <1>1, <1>6, OneAppended
<1>9. /\ n \in Nat /\ DOMAIN perf = 1 .. n /\ DOMAIN more = 1 .. n + 1 /\ more[n + 1] = r
      /\ \A i \in 1 .. n : more[i] = perf[i]
  BY <1>1, <1>6
<1> HIDE DEF more, n, perf
<1>10. \A i \in 1 .. n : perf[i] # r
  <2>1. \A i \in 1 .. n : perf[i] \in Rpc!ToSet(perf)
    BY <1>9 DEF Rpc!ToSet
  <2> QED BY <2>1 DEF perf
<1>11. \A i, j \in DOMAIN more : more[i] = more[j] => i = j
  <2> TAKE i, j \in DOMAIN more
  <2>1. i \in 1 .. n \/ i = n + 1
    BY <1>9
  <2>2. j \in 1 .. n \/ j = n + 1
    BY <1>9
  <2> QED BY <2>1, <2>2, <1>6, <1>9, <1>10
<1>12. \A x \in Rpc!ToSet(perf) : Rank(more, x) = Rank(perf, x) /\ Rank(perf, x) \in 1 .. n
  <2> TAKE x \in Rpc!ToSet(perf)
  <2> DEFINE p == Rank(perf, x)
  <2>1. p \in DOMAIN perf /\ perf[p] = x
    BY <1>6, RankIs
  <2> HIDE DEF p
  <2>2. p \in DOMAIN more /\ more[p] = x
    BY <2>1, <1>9
  <2>3. Rank(more, more[p]) = p
    BY <2>2, <1>8, <1>11, RankIs
  <2> QED BY <2>1, <2>2, <2>3, <1>9 DEF p
<1>13. Rank(more, r) = n + 1
  <2>1. n + 1 \in DOMAIN more
    BY <1>9
  <2>2. Rank(more, more[n + 1]) = n + 1
    BY <2>1, <1>8, <1>11, RankIs
  <2> QED BY <2>2, <1>9
<1>14. \A x, y \in Rpc!ToSet(more) : Rank(more, x) < Rank(more, y) =>
            /\ x \in Rpc!ToSet(perf)
            /\ y \in Rpc!ToSet(perf) => Rank(perf, x) < Rank(perf, y)
  <2> TAKE x, y \in Rpc!ToSet(more)
  <2>1. x = r \/ (x \in Rpc!ToSet(perf) /\ Rank(more, x) = Rank(perf, x) /\ Rank(perf, x) \in 1 .. n)
    BY <1>8, <1>12
  <2>2. y = r \/ (y \in Rpc!ToSet(perf) /\ Rank(more, y) = Rank(perf, y) /\ Rank(perf, y) \in 1 .. n)
    BY <1>8, <1>12
  <2>3. r \notin Rpc!ToSet(perf)
    BY DEF perf
  <2> QED BY <2>1, <2>2, <2>3, <1>9, <1>13
<1>15. \A x : Over(t, ex, x) = Over(s, ex, x)
  BY <1>2 DEF Over
<1>16. \A i, q : Owner(s, kn, i, q) => Owner(t, kn, i, q)
  BY <1>2, <1>4, <1>5 DEF Owner
<1>17. \A q \in (Rpc!ToSet(s.running) \cup Rpc!ToSet(s.queue)) \cap Requests : q \in Rpc!ToSet(perf)
  BY <1>0 DEF InLists, perf
<1>18. LineTyped(t)
  <2>1. DOMAIN t.req \subseteq Names /\ t.req \in [DOMAIN t.req -> Waiting]
    BY <1>0, <1>3, <1>4, <1>5 DEF LineTyped
  <2> QED BY <2>1, <1>0, <1>2, <1>7, <1>8 DEF LineTyped, more
<1>19. InLists(t)
  <2>1. Rising(more, t.running)
    <3>1. \A i \in DOMAIN s.running : s.running[i] \in Rpc!ToSet(s.running)
      BY DEF Rpc!ToSet
    <3>2. Rising(perf, s.running)
      BY <1>0 DEF InLists, perf
    <3> QED BY <3>1, <3>2, <1>2, <1>12, <1>17 DEF Rising
  <2>2. Rising(more, t.queue)
    <3> DEFINE l == s.queue
               k == t.queue
               m == Len(l)
    <3>1. /\ m \in Nat /\ DOMAIN l = 1 .. m /\ DOMAIN k = 1 .. m + 1 /\ k[m + 1] = r
          /\ \A i \in 1 .. m : k[i] = l[i]
      BY <1>1, <1>6
    <3>2. \A i \in DOMAIN l : l[i] \in Rpc!ToSet(s.queue)
      BY DEF Rpc!ToSet
    <3>3. Rising(perf, l)
      BY <1>0 DEF InLists, perf
    <3> HIDE DEF k, l, m
    <3>4. ASSUME NEW i \in DOMAIN k, NEW j \in DOMAIN k, i < j, k[i] \in Requests, k[j] \in Requests
          PROVE  Rank(more, k[i]) < Rank(more, k[j])
      <4>1. i \in 1 .. m /\ k[i] = l[i] /\ l[i] \in Rpc!ToSet(perf)
        BY <3>1, <3>2, <3>4, <1>17
      <4>2. Rank(more, k[i]) = Rank(perf, l[i]) /\ Rank(perf, l[i]) \in 1 .. n
        BY <4>1, <1>12
      <4>3. CASE j = m + 1
        BY <4>2, <4>3, <3>1, <1>9, <1>13
      <4>4. CASE j \in 1 .. m
        <5>1. k[j] = l[j] /\ l[j] \in Rpc!ToSet(perf)
          BY <4>4, <3>1, <3>2, <3>4, <1>17
        <5>2. Rank(more, k[j]) = Rank(perf, l[j])
          BY <5>1, <1>12
        <5>3. Rank(perf, l[i]) < Rank(perf, l[j])
          BY <4>1, <4>4, <5>1, <3>1, <3>3, <3>4 DEF Rising
        <5> QED BY <4>2, <5>2, <5>3
      <4> QED BY <4>3, <4>4, <3>1
    <3> QED BY <3>4 DEF Rising, k
  <2>3. \A x \in Rpc!ToSet(t.running) \cap Requests, q \in Rpc!ToSet(t.queue) \cap Requests :
            Rank(more, x) < Rank(more, q)
    <3> TAKE x \in Rpc!ToSet(t.running) \cap Requests, q \in Rpc!ToSet(t.queue) \cap Requests
    <3>1. x \in Rpc!ToSet(perf) /\ x \in Rpc!ToSet(s.running)
      BY <1>2, <1>17
    <3>2. Rank(more, x) = Rank(perf, x) /\ Rank(perf, x) \in 1 .. n
      BY <3>1, <1>12
    <3>3. CASE q = r
      BY <3>2, <3>3, <1>9, <1>13
    <3>4. CASE q \in Rpc!ToSet(s.queue)
      <4>1. Rank(perf, x) < Rank(perf, q)
        BY <3>1, <3>4, <1>0 DEF InLists, perf
      <4> QED BY <4>1, <3>2, <3>4, <1>12, <1>17
    <3> QED BY <3>3, <3>4, <1>7
  <2>4. \A q \in DOMAIN t.req \cap Requests : q \in Rpc!ToSet(more) /\ t.req[q].dc = None
    BY <1>0, <1>4, <1>5, <1>8 DEF InLists, perf
  <2>5. Rpc!ToSet(t.running) \subseteq DOMAIN t.req /\ Rpc!ToSet(t.queue) \subseteq DOMAIN t.req
    BY <1>0, <1>2, <1>4, <1>7 DEF InLists
  <2>6. \A q \in Rpc!ToSet(t.running) : Rpc!NeedsAnswer(q)
    BY <1>0, <1>2 DEF InLists
  <2>7. \A q \in Rpc!ToSet(t.queue) \cap Requests : t.req[q].mid = 0
    BY <1>0, <1>4, <1>5, <1>7 DEF InLists
  <2> QED BY <2>1, <2>2, <2>3, <2>4, <2>5, <2>6, <2>7, <1>11 DEF InLists, more
<1>20. Present(t, ex)
  <2>1. Present(s, ex)
    BY <1>0 DEF Line
  <2> QED BY <2>1, <1>2, <1>7, <1>8, <1>15 DEF Present, perf, more
<1>21. Ids(t, kn)
  BY <1>0, <1>2, <1>4, <1>5, <1>16 DEF Line, Ids
<1>22. Finished(t, ex, {})
  BY <1>0, <1>2, <1>4, <1>5, <1>15 DEF Line, Finished
<1>23. Increasing(t)
  <2>1. Increasing(s)
    BY <1>0 DEF Line
  <2>2. \A q \in Rpc!ToSet(s.running) : t.req[q] = s.req[q]
    BY <1>0, <1>4 DEF InLists
  <2>3. \A q \in Rpc!ToSet(s.running) \cap Requests : Rank(more, q) = Rank(perf, q)
    BY <1>12, <1>17
  <2> QED BY <2>1, <2>2, <2>3, <1>2 DEF Increasing, perf, more
<1>24. Waits(t)
  <2>1. \A q \in Rpc!ToSet(s.running) : t.req[q] = s.req[q]
    BY <1>0, <1>4 DEF InLists
  <2> QED BY <2>1, <1>0, <1>2 DEF Line, Waits
<1>25. Covers(t, kn, ex)
  <2> SUFFICES ASSUME NEW i, NEW a, NEW q \in Requests, Asks(s.up, kn, i, q, a)
               PROVE  q \in Rpc!ToSet(more) /\ Covered(t, kn, ex, q, a)
    BY <1>2 DEF Covers, more
  <2>1. q \in Rpc!ToSet(perf) /\ Covered(s, kn, ex, q, a)
    BY <1>0 DEF Line, Covers, perf
  <2>2. q \in Rpc!ToSet(more)
    BY <2>1, <1>8
  <2>3. CASE a = 0 /\ \A x \in Rpc!ToSet(perf) : Rank(perf, x) < Rank(perf, q) => Over(s, ex, x)
    <3>1. \A x \in Rpc!ToSet(more) : Rank(more, x) < Rank(more, q) => Over(t, ex, x)
      BY <2>1, <2>2, <2>3, <1>14, <1>15
    <3> QED BY <2>2, <2>3, <3>1 DEF Covered, more
  <2>4. ASSUME NEW w \in Rpc!ToSet(perf), Owner(s, kn, a, w),
               \A x \in Rpc!ToSet(perf) :
                  Rank(perf, w) < Rank(perf, x) /\ Rank(perf, x) < Rank(perf, q) => Over(s, ex, x)
        PROVE  Covered(t, kn, ex, q, a)
    <3>1. w \in Rpc!ToSet(more) /\ Owner(t, kn, a, w)
      BY <2>4, <1>8, <1>16
    <3>2. \A x \in Rpc!ToSet(more) :
              Rank(more, w) < Rank(more, x) /\ Rank(more, x) < Rank(more, q) => Over(t, ex, x)
      BY <2>1, <2>2, <2>4, <3>1, <1>14, <1>15
    <3> QED BY <3>1, <3>2 DEF Covered, more
  <2> QED BY <2>1, <2>2, <2>3, <2>4 DEF Covered, perf
<1>26. Done(kn, ex)
  BY <1>0 DEF Line
<1>27. Told(t, dn, ex)
  BY <1>0, <1>2, <1>4, <1>5 DEF Line, Told
<1>28. InTurn(t, ex)
  <2>1. InTurn(s, ex)
    BY <1>0 DEF Line
  <2>2. \A i \in DOMAIN ex : ex[i] \in Rpc!ToSet(perf) /\ ex[i] \in Rpc!ToSet(more)
    BY <2>1, <1>8 DEF InTurn, perf
  <2>3. ASSUME NEW i \in DOMAIN ex, NEW x \in Rpc!ToSet(more), Rank(more, x) < Rank(more, ex[i])
        PROVE  x \in t.delayed \/ \E j \in DOMAIN ex : j < i /\ ex[j] = x
    <3>1. x \in Rpc!ToSet(perf) /\ Rank(perf, x) < Rank(perf, ex[i])
      BY <2>2, <2>3, <1>14
    <3> QED BY <3>1, <2>1, <1>2 DEF InTurn, perf
  <2> QED BY <2>1, <2>2, <2>3 DEF InTurn, more
<1>29. Line(t, kn, dn, ex, {})
  BY <1>18, <1>19, <1>20, <1>21, <1>22, <1>23, <1>24, <1>25, <1>26, <1>27, <1>28 DEF Line
<1> QED BY <1>1, <1>29 DEF Lined, t

(* A request of the class's own joins the queue.                           *)
LEMMA JoinsOwnLine ==
    ASSUME NEW s, NEW p \in Posts, NEW kn, NEW dn, NEW ex, Lined(s, kn, dn, ex, {})
    PROVE  Lined([s EXCEPT !.req = Rpc!Updated(@, [x \in {p.req} |-> Rpc!New(p.dc)]), !.queue = Append(@, p.req),
                           !.posted = Tail(@)], kn, dn, ex, {})
<1> DEFINE r == p.req
           t == [s EXCEPT !.req = Rpc!Updated(@, [x \in {p.req} |-> Rpc!New(p.dc)]), !.queue = Append(@, p.req),
                          !.posted = Tail(@)]
<1>0. Line(s, kn, dn, ex, {}) /\ LineTyped(s) /\ InLists(s)
  BY DEF Lined, Line
<1>1. /\ Shape(t) /\ Same(s, t, {"req", "queue", "posted"})
      /\ t.req = Rpc!Updated(s.req, [x \in {r} |-> Rpc!New(p.dc)])
      /\ t.queue = Append(s.queue, r)
  BY DEF Lined, Shape, FieldNames, Same
<1> HIDE DEF t
<1>2. /\ t.running = s.running /\ t.mid = s.mid /\ t.linked = s.linked /\ t.up = s.up
      /\ t.completing = s.completing /\ t.delayed = s.delayed /\ t.performed = s.performed
  BY <1>1 DEF Same, FieldNames
<1>3. r \in Rpc!Own /\ r \notin Requests /\ r \in Names /\ Rpc!New(p.dc) \in Waiting /\ Rpc!New(p.dc).mid = 0
  BY RpcAssumption DEF Posts, Names, Rpc!RequestsAssumption, Rpc!New, Waiting
<1>4. /\ DOMAIN t.req = DOMAIN s.req \cup {r} /\ t.req = [y \in DOMAIN t.req |-> t.req[y]]
      /\ t.req[r] = Rpc!New(p.dc) /\ \A y \in DOMAIN s.req \ {r} : t.req[y] = s.req[y]
  BY <1>1, UpdatedIs
<1> HIDE DEF r
<1>5. s.queue \in Seq(Names) /\ s.running \in Seq(Names)
  BY <1>0 DEF LineTyped
<1>6. t.queue \in Seq(Names) /\ Rpc!ToSet(t.queue) = Rpc!ToSet(s.queue) \cup {r}
  BY <1>1, <1>3, <1>5, OneAppended
<1>7. LineTyped(t)
  <2>1. DOMAIN t.req \subseteq Names /\ t.req \in [DOMAIN t.req -> Waiting]
    BY <1>0, <1>3, <1>4 DEF LineTyped
  <2> QED BY <2>1, <1>0, <1>2, <1>6 DEF LineTyped
<1>8. Rising(s.performed, t.queue)
  <2> DEFINE l == s.queue
             k == t.queue
             m == Len(l)
  <2>1. /\ m \in Nat /\ DOMAIN l = 1 .. m /\ DOMAIN k = 1 .. m + 1 /\ k[m + 1] = r
        /\ \A i \in 1 .. m : k[i] = l[i]
    BY <1>1, <1>5
  <2>2. Rising(s.performed, l)
    BY <1>0 DEF InLists
  <2> HIDE DEF k, l, m
  <2>3. ASSUME NEW i \in DOMAIN k, NEW j \in DOMAIN k, i < j, k[i] \in Requests, k[j] \in Requests
        PROVE  Rank(s.performed, k[i]) < Rank(s.performed, k[j])
    <3>1. i \in 1 .. m /\ j \in 1 .. m
      BY <2>1, <2>3, <1>3
    <3> QED BY <3>1, <2>1, <2>2, <2>3 DEF Rising
  <2> QED BY <2>3 DEF Rising, k
<1>9. Shrinks(s, t, ex)
  <2>1. Rpc!ToSet(t.running) \subseteq DOMAIN t.req /\ Rpc!ToSet(t.queue) \subseteq DOMAIN t.req
        /\ Rising(s.performed, t.running) /\ s.mid \in Nat
    BY <1>0, <1>2, <1>4, <1>6 DEF InLists, LineTyped
  <2>2. \A q \in DOMAIN t.req : t.req[q].mid = 0 \/ (q \in DOMAIN s.req /\ t.req[q].mid = s.req[q].mid)
    BY <1>3, <1>4
  <2>3. \A q \in DOMAIN t.req \cap Requests : q \in DOMAIN s.req /\ t.req[q] = s.req[q]
    BY <1>3, <1>4
  <2>4. Rpc!ToSet(t.queue) \cap Requests \subseteq Rpc!ToSet(s.queue)
    BY <1>3, <1>6
  <2>5. \A q \in Rpc!ToSet(t.running) \cap Requests : t.req[q] = s.req[q]
    BY <2>1, <2>3
  <2> QED BY <2>1, <2>2, <2>3, <2>4, <2>5, <1>2, <1>6, <1>7, <1>8 DEF Shrinks
<1>10. Line(t, kn, dn, ex, {})
  BY <1>0, <1>2, <1>9, LineShrinks
<1> QED BY <1>1, <1>10 DEF Lined, t, r

(* A request is cancelled.                                                 *)
LEMMA CancelLine ==
    ASSUME NEW s, NEW r, NEW kn, NEW dn, NEW ex, Lined(s, kn, dn, ex, {})
    PROVE  LET u == [Rpc!Take(s, r) EXCEPT !.ended[r] = IF s.req[r].completed THEN @ ELSE @ + 1,
                                           !.delayed = @ \cup {r}]
           IN  Lined(IF r \in Rpc!ToSet(s.running) THEN Rpc!PerformRpc(u, "drop", r, None) ELSE u, kn, dn, ex, {})
<1> DEFINE u == [Rpc!Take(s, r) EXCEPT !.ended[r] = IF s.req[r].completed THEN @ ELSE @ + 1,
                                       !.delayed = @ \cup {r}]
           p == Rpc!PerformRpc(u, "drop", r, None)
<1>0. Line(s, kn, dn, ex, {}) /\ LineTyped(s) /\ InLists(s)
  BY DEF Lined, Line
<1>1. /\ Shape(u) /\ Same(s, u, {"queue", "running", "req", "ended", "delayed"})
      /\ u.queue = Rpc!Kept(s.queue, Rpc!ToSet(s.queue) \ {r})
      /\ u.running = Rpc!Kept(s.running, Rpc!ToSet(s.running) \ {r})
      /\ u.req = [y \in DOMAIN s.req \ {r} |-> s.req[y]]
      /\ u.delayed = s.delayed \cup {r}
  BY DEF Lined, Shape, FieldNames, Same, Rpc!Take
<1> HIDE DEF u
<1>2. /\ u.mid = s.mid /\ u.linked = s.linked /\ u.up = s.up
      /\ u.completing = s.completing /\ u.performed = s.performed
  BY <1>1 DEF Same, FieldNames
<1>3. /\ s.queue \in Seq(Names) /\ s.running \in Seq(Names)
      /\ Rising(s.performed, s.queue) /\ Rising(s.performed, s.running)
  BY <1>0 DEF LineTyped, InLists
<1>4. /\ u.queue \in Seq(Names) /\ Rpc!ToSet(u.queue) = Rpc!ToSet(s.queue) \ {r}
      /\ u.running \in Seq(Names) /\ Rpc!ToSet(u.running) = Rpc!ToSet(s.running) \ {r}
      /\ Rising(s.performed, u.queue) /\ Rising(s.performed, u.running)
  <2> DEFINE T == Rpc!ToSet(s.queue) \ {r}
             U == Rpc!ToSet(s.running) \ {r}
             k == Rpc!Kept(s.queue, T)
             l == Rpc!Kept(s.running, U)
  <2>1. k \in Seq(Names) /\ Rpc!ToSet(k) = T
    BY <1>3, KeptOut
  <2>2. l \in Seq(Names) /\ Rpc!ToSet(l) = U
    BY <1>3, KeptOut
  <2> HIDE DEF T, U
  <2>3. Rising(s.performed, k) /\ Rising(s.performed, l)
    BY <1>3, KeptRises
  <2>4. u.queue = k /\ u.running = l
    BY <1>1 DEF T, U
  <2> QED BY <2>1, <2>2, <2>3, <2>4 DEF T, U
<1>5. /\ DOMAIN u.req = DOMAIN s.req \ {r} /\ u.req = [y \in DOMAIN u.req |-> u.req[y]]
      /\ \A y \in DOMAIN s.req \ {r} : u.req[y] = s.req[y]
  BY <1>1
<1>6. LineTyped(u)
  <2>1. DOMAIN u.req \subseteq Names /\ u.req \in [DOMAIN u.req -> Waiting]
    BY <1>0, <1>5 DEF LineTyped
  <2> QED BY <2>1, <1>0, <1>2, <1>4 DEF LineTyped
<1>7. Shrinks(s, u, ex)
  <2>1. Rpc!ToSet(u.running) \subseteq DOMAIN u.req /\ Rpc!ToSet(u.queue) \subseteq DOMAIN u.req /\ s.mid \in Nat
    BY <1>0, <1>4, <1>5 DEF InLists, LineTyped
  <2>2. \A q \in DOMAIN u.req : q \in DOMAIN s.req /\ u.req[q] = s.req[q]
    BY <1>5
  <2>3. \A q \in Requests : q \in Rpc!ToSet(s.running) \/ q \in Rpc!ToSet(s.queue) =>
            q \in Rpc!ToSet(u.running) \/ q \in Rpc!ToSet(u.queue) \/ Over(u, ex, q)
    BY <1>1, <1>4 DEF Over
  <2>4. \A q \in Rpc!ToSet(u.running) \cap Requests : u.req[q] = s.req[q]
    BY <2>1, <2>2
  <2>5. s.delayed \subseteq u.delayed /\ s.mid <= u.mid
    BY <2>1, <1>1, <1>2
  <2>6. /\ Rpc!ToSet(u.running) \subseteq Rpc!ToSet(s.running)
        /\ Rpc!ToSet(u.queue) \cap Requests \subseteq Rpc!ToSet(s.queue)
    BY <1>4
  <2> QED BY <2>1, <2>2, <2>3, <2>4, <2>5, <2>6, <1>2, <1>4, <1>6 DEF Shrinks
<1>8. Line(u, kn, dn, ex, {})
  BY <1>0, <1>2, <1>7, LineShrinks
<1>9. Lined(u, kn, dn, ex, {})
  BY <1>1, <1>8 DEF Lined
<1>10. Lined(p, kn, dn, ex, {})
  BY <1>9, LinePerforms
<1> HIDE DEF p
<1> QED BY <1>9, <1>10 DEF u, p

(* rpcCompleted: those that are looked for are over.                       *)
LEMMA RpcCompletedLine ==
    ASSUME NEW s, NEW kn, NEW dn, NEW ex, Lined(s, kn, dn, ex, {}), s.completing # <<>>,
           Rpc!ToSet(s.queue) \cap Rpc!ToSet(s.running) = {}
    PROVE  LET done == {r \in Rpc!ToSet(s.running) : s.req[r].mid = Head(s.completing)}
           IN  Lined([s EXCEPT !.completing = Tail(@),
                               !.running = Rpc!Kept(@, Rpc!ToSet(@) \ done),
                               !.req = [r \in DOMAIN @ \ done |-> @[r]]], kn, dn, ex, {})
<1> DEFINE done == {r \in Rpc!ToSet(s.running) : s.req[r].mid = Head(s.completing)}
           T == Rpc!ToSet(s.running) \ done
           u == [s EXCEPT !.completing = Tail(@),
                          !.running = Rpc!Kept(@, Rpc!ToSet(@) \ done),
                          !.req = [r \in DOMAIN @ \ done |-> @[r]]]
<1>0. Line(s, kn, dn, ex, {}) /\ LineTyped(s) /\ InLists(s)
  BY DEF Lined, Line
<1>1. /\ Shape(u) /\ Same(s, u, {"completing", "running", "req"})
      /\ u.running = Rpc!Kept(s.running, T) /\ u.completing = Tail(s.completing)
      /\ u.req = [r \in DOMAIN s.req \ done |-> s.req[r]]
  BY DEF Lined, Shape, FieldNames, Same
<1> HIDE DEF u
<1>2. /\ u.mid = s.mid /\ u.linked = s.linked /\ u.up = s.up /\ u.queue = s.queue
      /\ u.delayed = s.delayed /\ u.performed = s.performed
  BY <1>1 DEF Same, FieldNames
<1>3. /\ s.queue \in Seq(Names) /\ s.running \in Seq(Names)
      /\ Rising(s.performed, s.queue) /\ Rising(s.performed, s.running)
  BY <1>0 DEF LineTyped, InLists
<1>4. /\ u.completing \in Seq(Nat) /\ Rpc!ToSet(u.completing) \subseteq Rpc!ToSet(s.completing)
      /\ Head(s.completing) \in Rpc!ToSet(s.completing)
  <2> DEFINE l == s.completing
             k == Tail(l)
  <2>1. l \in Seq(Nat)
    BY <1>0 DEF LineTyped
  <2>2. IsList(l) /\ l # <<>> /\ k \in Seq(Nat)
    BY <2>1, ListOf
  <2> HIDE DEF l
  <2>3. Rpc!ToSet(k) \subseteq Rpc!ToSet(l) /\ Head(l) \in Rpc!ToSet(l)
    BY <2>2, ShorterList
  <2> QED BY <2>2, <2>3, <1>1 DEF l
<1>5. \A r \in done \cap Requests : Over(s, ex, r)
  <2>1. Finished(s, ex, {})
    BY <1>0 DEF Line
  <2>2. \A r \in done : r \in DOMAIN s.req /\ s.req[r].mid = Head(s.completing)
    BY <1>0 DEF InLists
  <2> HIDE DEF done
  <2> QED BY <2>1, <2>2, <1>4 DEF Finished
<1>6. \A r \in done : r \in Rpc!ToSet(s.running) /\ s.req[r].mid # 0
  <2>1. Head(s.completing) # 0
    BY <1>0, <1>4 DEF Line, Finished
  <2> QED BY <2>1
<1>a. \A r \in Rpc!ToSet(s.queue) : r \notin done
  BY <1>6
<1> HIDE DEF done
<1>7. /\ u.running \in Seq(Names) /\ Rpc!ToSet(u.running) = Rpc!ToSet(s.running) \ done
      /\ Rising(s.performed, u.running)
  <2> DEFINE l == Rpc!Kept(s.running, T)
  <2>1. l \in Seq(Names) /\ Rpc!ToSet(l) = T
    BY <1>3, KeptOut
  <2> HIDE DEF T
  <2>2. Rising(s.performed, l)
    BY <1>3, KeptRises
  <2>3. u.running = l
    BY <1>1
  <2> QED BY <2>1, <2>2, <2>3 DEF T
<1>8. /\ DOMAIN u.req = DOMAIN s.req \ done /\ u.req = [y \in DOMAIN u.req |-> u.req[y]]
      /\ \A y \in DOMAIN s.req \ done : u.req[y] = s.req[y]
  BY <1>1
<1>9. LineTyped(u)
  <2>1. DOMAIN u.req \subseteq Names /\ u.req \in [DOMAIN u.req -> Waiting]
    BY <1>0, <1>8 DEF LineTyped
  <2> QED BY <2>1, <1>0, <1>2, <1>4, <1>7 DEF LineTyped
<1>10. Shrinks(s, u, ex)
  <2>1. Rpc!ToSet(u.running) \subseteq DOMAIN u.req /\ s.mid \in Nat
    BY <1>0, <1>7, <1>8 DEF InLists, LineTyped
  <2>2. \A q \in DOMAIN u.req : q \in DOMAIN s.req /\ u.req[q] = s.req[q]
    BY <1>8
  <2>3. \A q \in Requests : q \in Rpc!ToSet(s.running) \/ q \in Rpc!ToSet(s.queue) =>
            q \in Rpc!ToSet(u.running) \/ q \in Rpc!ToSet(u.queue) \/ Over(u, ex, q)
    BY <1>2, <1>5, <1>7 DEF Over
  <2>4. \A q \in Rpc!ToSet(u.running) \cap Requests : u.req[q] = s.req[q]
    BY <2>1, <2>2
  <2>5. Rpc!ToSet(u.queue) \subseteq DOMAIN u.req
    BY <1>0, <1>2, <1>6, <1>8, <1>a DEF InLists
  <2> QED BY <2>1, <2>2, <2>3, <2>4, <2>5, <1>2, <1>3, <1>7, <1>9 DEF Shrinks
<1>11. Fewer(s, kn, dn, ex, {}, u, kn, dn, {})
  <2>1. \A i, r, a : Asks(u.up, kn, i, r, a) => Asks(s.up, kn, i, r, a)
    BY <1>2
  <2> QED BY <2>1, <1>0, <1>4 DEF Fewer, Line
<1>12. Line(u, kn, dn, ex, {})
  BY <1>0, <1>10, <1>11, LineLess
<1> QED BY <1>1, <1>12 DEF Lined, u, done

-----------------------------------------------------------------------------
(* The network and the servers.                                            *)

(* What the servers know, and the lists of what they send.                 *)
KnownTyped(kn, dn) ==
    /\ DOMAIN kn = Dcs /\ DOMAIN dn = Dcs
    /\ \A d \in Dcs : /\ IsFiniteSet(kn[d]) /\ IsList(dn[d])
                      /\ \A k \in kn[d] : k = [f \in Entries |-> k[f]]

(* The inductive invariant of the order.  It needs RpcInv besides.         *)
LineInv == Lined(c, known, down, executed, {}) /\ KnownTyped(known, down) /\ home \in Dcs

(* Nothing changes but what the network holds.                             *)
LEMMA ShrinksUp ==
    ASSUME NEW s, NEW t, NEW kn, NEW dn, NEW ex, NEW C, Line(s, kn, dn, ex, C),
           Same(s, t, (FieldNames \ LineFields) \cup {"up"}),
           DOMAIN t.up = Dcs, \A d \in Dcs : Packed(t.up[d])
    PROVE  Shrinks(s, t, ex)
<1>1. /\ t.queue = s.queue /\ t.running = s.running /\ t.req = s.req /\ t.linked = s.linked /\ t.mid = s.mid
      /\ t.performed = s.performed /\ t.completing = s.completing /\ t.delayed = s.delayed
  BY DEF Same, FieldNames, LineFields
<1>2. LineTyped(s) /\ InLists(s)
  BY DEF Line
<1>3. LineTyped(t)
  BY <1>1, <1>2 DEF LineTyped
<1>4. /\ Rpc!ToSet(s.running) \subseteq DOMAIN s.req /\ Rpc!ToSet(s.queue) \subseteq DOMAIN s.req
      /\ Rising(s.performed, s.running) /\ Rising(s.performed, s.queue) /\ s.mid \in Nat
  BY <1>2 DEF InLists, LineTyped
<1> QED BY <1>1, <1>3, <1>4 DEF Shrinks

(* Some of it is lost, or taken.                                           *)
LEMMA LineLoses ==
    ASSUME NEW s, NEW kn, NEW dn, NEW kn1, NEW dn1, NEW ex, NEW C, Lined(s, kn, dn, ex, C),
           \A d \in Dcs : kn1[d] \subseteq kn[d],
           \A d \in Dcs : \A g \in Rpc!ToSet(dn1[d]) : g.kind = "result" => g \in Rpc!ToSet(dn[d])
    PROVE  Lined(s, kn1, dn1, ex, C)
<1>1. Line(s, kn, dn, ex, C) /\ LineTyped(s) /\ Done(kn, ex)
  BY DEF Lined, Line
<1>2. Same(s, s, (FieldNames \ LineFields) \cup {"up"}) /\ DOMAIN s.up = Dcs /\ \A d \in Dcs : Packed(s.up[d])
  BY <1>1 DEF Same, LineTyped
<1>3. Shrinks(s, s, ex)
  BY <1>1, <1>2, ShrinksUp
<1>4. \A i, r, a : Asks(s.up, kn1, i, r, a) => Asks(s.up, kn, i, r, a)
  BY DEF Asks
<1>5. Done(kn1, ex)
  BY <1>1 DEF Done
<1>6. Fewer(s, kn, dn, ex, C, s, kn1, dn1, C)
  BY <1>4, <1>5 DEF Fewer
<1> QED BY <1>1, <1>3, <1>6, LineLess DEF Lined

(* A message is sent on.                                                   *)
LEMMA LineExecutes ==
    ASSUME NEW s, NEW kn, NEW dn, NEW ex, NEW ex1, NEW C, Line(s, kn, dn, ex, C),
           Rpc!ToSet(ex) \subseteq Rpc!ToSet(ex1), InTurn(s, ex1)
    PROVE  Line(s, kn, dn, ex1, C)
<1>1. \A r : Over(s, ex, r) => Over(s, ex1, r)
  BY DEF Over
<1>2. Present(s, ex1) /\ Finished(s, ex1, C)
  BY <1>1 DEF Line, Present, Finished
<1>3. \A r, a : Covered(s, kn, ex, r, a) => Covered(s, kn, ex1, r, a)
  <2> TAKE r, a
  <2> SUFFICES ASSUME Covered(s, kn, ex, r, a) PROVE Covered(s, kn, ex1, r, a)
    OBVIOUS
  <2>1. CASE /\ a = 0
             /\ \A x \in Rpc!ToSet(s.performed) : Rank(s.performed, x) < Rank(s.performed, r) => Over(s, ex, x)
    BY <2>1, <1>1 DEF Covered
  <2>2. ASSUME NEW w \in Rpc!ToSet(s.performed), Owner(s, kn, a, w),
               \A x \in Rpc!ToSet(s.performed) :
                  Rank(s.performed, w) < Rank(s.performed, x) /\ Rank(s.performed, x) < Rank(s.performed, r)
                    => Over(s, ex, x)
        PROVE  Covered(s, kn, ex1, r, a)
    BY <2>2, <1>1 DEF Covered
  <2> QED BY <2>1, <2>2 DEF Covered
<1>4. Covers(s, kn, ex1)
  BY <1>3 DEF Line, Covers
<1>5. Done(kn, ex1) /\ Told(s, dn, ex1)
  BY DEF Line, Done, Told
<1> QED BY <1>2, <1>4, <1>5 DEF Line

(* A message whose turn it is.                                             *)
LEMMA LineTurn ==
    ASSUME NEW s, NEW kn, NEW dn, NEW ex, NEW C, Line(s, kn, dn, ex, C),
           NEW d \in Dcs, NEW k \in kn[d], k.req \in Requests, k.req \notin Rpc!ToSet(ex),
           k.after = 0 \/ \E x \in kn[d] : x.mid = k.after /\ x.what = "ok"
    PROVE  Line(s, kn, dn, Append(ex, k.req), C)
<1> DEFINE r == k.req
           perf == s.performed
           ex1 == Append(ex, r)
           n == Len(ex)
<1>1. InTurn(s, ex) /\ ex \in Seq(Requests) /\ Done(kn, ex) /\ Ids(s, kn) /\ LineTyped(s) /\ InLists(s)
  BY DEF Line, InTurn
<1>2. Asks(s.up, kn, k.mid, r, k.after)
  BY DEF Asks
<1>3. r \in Rpc!ToSet(perf) /\ Covered(s, kn, ex, r, k.after)
  BY <1>2 DEF Line, Covers
<1>4. /\ ex1 \in Seq(Requests) /\ n \in Nat /\ DOMAIN ex = 1 .. n /\ DOMAIN ex1 = 1 .. n + 1
      /\ ex1[n + 1] = r /\ \A i \in 1 .. n : ex1[i] = ex[i]
  BY <1>1
<1>5. Rpc!ToSet(ex1) = Rpc!ToSet(ex) \cup {r}
  BY <1>1, OneAppended
<1>6. \A i \in 1 .. n : ex[i] \in Rpc!ToSet(ex)
  BY <1>4 DEF Rpc!ToSet
<1>7. /\ perf \in Seq(Requests) /\ \A i, j \in DOMAIN perf : perf[i] = perf[j] => i = j
  BY <1>1 DEF LineTyped, InLists
<1>8. \A x \in Rpc!ToSet(perf) : Rank(perf, x) \in Nat
  BY <1>7, RankIs
<1>9. \A x, y \in Rpc!ToSet(perf) : Rank(perf, x) = Rank(perf, y) => x = y
  BY <1>7, RankIs
<1>10. \A x \in Rpc!ToSet(perf) : Rank(perf, x) < Rank(perf, r) => x \in s.delayed \/ x \in Rpc!ToSet(ex)
  <2>1. CASE k.after = 0
    <3>1. \A w : ~Owner(s, kn, k.after, w)
      BY <2>1 DEF Owner
    <3>2. \A x \in Rpc!ToSet(perf) : Rank(perf, x) < Rank(perf, r) => Over(s, ex, x)
      BY <1>3, <3>1 DEF Covered
    <3> QED BY <3>2 DEF Over
  <2>2. CASE k.after # 0
    <3>1. PICK x \in kn[d] : x.mid = k.after /\ x.what = "ok"
      BY <2>2
    <3>2. PICK w \in Rpc!ToSet(perf) :
              /\ Owner(s, kn, k.after, w)
              /\ \A y \in Rpc!ToSet(perf) :
                    Rank(perf, w) < Rank(perf, y) /\ Rank(perf, y) < Rank(perf, r) => Over(s, ex, y)
      BY <1>3, <2>2 DEF Covered
    <3>3. Asks(s.up, kn, k.after, x.req, x.after)
      BY <3>1 DEF Asks
    <3>4. x.req = w
      BY <3>2, <3>3 DEF Owner
    <3>5. w \in Requests
      BY <1>7 DEF Rpc!ToSet
    <3>6. w \in Rpc!ToSet(ex)
      BY <1>1, <3>1, <3>4, <3>5 DEF Done
    <3>7. ASSUME NEW y \in Rpc!ToSet(perf), Rank(perf, y) < Rank(perf, w)
          PROVE  y \in s.delayed \/ y \in Rpc!ToSet(ex)
      <4>1. PICK i \in DOMAIN ex : ex[i] = w
        BY <3>6 DEF Rpc!ToSet
      <4>2. y \in s.delayed \/ \E j \in DOMAIN ex : j < i /\ ex[j] = y
        BY <4>1, <3>7, <1>1 DEF InTurn
      <4> QED BY <4>2, <1>4, <1>6
    <3> TAKE y \in Rpc!ToSet(perf)
    <3> HAVE Rank(perf, y) < Rank(perf, r)
    <3>8. Rank(perf, y) < Rank(perf, w) \/ Rank(perf, y) = Rank(perf, w) \/ Rank(perf, w) < Rank(perf, y)
      BY <1>8
    <3>9. CASE Rank(perf, y) = Rank(perf, w)
      BY <3>9, <3>6, <1>9
    <3>10. CASE Rank(perf, w) < Rank(perf, y)
      BY <3>10, <3>2 DEF Over
    <3> QED BY <3>7, <3>8, <3>9, <3>10
  <2> QED BY <2>1, <2>2
<1> HIDE DEF ex1, r, perf
<1>11. \A i, j \in DOMAIN ex1 : ex1[i] = ex1[j] => i = j
  <2> TAKE i, j \in DOMAIN ex1
  <2>1. i \in 1 .. n \/ i = n + 1
    BY <1>4
  <2>2. j \in 1 .. n \/ j = n + 1
    BY <1>4
  <2>3. \A x, y \in 1 .. n : ex[x] = ex[y] => x = y
    BY <1>1, <1>4 DEF InTurn
  <2>4. \A x \in 1 .. n : ex[x] # r
    BY <1>6 DEF r
  <2> QED BY <2>1, <2>2, <2>3, <2>4, <1>4
<1>12. \A i \in DOMAIN ex1 : ex1[i] \in Rpc!ToSet(perf)
  <2>1. \A i \in 1 .. n : ex[i] \in Rpc!ToSet(perf)
    BY <1>1, <1>4 DEF InTurn, perf
  <2> QED BY <2>1, <1>3, <1>4
<1>13. ASSUME NEW i \in DOMAIN ex1, NEW x \in Rpc!ToSet(perf), Rank(perf, x) < Rank(perf, ex1[i])
       PROVE  x \in s.delayed \/ \E j \in DOMAIN ex1 : j < i /\ ex1[j] = x
  <2>1. CASE i = n + 1
    <3>1. x \in s.delayed \/ x \in Rpc!ToSet(ex)
      BY <2>1, <1>4, <1>10, <1>13
    <3>2. x \in Rpc!ToSet(ex) => \E j \in 1 .. n : ex[j] = x
      BY <1>4 DEF Rpc!ToSet
    <3> QED BY <3>1, <3>2, <2>1, <1>4
  <2>2. CASE i \in 1 .. n
    <3>1. Rank(perf, x) < Rank(perf, ex[i])
      BY <2>2, <1>4, <1>13
    <3>2. x \in s.delayed \/ \E j \in DOMAIN ex : j < i /\ ex[j] = x
      BY <3>1, <2>2, <1>1, <1>4 DEF InTurn, perf
    <3> QED BY <3>2, <1>4
  <2> QED BY <2>1, <2>2, <1>4
<1>14. InTurn(s, ex1)
  BY <1>4, <1>11, <1>12, <1>13 DEF InTurn, perf
<1>15. Rpc!ToSet(ex) \subseteq Rpc!ToSet(ex1)
  BY <1>5
<1> QED BY <1>14, <1>15, LineExecutes DEF ex1, r

(* What stageQueue runs keeps the order.                                   *)
LEMMA PerformLine == ASSUME RpcInv, LineInv, NEW r \in Requests, Rpc!Perform(r) PROVE LineInv'
<1> DEFINE u == [c EXCEPT !.req = Rpc!Updated(@, [x \in {r} |-> Rpc!New(None)]), !.queue = Append(@, r),
                          !.performed = Append(@, r)]
<1>1. /\ r \notin Rpc!ToSet(c.performed) /\ c' = Rpc!ProcessRequestQueue(u, FALSE, None)
      /\ UNCHANGED <<down, known, home, executed>>
  BY DEF Rpc!Perform
<1>2. Lined(u, known, down, executed, {})
  BY <1>1, JoinsLine DEF LineInv
<1> HIDE DEF u
<1>3. Lined(c', known, down, executed, {})
  BY <1>1, <1>2, ProcessRequestQueueLine
<1> QED BY <1>1, <1>3 DEF LineInv

LEMMA PerformPostedLine == ASSUME RpcInv, LineInv, Rpc!PerformPosted PROVE LineInv'
<1> DEFINE p == Head(c.posted)
           u == [c EXCEPT !.req = Rpc!Updated(@, [x \in {p.req} |-> Rpc!New(p.dc)]), !.queue = Append(@, p.req),
                          !.posted = Tail(@)]
<1>1. /\ Rpc!Running /\ c.posted # <<>> /\ c' = Rpc!ProcessRequestQueue(u, FALSE, None)
      /\ UNCHANGED <<down, known, home, executed>>
  BY DEF Rpc!PerformPosted
<1>2. c.posted \in Seq(Posts)
  BY <1>1, RunningSafe DEF Safe, RpcGood, RpcTyped
<1>3. p \in Posts
  BY <1>1, <1>2
<1> HIDE DEF p
<1>4. Lined(u, known, down, executed, {})
  BY <1>3, JoinsOwnLine DEF LineInv
<1> HIDE DEF u
<1>5. Lined(c', known, down, executed, {})
  BY <1>1, <1>4, ProcessRequestQueueLine
<1> QED BY <1>1, <1>5 DEF LineInv

LEMMA CancelRpcLine == ASSUME RpcInv, LineInv, NEW r \in Requests, Rpc!CancelRpc(r) PROVE LineInv'
<1>1. UNCHANGED <<down, known, home, executed>>
  BY DEF Rpc!CancelRpc
<1>2. Lined(c, known, down, executed, {})
  BY DEF LineInv
<1>3. Lined(c', known, down, executed, {})
  BY <1>2, CancelLine DEF Rpc!CancelRpc
<1> QED BY <1>1, <1>3 DEF LineInv

LEMMA TimerLine == ASSUME RpcInv, LineInv, Rpc!Timer PROVE LineInv'
<1> DEFINE p == Rpc!ProcessRequestQueue(c, FALSE, None)
           h == Rpc!Handshake(c, c.current)
<1>1. UNCHANGED <<down, known, home, executed>> /\ c' \in {p, h}
  BY DEF Rpc!Timer
<1>2. Lined(p, known, down, executed, {}) /\ Lined(h, known, down, executed, {})
  BY ProcessRequestQueueLine, LineHandshakes DEF LineInv
<1> HIDE DEF p, h
<1> QED BY <1>1, <1>2 DEF LineInv

LEMMA AgeLine == ASSUME RpcInv, LineInv, NEW r \in Rpc!ToSet(c.running), Rpc!Age(r) PROVE LineInv'
<1>1. c' = [c EXCEPT !.req[r].due = TRUE] /\ UNCHANGED <<down, known, home, executed>>
  BY DEF Rpc!Age
<1>2. Shape(c) /\ Line(c, known, down, executed, {}) /\ LineTyped(c) /\ InLists(c)
  BY DEF LineInv, Lined, Line
<1>3. /\ Shape(c') /\ Same(c, c', {"req"}) /\ c'.req = [c.req EXCEPT ![r].due = TRUE]
  BY <1>1, <1>2 DEF Shape, FieldNames, Same
<1>4. /\ c.req \in [DOMAIN c.req -> Waiting] /\ c.completing \in Seq(Nat) /\ r \in DOMAIN c.req
      /\ DOMAIN c.up = Dcs /\ (\A d \in Dcs : Packed(c.up[d])) /\ c.linked \subseteq Dcs
      /\ Rpc!ToSet(c.running) \subseteq DOMAIN c.req
  BY <1>2 DEF LineTyped, InLists
<1>5. DOMAIN c'.req = DOMAIN c.req /\ \A q \in DOMAIN c.req \ {r} : c'.req[q] = c.req[q]
  BY <1>3, <1>4
<1>6. /\ c'.req[r] \in Waiting /\ c'.req[r].mid = c.req[r].mid /\ c'.req[r].dc = c.req[r].dc
      /\ c'.req[r].due /\ c'.req[r].on = c.req[r].on
  <2>1. c.req[r] \in Waiting /\ c'.req[r] = [c.req[r] EXCEPT !.due = TRUE]
    BY <1>3, <1>4
  <2> QED BY <2>1 DEF Waiting
<1>7. c'.req \in [DOMAIN c.req -> Waiting]
  <2>1. c'.req = [q \in DOMAIN c.req |-> c'.req[q]]
    BY <1>3, <1>4
  <2> QED BY <2>1, <1>4, <1>5, <1>6, ZenonT(90)
<1>8. \A q \in DOMAIN c.req :
          c'.req[q].dc = c.req[q].dc /\ (c'.req[q].mid = 0 \/ c'.req[q].mid = c.req[q].mid)
  BY <1>5, <1>6
<1>9. \A q \in Rpc!ToSet(c.running) \cap Requests : c'.req[q].mid = 0 =>
          c.req[q].mid = 0 /\ (c.req[q].due /\ c.req[q].on = None => c'.req[q].due /\ c'.req[q].on = None)
  BY <1>4, <1>5, <1>6
<1>10. c'.running = c.running /\ c'.up = c.up /\ c'.linked = c.linked /\ c'.completing = c.completing
       /\ c'.delayed = c.delayed
  BY <1>3 DEF Same, FieldNames
<1>11. Same(c, c', (FieldNames \ LineFields) \cup {"req", "up", "linked", "delayed", "completing"})
  BY <1>3 DEF Same, FieldNames, LineFields
<1>12. Line(c', known, down, executed, {})
  BY <1>2, <1>4, <1>5, <1>7, <1>8, <1>9, <1>10, <1>11, LineKeeps
<1> QED BY <1>1, <1>3, <1>12 DEF LineInv, Lined

LEMMA RpcCompletedKeepsLine == ASSUME RpcInv, LineInv, Rpc!RpcCompleted PROVE LineInv'
<1>1. Rpc!Running /\ c.completing # <<>> /\ UNCHANGED <<down, known, home, executed>>
  BY DEF Rpc!RpcCompleted
<1>2. Rpc!ToSet(c.queue) \cap Rpc!ToSet(c.running) = {}
  BY <1>1, RunningSafe DEF Safe, RpcGood, Listed
<1>3. Lined(c, known, down, executed, {})
  BY DEF LineInv
<1>4. Lined(c', known, down, executed, {})
  BY <1>1, <1>2, <1>3, RpcCompletedLine DEF Rpc!RpcCompleted
<1> QED BY <1>1, <1>4 DEF LineInv

LEMMA MoveAgainLine == ASSUME RpcInv, LineInv, NEW d \in c.again, Rpc!MoveAgain(d) PROVE LineInv'
<1> DEFINE u == [c EXCEPT !.again = @ \ {d}]
<1>1. c' = Rpc!MoveToDatacenter(u, d) /\ UNCHANGED <<down, known, home, executed>>
  BY DEF Rpc!MoveAgain
<1>2. Lined(c, known, down, executed, {})
  BY DEF LineInv
<1>3. Shape(u) /\ Same(c, u, FieldNames \ LineFields)
  BY <1>2 DEF Lined, Shape, FieldNames, Same, LineFields
<1> HIDE DEF u
<1>4. Lined(u, known, down, executed, {})
  BY <1>2, <1>3, LinedStays
<1>5. Lined(c', known, down, executed, {})
  BY <1>1, <1>4, MoveLine
<1> QED BY <1>1, <1>5 DEF LineInv

LEMMA HandshakeDidFinishLine == ASSUME RpcInv, LineInv, NEW d, Rpc!HandshakeDidFinish(d) PROVE LineInv'
<1> DEFINE k == [c EXCEPT !.keys = @ \cup {d}, !.handshakes = @ \ {d}]
           r == Rpc!RecreateSessions(k, d)
           a == Rpc!ClearRequestsForDatacenter(r, d)
           u == IF d \in {c.current, c.moving} THEN a ELSE k
<1>1. c' = Rpc!ProcessRequestQueue(u, TRUE, d) /\ UNCHANGED <<down, known, home, executed>>
  BY DEF Rpc!HandshakeDidFinish
<1>2. Lined(c, known, down, executed, {})
  BY DEF LineInv
<1>3. Shape(k) /\ Same(c, k, FieldNames \ LineFields)
  BY <1>2 DEF Lined, Shape, FieldNames, Same, LineFields
<1> HIDE DEF k
<1>4. Lined(k, known, down, executed, {})
  BY <1>2, <1>3, LinedStays
<1>5. Lined(r, known, down, executed, {})
  BY <1>4, LineRecreates
<1> HIDE DEF r
<1>6. Lined(a, known, down, executed, {})
  BY <1>5, LineClearsDatacenter
<1> HIDE DEF a
<1>7. Lined(u, known, down, executed, {})
  BY <1>4, <1>6
<1> HIDE DEF u
<1>8. Lined(c', known, down, executed, {})
  BY <1>1, <1>7, ProcessRequestQueueLine
<1> QED BY <1>1, <1>8 DEF LineInv

(* The first of what the network thread has posted is taken.               *)
LEMMA LineTaken ==
    ASSUME LineInv, NEW d \in Dcs, down[d] # <<>>, down' = [down EXCEPT ![d] = Tail(@)]
    PROVE  /\ Lined(c, known, down', executed, {}) /\ KnownTyped(known, down')
           /\ LineMessage(c, executed, Head(down[d]))
<1>1. Lined(c, known, down, executed, {}) /\ KnownTyped(known, down)
  BY DEF LineInv
<1>2. IsList(down[d]) /\ DOMAIN down = Dcs
  BY <1>1 DEF KnownTyped
<1>3. /\ IsList(Tail(down[d])) /\ Rpc!ToSet(Tail(down[d])) \subseteq Rpc!ToSet(down[d])
      /\ Head(down[d]) \in Rpc!ToSet(down[d])
  BY <1>2, ShorterList
<1>4. DOMAIN down' = Dcs /\ \A e \in Dcs : down'[e] = IF e = d THEN Tail(down[d]) ELSE down[e]
  BY <1>2
<1>5. \A e \in Dcs : Rpc!ToSet(down'[e]) \subseteq Rpc!ToSet(down[e])
  BY <1>3, <1>4
<1>6. Lined(c, known, down', executed, {})
  BY <1>1, <1>5, LineLoses
<1>7. KnownTyped(known, down')
  BY <1>1, <1>3, <1>4 DEF KnownTyped
<1>8. LineMessage(c, executed, Head(down[d]))
  <2>1. Told(c, down, executed)
    BY <1>1 DEF Lined, Line
  <2> QED BY <2>1, <1>3 DEF Told, LineMessage
<1> QED BY <1>6, <1>7, <1>8

LEMMA ReceivedLine == ASSUME RpcInv, LineInv, NEW d \in Dcs, Rpc!ReceivedData(d) PROVE LineInv'
<1> DEFINE g == Head(down[d])
           s == Rpc!ProcessMessage(c, d, g)
           t == [s EXCEPT !.processed[d] = @ \cup ({g.mid} \ {0})]
<1>1. /\ Rpc!Running /\ known' = known /\ home' = home /\ executed' = executed
      /\ down[d] # <<>> /\ g.kind # "connected" /\ down' = [down EXCEPT ![d] = Tail(@)]
      /\ c' \in {c, t}
  BY DEF Rpc!ReceivedData
<1>2. MessageIs(g, home)
  BY <1>1, TakenFrom
<1>3. Lined(c, known, down', executed, {}) /\ KnownTyped(known, down') /\ LineMessage(c, executed, g)
  BY <1>1, LineTaken
<1>4. g.kind \in {"new", "result", "bad", "salt"}
  BY <1>1, <1>2 DEF MessageIs
<1> HIDE DEF g
<1>5. Lined(s, known, down', executed, {})
  BY <1>3, <1>4, ProcessMessageLine
<1> HIDE DEF s
<1>6. Shape(t) /\ Same(s, t, FieldNames \ LineFields)
  BY <1>5 DEF Lined, Shape, FieldNames, Same, LineFields
<1> HIDE DEF t
<1>7. Lined(t, known, down', executed, {})
  BY <1>5, <1>6, LinedStays
<1> QED BY <1>1, <1>3, <1>7 DEF LineInv

LEMMA ConnectedLine == ASSUME RpcInv, LineInv, NEW d \in Dcs, Rpc!Connected(d) PROVE LineInv'
<1> DEFINE t == Rpc!ProcessRequestQueue(c, TRUE, d)
<1>1. /\ known' = known /\ home' = home /\ executed' = executed
      /\ down[d] # <<>> /\ down' = [down EXCEPT ![d] = Tail(@)] /\ c' \in {c, t}
  BY DEF Rpc!Connected
<1>2. Lined(c, known, down', executed, {}) /\ KnownTyped(known, down')
  BY <1>1, LineTaken
<1>3. Lined(t, known, down', executed, {})
  BY <1>2, ProcessRequestQueueLine
<1> HIDE DEF t
<1> QED BY <1>1, <1>2, <1>3 DEF LineInv

(* A connection comes up.                                                  *)
LEMMA ConnectLine == ASSUME LineInv, NEW d \in Dcs, Rpc!Connect(d) PROVE LineInv'
<1> DEFINE g0 == [kind |-> "connected"]
           longer == Append(down[d], g0)
<1>1. /\ c' = [c EXCEPT !.linked = @ \cup {d}] /\ known' = known /\ home' = home /\ executed' = executed
      /\ down' = [down EXCEPT ![d] = longer]
  BY DEF Rpc!Connect
<1>2. /\ Shape(c) /\ Line(c, known, down, executed, {}) /\ LineTyped(c) /\ KnownTyped(known, down)
  BY DEF LineInv, Lined, Line
<1>3. Shape(c') /\ Same(c, c', {"linked"}) /\ c'.linked = c.linked \cup {d}
  BY <1>1, <1>2 DEF Shape, FieldNames, Same
<1>4. c'.req = c.req /\ c'.up = c.up /\ c'.running = c.running /\ c'.delayed = c.delayed
      /\ c'.completing = c.completing
  BY <1>3 DEF Same, FieldNames
<1>5. /\ c.req \in [DOMAIN c.req -> Waiting] /\ c.completing \in Seq(Nat)
      /\ DOMAIN c.up = Dcs /\ (\A e \in Dcs : Packed(c.up[e])) /\ c'.linked \subseteq Dcs
  BY <1>2, <1>3 DEF LineTyped
<1>6. Same(c, c', (FieldNames \ LineFields) \cup {"req", "up", "linked", "delayed", "completing"})
  BY <1>3 DEF Same, FieldNames, LineFields
<1>7. Line(c', known, down, executed, {})
  BY <1>2, <1>4, <1>5, <1>6, LineKeeps
<1>8. g0.kind # "result"
  OBVIOUS
<1> HIDE DEF g0
<1>9. IsList(longer) /\ Rpc!ToSet(longer) = Rpc!ToSet(down[d]) \cup {g0}
  <2> DEFINE S == Rpc!ToSet(down[d]) \cup {g0}
  <2>1. down[d] \in Seq(S) /\ g0 \in S
    BY <1>2, SeqMonotonic DEF KnownTyped, IsList
  <2> HIDE DEF S
  <2>2. longer \in Seq(S) /\ Rpc!ToSet(longer) = Rpc!ToSet(down[d]) \cup {g0}
    BY <2>1, OneAppended
  <2> QED BY <2>2, ListOf
<1> HIDE DEF longer
<1>10. DOMAIN down' = Dcs /\ \A e \in Dcs : down'[e] = IF e = d THEN longer ELSE down[e]
  BY <1>1, <1>2 DEF KnownTyped
<1>11. \A e \in Dcs : \A g \in Rpc!ToSet(down'[e]) : g.kind = "result" => g \in Rpc!ToSet(down[e])
  BY <1>8, <1>9, <1>10
<1>12. Lined(c', known, down, executed, {})
  BY <1>3, <1>7 DEF Lined
<1>13. Lined(c', known, down', executed, {})
  BY <1>11, <1>12, LineLoses
<1>14. KnownTyped(known, down')
  BY <1>2, <1>9, <1>10 DEF KnownTyped
<1> QED BY <1>1, <1>13, <1>14 DEF LineInv

(* A connection is lost, and what the server remembers may be.             *)
LEMMA LoseLine == ASSUME LineInv, NEW d \in Dcs, Rpc!Lose(d) PROVE LineInv'
<1> DEFINE u == Rpc!Unlink(c, d)
<1>1. /\ home' = home /\ c' = [u EXCEPT !.wanted = IF d \in {c.current, c.moving} THEN @ ELSE @ \ {d}]
      /\ \E n \in 0 .. Len(down[d]) : down' = [down EXCEPT ![d] = SubSeq(@, 1, n)]
      /\ \E forgets \in BOOLEAN : known' = IF forgets THEN [known EXCEPT ![d] = {}] ELSE known
      /\ executed' = executed
  BY DEF Rpc!Lose
<1>2. Lined(c, known, down, executed, {}) /\ KnownTyped(known, down)
  BY DEF LineInv
<1>3. Lined(u, known, down, executed, {})
  BY <1>2, LineUnlinks
<1> HIDE DEF u
<1>4. Shape(c') /\ Same(u, c', FieldNames \ LineFields)
  BY <1>1, <1>3 DEF Lined, Shape, FieldNames, Same, LineFields
<1>5. Lined(c', known, down, executed, {})
  BY <1>3, <1>4, LinedStays
<1>6. PICK n \in 0 .. Len(down[d]) : down' = [down EXCEPT ![d] = SubSeq(@, 1, n)]
  BY <1>1
<1>7. IsList(SubSeq(down[d], 1, n)) /\ Rpc!ToSet(SubSeq(down[d], 1, n)) \subseteq Rpc!ToSet(down[d])
  BY <1>2, ListBegins DEF KnownTyped
<1>8. DOMAIN down' = Dcs /\ \A e \in Dcs : down'[e] = IF e = d THEN SubSeq(down[d], 1, n) ELSE down[e]
  BY <1>2, <1>6 DEF KnownTyped
<1>9. DOMAIN known' = Dcs /\ \A e \in Dcs : known'[e] = known[e] \/ known'[e] = {}
  BY <1>1, <1>2 DEF KnownTyped
<1>10. \A e \in Dcs : /\ IsList(down'[e]) /\ Rpc!ToSet(down'[e]) \subseteq Rpc!ToSet(down[e])
                      /\ known'[e] \subseteq known[e]
  BY <1>2, <1>7, <1>8, <1>9 DEF KnownTyped
<1>11. Lined(c', known', down', executed, {})
  BY <1>5, <1>10, LineLoses
<1>12. KnownTyped(known', down')
  BY <1>2, <1>8, <1>9, <1>10, FS_EmptySet DEF KnownTyped
<1> QED BY <1>1, <1>11, <1>12 DEF LineInv

(* The server sends ms, and what it knows is as it should be.              *)
LEMMA LineSends ==
    ASSUME NEW s, NEW t, NEW ex, NEW d \in Dcs, NEW ms, IsList(ms), Rpc!Sends(d, ms),
           Lined(s, known, down, ex, {}), KnownTyped(known, down), Shape(t), Shrinks(s, t, ex),
           t.completing = s.completing, \A e \in Dcs : Rpc!ToSet(t.up[e]) \subseteq Rpc!ToSet(s.up[e]),
           DOMAIN known' = Dcs, \A e \in Dcs \ {d} : known'[e] = known[e], IsFiniteSet(known'[d]),
           \A k \in known'[d] : /\ k = [f \in Entries |-> k[f]] /\ Asks(s.up, known, k.mid, k.req, k.after)
                                /\ k.what = "ok" /\ k.req \in Requests => k.req \in Rpc!ToSet(ex),
           \A g \in Rpc!ToSet(ms) : g.kind = "result" =>
              \E r, a : Asks(s.up, known, g.mid, r, a) /\ (g.what = "ok" /\ r \in Requests => r \in Rpc!ToSet(ex))
    PROVE  Lined(t, known', down', ex, {}) /\ KnownTyped(known', down')
<1>1. DOMAIN down = Dcs /\ \A e \in Dcs : IsList(down[e])
  BY DEF KnownTyped
<1>2. /\ IsList(down[d] \o ms) /\ Rpc!ToSet(down[d] \o ms) = Rpc!ToSet(down[d]) \cup Rpc!ToSet(ms)
  BY <1>1, ListsJoined
<1>3. DOMAIN down' = Dcs /\ \A e \in Dcs : down'[e] = down[e] \/ (e = d /\ down'[e] = down[d] \o ms)
  BY <1>1 DEF Rpc!Sends
<1>4. \A e \in Dcs : IsList(down'[e]) /\ Rpc!ToSet(down'[e]) \subseteq Rpc!ToSet(down[e]) \cup Rpc!ToSet(ms)
  BY <1>1, <1>2, <1>3
<1>5. KnownTyped(known', down')
  <2>1. \A e \in Dcs : IsFiniteSet(known'[e]) /\ \A k \in known'[e] : k = [f \in Entries |-> k[f]]
    BY DEF KnownTyped
  <2> QED BY <2>1, <1>3, <1>4 DEF KnownTyped
<1>6. Line(s, known, down, ex, {}) /\ Done(known, ex)
  BY DEF Lined, Line
<1>7. ASSUME NEW i, NEW r, NEW a, Asks(t.up, known', i, r, a) PROVE Asks(s.up, known, i, r, a)
  <2>1. PICK e \in Dcs :
          \/ \E p \in Rpc!ToSet(t.up[e]) : \E n \in DOMAIN p.messages :
                p.messages[n].mid = i /\ p.messages[n].req = r /\ p.messages[n].after = a
          \/ \E k \in known'[e] : k.mid = i /\ k.req = r /\ k.after = a
    BY <1>7 DEF Asks
  <2>2. CASE \E p \in Rpc!ToSet(t.up[e]) : \E n \in DOMAIN p.messages :
                p.messages[n].mid = i /\ p.messages[n].req = r /\ p.messages[n].after = a
    BY <2>2, SMTT(60) DEF Asks
  <2>3. CASE \E k \in known'[e] : k.mid = i /\ k.req = r /\ k.after = a
    <3>1. PICK k \in known'[e] : k.mid = i /\ k.req = r /\ k.after = a
      BY <2>3
    <3>2. CASE e = d
      BY <3>1, <3>2
    <3>3. CASE e # d
      BY <3>1, <3>3 DEF Asks
    <3> QED BY <3>2, <3>3
  <2> QED BY <2>1, <2>2, <2>3
<1>8. Done(known', ex)
  BY <1>6 DEF Done
<1>9. Fewer(s, known, down, ex, {}, t, known', down', {})
  BY <1>4, <1>7, <1>8 DEF Fewer
<1>10. Line(t, known', down', ex, {})
  BY <1>6, <1>9, LineLess
<1> QED BY <1>5, <1>10 DEF Lined

(* A packet is taken.                                                      *)
LEMMA LinePacketTaken ==
    ASSUME LineInv, NEW d \in Dcs, c.up[d] # <<>>, c' = [c EXCEPT !.up[d] = Tail(@)]
    PROVE  /\ Shape(c') /\ Shrinks(c, c', executed) /\ c'.completing = c.completing
           /\ \A e \in Dcs : Rpc!ToSet(c'.up[e]) \subseteq Rpc!ToSet(c.up[e])
           /\ Head(c.up[d]) \in Rpc!ToSet(c.up[d]) /\ \E n \in Nat : DOMAIN Head(c.up[d]).messages = 1 .. n
<1>1. Shape(c) /\ Line(c, known, down, executed, {}) /\ LineTyped(c)
  BY DEF LineInv, Lined, Line
<1>2. Shape(c') /\ Same(c, c', {"up"}) /\ c'.up = [c.up EXCEPT ![d] = Tail(@)]
  BY <1>1 DEF Shape, FieldNames, Same
<1>3. Same(c, c', (FieldNames \ LineFields) \cup {"up"}) /\ c'.completing = c.completing
  BY <1>2 DEF Same, FieldNames
<1>4. DOMAIN c.up = Dcs /\ \A e \in Dcs : Packed(c.up[e])
  BY <1>1 DEF LineTyped
<1>5. /\ IsList(Tail(c.up[d])) /\ Rpc!ToSet(Tail(c.up[d])) \subseteq Rpc!ToSet(c.up[d])
      /\ Head(c.up[d]) \in Rpc!ToSet(c.up[d])
  BY <1>4, ShorterList DEF Packed
<1>6. Packed(Tail(c.up[d])) /\ \E n \in Nat : DOMAIN Head(c.up[d]).messages = 1 .. n
  BY <1>4, <1>5 DEF Packed
<1>7. DOMAIN c'.up = Dcs /\ \A e \in Dcs : c'.up[e] = IF e = d THEN Tail(c.up[d]) ELSE c.up[e]
  BY <1>2, <1>4
<1>8. \A e \in Dcs : Packed(c'.up[e]) /\ Rpc!ToSet(c'.up[e]) \subseteq Rpc!ToSet(c.up[e])
  BY <1>4, <1>5, <1>6, <1>7
<1>9. Shrinks(c, c', executed)
  BY <1>1, <1>3, <1>7, <1>8, ShrinksUp
<1> QED BY <1>2, <1>3, <1>5, <1>6, <1>8, <1>9

LEMMA ServerTakesLine == ASSUME LineInv, NEW d \in Dcs, Rpc!ServerTakes(d) PROVE LineInv'
<1> DEFINE p == Head(c.up[d])
           ids == {p.messages[i].mid : i \in DOMAIN p.messages}
           seen == {k \in known[d] : k.session = p.session}
           again == {k \in seen : k.mid \in ids /\ k.what # "none"}
           fresh == {i \in DOMAIN p.messages : /\ Rpc!NeedsAnswer(p.messages[i].req)
                                             /\ \A k \in seen : k.mid # p.messages[i].mid}
           g0 == [kind |-> "new", session |-> p.session, mid |-> 0, first |-> Rpc!Min(ids)]
           new == IF p.session \in open[d] THEN <<>> ELSE <<g0>>
           R(i) == [session |-> p.session, mid |-> p.messages[i].mid, req |-> p.messages[i].req,
                    after |-> p.messages[i].after, what |-> "none"]
           added == {R(i) : i \in fresh}
           answers == {Rpc!Answer(k) : k \in again}
           ms == new \o Rpc!SetToSeq(answers)
<1>1. /\ c.up[d] # <<>> /\ c' = [c EXCEPT !.up[d] = Tail(@)] /\ home' = home /\ executed' = executed
      /\ known' = [known EXCEPT ![d] = @ \cup added] /\ Rpc!Sends(d, ms)
  BY DEF Rpc!ServerTakes
<1>2. /\ Shape(c') /\ Shrinks(c, c', executed) /\ c'.completing = c.completing
      /\ \A e \in Dcs : Rpc!ToSet(c'.up[e]) \subseteq Rpc!ToSet(c.up[e])
      /\ p \in Rpc!ToSet(c.up[d]) /\ \E n \in Nat : DOMAIN p.messages = 1 .. n
  BY <1>1, LinePacketTaken
<1>3. fresh \subseteq DOMAIN p.messages /\ again \subseteq known[d]
  OBVIOUS
<1>4. g0.kind # "result"
  OBVIOUS
<1>5. \A i : /\ R(i) = [f \in Entries |-> R(i)[f]] /\ R(i).what = "none" /\ R(i).mid = p.messages[i].mid
             /\ R(i).req = p.messages[i].req /\ R(i).after = p.messages[i].after
  BY DEF Entries
<1> HIDE DEF p, fresh, again, g0, R
<1>6. Lined(c, known, down, executed, {}) /\ KnownTyped(known, down) /\ home \in Dcs
  BY DEF LineInv
<1>7. Done(known, executed)
  BY <1>6 DEF Lined, Line
<1>8. IsFiniteSet(known[d]) /\ DOMAIN known = Dcs /\ \A k \in known[d] : k = [f \in Entries |-> k[f]]
  BY <1>6 DEF KnownTyped
<1>9. \A k \in added : /\ k = [f \in Entries |-> k[f]] /\ Asks(c.up, known, k.mid, k.req, k.after) /\ k.what = "none"
  <2> TAKE k \in added
  <2>1. PICK i \in fresh : k = R(i)
    OBVIOUS
  <2>2. Asks(c.up, known, p.messages[i].mid, p.messages[i].req, p.messages[i].after)
    BY <1>2, <1>3, <2>1 DEF Asks
  <2> QED BY <2>1, <2>2, <1>5
<1>10. \A k \in known[d] : Asks(c.up, known, k.mid, k.req, k.after)
  BY DEF Asks
<1>11. \A g \in answers : \E r, a : /\ Asks(c.up, known, g.mid, r, a)
                                    /\ g.what = "ok" /\ r \in Requests => r \in Rpc!ToSet(executed)
  <2> TAKE g \in answers
  <2>1. PICK k \in again : g = Rpc!Answer(k)
    OBVIOUS
  <2>2. g.mid = k.mid /\ g.what = k.what /\ k \in known[d]
    BY <2>1, <1>3 DEF Rpc!Answer
  <2> QED BY <2>2, <1>7, <1>10 DEF Done
<1>12. IsFiniteSet(added)
  <2>1. PICK n \in Nat : DOMAIN p.messages = 1 .. n
    BY <1>2
  <2>2. IsFiniteSet(fresh)
    BY <2>1, <1>3, FS_Interval, FS_Subset
  <2> DEFINE f == [i \in fresh |-> R(i)]
  <2>3. DOMAIN f = fresh /\ added = {f[i] : i \in fresh}
    OBVIOUS
  <2> HIDE DEF f, added
  <2> QED BY <2>2, <2>3, ImageFinite
<1>13. IsFiniteSet(answers)
  <2>1. IsFiniteSet(again)
    BY <1>3, <1>8, FS_Subset
  <2> DEFINE f == [k \in again |-> Rpc!Answer(k)]
  <2>2. DOMAIN f = again /\ answers = {f[k] : k \in again}
    OBVIOUS
  <2> HIDE DEF f, answers
  <2> QED BY <2>1, <2>2, ImageFinite
<1>14. /\ IsList(Rpc!SetToSeq(answers)) /\ Rpc!ToSet(Rpc!SetToSeq(answers)) \subseteq answers
  BY <1>13, SetListed
<1>15. IsList(new) /\ Rpc!ToSet(new) \subseteq {g0}
  BY OneListed
<1>16. IsList(ms) /\ Rpc!ToSet(ms) \subseteq answers \cup {g0}
  BY <1>14, <1>15, ListsJoined
<1> HIDE DEF ms, answers, added
<1>17. /\ DOMAIN known' = Dcs /\ \A e \in Dcs \ {d} : known'[e] = known[e]
       /\ known'[d] = known[d] \cup added
  BY <1>1, <1>8
<1>18. IsFiniteSet(known'[d])
  <2>1. IsFiniteSet(known[d])
    BY <1>8
  <2>2. IsFiniteSet(known[d] \cup added)
    BY <2>1, <1>12, FS_Union
  <2> QED BY <2>2, <1>17
<1>19. \A k \in known'[d] : /\ k = [f \in Entries |-> k[f]] /\ Asks(c.up, known, k.mid, k.req, k.after)
                            /\ k.what = "ok" /\ k.req \in Requests => k.req \in Rpc!ToSet(executed)
  BY <1>7, <1>8, <1>9, <1>10, <1>17 DEF Done
<1>20. \A g \in Rpc!ToSet(ms) : g.kind = "result" =>
           \E r, a : /\ Asks(c.up, known, g.mid, r, a)
                     /\ g.what = "ok" /\ r \in Requests => r \in Rpc!ToSet(executed)
  BY <1>4, <1>11, <1>16
<1>21. Lined(c', known', down', executed, {}) /\ KnownTyped(known', down')
  BY <1>1, <1>2, <1>6, <1>16, <1>17, <1>18, <1>19, <1>20, LineSends
<1> QED BY <1>1, <1>6, <1>21 DEF LineInv

LEMMA ServerRefusesLine == ASSUME LineInv, NEW d \in Dcs, Rpc!ServerRefuses(d) PROVE LineInv'
<1>1. /\ c.up[d] # <<>> /\ c' = [c EXCEPT !.up[d] = Tail(@)]
      /\ known' = known /\ home' = home /\ executed' = executed
  BY DEF Rpc!ServerRefuses
<1>2. PICK kind \in {"bad", "salt"} :
         Rpc!Sends(d, <<[kind |-> kind, session |-> Head(c.up[d]).session, mid |-> 0]>>)
  BY DEF Rpc!ServerRefuses
<1> DEFINE g0 == [kind |-> kind, session |-> Head(c.up[d]).session, mid |-> 0]
           ms == <<g0>>
<1>3. /\ Shape(c') /\ Shrinks(c, c', executed) /\ c'.completing = c.completing
      /\ \A e \in Dcs : Rpc!ToSet(c'.up[e]) \subseteq Rpc!ToSet(c.up[e])
  BY <1>1, LinePacketTaken
<1>4. g0.kind # "result" /\ Rpc!Sends(d, ms)
  BY <1>2
<1> HIDE DEF g0
<1>5. IsList(ms) /\ Rpc!ToSet(ms) = {g0}
  BY OneListed
<1> HIDE DEF ms
<1>6. Lined(c, known, down, executed, {}) /\ KnownTyped(known, down) /\ home \in Dcs
  BY DEF LineInv
<1>7. /\ DOMAIN known' = Dcs /\ (\A e \in Dcs \ {d} : known'[e] = known[e]) /\ IsFiniteSet(known'[d])
      /\ \A k \in known'[d] : k = [f \in Entries |-> k[f]]
  BY <1>1, <1>6 DEF KnownTyped
<1>8. \A k \in known'[d] : /\ Asks(c.up, known, k.mid, k.req, k.after)
                           /\ k.what = "ok" /\ k.req \in Requests => k.req \in Rpc!ToSet(executed)
  <2>1. Done(known, executed)
    BY <1>6 DEF Lined, Line
  <2> QED BY <2>1, <1>1 DEF Done, Asks
<1>9. \A g \in Rpc!ToSet(ms) : g.kind # "result"
  BY <1>4, <1>5
<1>10. Lined(c', known', down', executed, {}) /\ KnownTyped(known', down')
  BY <1>3, <1>4, <1>5, <1>6, <1>7, <1>8, <1>9, LineSends
<1> QED BY <1>1, <1>6, <1>10 DEF LineInv

(* The server answers: a message is sent on when its turn has come.        *)
LEMMA ServerAnswersLine ==
    ASSUME LineInv, NEW d \in Dcs, NEW k \in known[d], Rpc!ServerAnswers(d, k) PROVE LineInv'
<1>1. /\ c' = c /\ home' = home
      /\ \E w : /\ known' = [known EXCEPT ![d] = (@ \ {k}) \cup {[k EXCEPT !.what = w]}]
                /\ Rpc!Sends(d, <<Rpc!Answer([k EXCEPT !.what = w])>>)
                /\ \/ w # "ok" /\ executed' = executed
                   \/ /\ k.after = 0 \/ \E x \in known[d] : x.mid = k.after /\ x.what = "ok"
                      /\ executed' = IF k.req \in Requests /\ k.req \notin Rpc!ToSet(executed)
                                     THEN Append(executed, k.req) ELSE executed
  <2>1. home # "ok" /\ "error" # "ok" /\ \A w \in {"error", "500", "420"} : w # "ok"
    BY RpcAssumption DEF LineInv, Rpc!DcsAssumption, Rpc!Outcomes
  <2> QED BY <2>1 DEF Rpc!ServerAnswers
<1>2. PICK w : /\ known' = [known EXCEPT ![d] = (@ \ {k}) \cup {[k EXCEPT !.what = w]}]
               /\ Rpc!Sends(d, <<Rpc!Answer([k EXCEPT !.what = w])>>)
               /\ \/ w # "ok" /\ executed' = executed
                  \/ /\ k.after = 0 \/ \E x \in known[d] : x.mid = k.after /\ x.what = "ok"
                     /\ executed' = IF k.req \in Requests /\ k.req \notin Rpc!ToSet(executed)
                                    THEN Append(executed, k.req) ELSE executed
  BY <1>1
<1> DEFINE j == [k EXCEPT !.what = w]
           a == Rpc!Answer(j)
           ms == <<a>>
<1>3. Shape(c) /\ Line(c, known, down, executed, {}) /\ KnownTyped(known, down) /\ home \in Dcs
  BY DEF LineInv, Lined
<1>4. Line(c, known, down, executed', {}) /\ (w = "ok" /\ k.req \in Requests => k.req \in Rpc!ToSet(executed'))
  <2>1. CASE executed' = executed /\ (w # "ok" \/ k.req \notin Requests \/ k.req \in Rpc!ToSet(executed))
    BY <2>1, <1>3
  <2>2. CASE /\ k.after = 0 \/ \E x \in known[d] : x.mid = k.after /\ x.what = "ok"
             /\ k.req \in Requests /\ k.req \notin Rpc!ToSet(executed) /\ executed' = Append(executed, k.req)
    <3>1. Line(c, known, down, executed', {})
      BY <2>2, <1>3, LineTurn
    <3>2. executed \in Seq(Requests)
      BY <1>3 DEF Line, InTurn
    <3>3. k.req \in Rpc!ToSet(Append(executed, k.req))
      BY <2>2, <3>2, OneAppended
    <3> QED BY <2>2, <3>1, <3>3
  <2> QED BY <2>1, <2>2, <1>2
<1>5. k = [f \in Entries |-> k[f]] /\ IsFiniteSet(known[d]) /\ DOMAIN known = Dcs
  BY <1>3 DEF KnownTyped
<1>6. /\ j = [f \in Entries |-> j[f]] /\ j.mid = k.mid /\ j.req = k.req /\ j.after = k.after /\ j.what = w
  <2>1. j = [f \in Entries |-> IF f = "what" THEN w ELSE k[f]]
    BY <1>5 DEF Entries
  <2> HIDE DEF j
  <2> QED BY <2>1 DEF Entries
<1>7. a.mid = k.mid /\ a.what = w
  BY <1>6 DEF Rpc!Answer
<1>8. Rpc!Sends(d, ms) /\ known' = [known EXCEPT ![d] = (@ \ {k}) \cup {j}]
  BY <1>2
<1> HIDE DEF a, j
<1>9. IsList(ms) /\ Rpc!ToSet(ms) = {a}
  BY OneListed
<1> HIDE DEF ms
<1>10. /\ DOMAIN known' = Dcs /\ \A e \in Dcs \ {d} : known'[e] = known[e]
       /\ known'[d] = (known[d] \ {k}) \cup {j}
  BY <1>5, <1>8
<1>11. IsFiniteSet(known'[d])
  <2> DEFINE K == known[d] \ {k}
  <2>1. IsFiniteSet(K)
    BY <1>5, FS_RemoveElement
  <2>2. known'[d] = K \cup {j}
    BY <1>10
  <2> HIDE DEF K
  <2>3. IsFiniteSet(K \cup {j})
    BY <2>1, FS_AddElement
  <2> QED BY <2>2, <2>3
<1>12. \A x \in known[d] : Asks(c.up, known, x.mid, x.req, x.after)
  BY DEF Asks
<1>13. \A x \in known'[d] : /\ x = [f \in Entries |-> x[f]] /\ Asks(c.up, known, x.mid, x.req, x.after)
                            /\ x.what = "ok" /\ x.req \in Requests => x.req \in Rpc!ToSet(executed')
  <2>1. \A x \in known[d] : /\ x = [f \in Entries |-> x[f]]
                            /\ x.what = "ok" /\ x.req \in Requests => x.req \in Rpc!ToSet(executed')
    BY <1>3, <1>4 DEF KnownTyped, Line, Done
  <2>2. j = [f \in Entries |-> j[f]] /\ Asks(c.up, known, j.mid, j.req, j.after)
    BY <1>6, <1>12
  <2>3. j.what = "ok" /\ j.req \in Requests => j.req \in Rpc!ToSet(executed')
    BY <1>4, <1>6
  <2> QED BY <2>1, <2>2, <2>3, <1>10, <1>12
<1>14. \A g \in Rpc!ToSet(ms) : g.kind = "result" =>
           \E r, b : /\ Asks(c.up, known, g.mid, r, b)
                     /\ g.what = "ok" /\ r \in Requests => r \in Rpc!ToSet(executed')
  BY <1>4, <1>7, <1>9, <1>12
<1>15. Shrinks(c, c, executed')
  <2>1. LineTyped(c)
    BY <1>3 DEF Line
  <2>2. Same(c, c, (FieldNames \ LineFields) \cup {"up"}) /\ DOMAIN c.up = Dcs /\ \A e \in Dcs : Packed(c.up[e])
    BY <2>1 DEF Same, LineTyped
  <2> QED BY <2>2, <1>4, ShrinksUp
<1>16. Lined(c, known, down, executed', {})
  BY <1>3, <1>4 DEF Lined
<1>17. Lined(c, known', down', executed', {}) /\ KnownTyped(known', down')
  BY <1>3, <1>8, <1>9, <1>10, <1>11, <1>13, <1>14, <1>15, <1>16, LineSends
<1> QED BY <1>1, <1>3, <1>17 DEF LineInv

LEMMA AccountMovesLine == ASSUME LineInv, NEW d \in Dcs, Rpc!AccountMoves(d) PROVE LineInv'
<1>1. home' = d /\ c' = c /\ down' = down /\ known' = known /\ executed' = executed
  BY DEF Rpc!AccountMoves
<1> QED BY <1>1 DEF LineInv

(* It holds at the beginning.                                              *)
LEMMA LineInitHolds == Rpc!Init => LineInv
<1> SUFFICES ASSUME Rpc!Init PROVE LineInv
  OBVIOUS
<1>1. /\ down = [d \in Dcs |-> <<>>] /\ known = [d \in Dcs |-> {}] /\ home = First /\ executed = <<>>
      /\ c.queue = <<>> /\ c.running = <<>> /\ c.req = <<>> /\ c.linked = {} /\ c.mid = 0
      /\ c.up = [d \in Dcs |-> <<>>] /\ c.performed = <<>> /\ c.completing = <<>>
  BY DEF Rpc!Init
<1>2. Shape(c)
  BY RpcInitHolds DEF RpcInv
<1>3. Rpc!ToSet(<<>>) = {} /\ IsList(<<>>) /\ DOMAIN <<>> = {}
  <2>1. \A e : Rpc!ToSet(<<>>) = {} /\ IsList(<<>>)
    BY OneListed
  <2>2. DOMAIN <<>> = {}
    OBVIOUS
  <2> QED BY <2>1, <2>2
<1>4. LineTyped(c)
  <2>1. \A d \in Dcs : Packed(c.up[d])
    BY <1>1, <1>3 DEF Packed
  <2>2. DOMAIN c.req = {} /\ c.req \in [DOMAIN c.req -> Waiting]
    BY <1>1
  <2>3. c.queue \in Seq(Names) /\ c.running \in Seq(Names) /\ c.performed \in Seq(Requests) /\ c.completing \in Seq(Nat)
    BY <1>1
  <2>4. DOMAIN c.up = Dcs /\ c.linked \subseteq Dcs /\ c.mid \in Nat
    BY <1>1
  <2> QED BY <2>1, <2>2, <2>3, <2>4 DEF LineTyped
<1>5. DOMAIN c.req = {} /\ DOMAIN c.performed = {} /\ DOMAIN c.running = {} /\ DOMAIN c.queue = {} /\ DOMAIN executed = {}
      /\ Rpc!ToSet(c.performed) = {} /\ Rpc!ToSet(c.running) = {} /\ Rpc!ToSet(c.queue) = {}
      /\ Rpc!ToSet(c.completing) = {}
  BY <1>1, <1>3
<1>6. \A i, r, a : ~Asks(c.up, known, i, r, a)
  BY <1>1, <1>3 DEF Asks
<1>7. InLists(c) /\ Present(c, executed) /\ Finished(c, executed, {}) /\ Increasing(c) /\ Waits(c)
  BY <1>5 DEF InLists, Rising, Present, Finished, Increasing, Waits
<1>8. Ids(c, known) /\ Covers(c, known, executed)
  BY <1>5, <1>6 DEF Ids, Covers
<1>9. Done(known, executed) /\ Told(c, down, executed)
  BY <1>1, <1>3 DEF Done, Told
<1>10. InTurn(c, executed)
  <2>1. executed \in Seq(Requests)
    BY <1>1
  <2> QED BY <2>1, <1>5 DEF InTurn
<1>11. KnownTyped(known, down) /\ home \in Dcs
  BY <1>1, <1>3, FS_EmptySet, RpcAssumption DEF KnownTyped, Rpc!DcsAssumption
<1> QED BY <1>2, <1>4, <1>7, <1>8, <1>9, <1>10, <1>11 DEF LineInv, Lined, Line

(* Every step preserves it.                                                *)
LEMMA LineStep == RpcInv /\ LineInv /\ [Rpc!Next]_rpc => LineInv'
<1> SUFFICES ASSUME RpcInv, LineInv, [Rpc!Next]_rpc PROVE LineInv'
  OBVIOUS
<1>1. CASE UNCHANGED rpc
  <2>1. c' = c /\ known' = known /\ down' = down /\ home' = home /\ executed' = executed
    BY <1>1 DEF rpc
  <2> QED BY <2>1 DEF LineInv
<1>2. CASE Rpc!PerformPosted \/ Rpc!Timer \/ Rpc!RpcCompleted
  BY <1>2, PerformPostedLine, TimerLine, RpcCompletedKeepsLine
<1>3. CASE \E r \in Rpc!ToSet(c.running) : Rpc!Age(r)
  BY <1>3, AgeLine
<1>4. CASE \E d \in c.again : Rpc!MoveAgain(d)
  BY <1>4, MoveAgainLine
<1>5. CASE \E d \in c.handshakes : Rpc!HandshakeDidFinish(d)
  BY <1>5, HandshakeDidFinishLine
<1>6. ASSUME NEW d \in Dcs,
             \/ Rpc!ReceivedData(d) \/ Rpc!Connected(d) \/ Rpc!Connect(d) \/ Rpc!ServerTakes(d)
             \/ \E k \in known[d] : Rpc!ServerAnswers(d, k)
      PROVE  LineInv'
  BY <1>6, ReceivedLine, ConnectedLine, ConnectLine, ServerTakesLine, ServerAnswersLine
<1>7. CASE Rpc!Progress
  BY <1>2, <1>3, <1>4, <1>5, <1>6, <1>7 DEF Rpc!Progress
<1>8. ASSUME NEW r \in Requests, Rpc!Perform(r) \/ Rpc!CancelRpc(r)
      PROVE  LineInv'
  BY <1>8, PerformLine, CancelRpcLine
<1>9. ASSUME NEW d \in Dcs, Rpc!Lose(d) \/ Rpc!ServerRefuses(d) \/ Rpc!AccountMoves(d)
      PROVE  LineInv'
  BY <1>9, LoseLine, ServerRefusesLine, AccountMovesLine
<1> QED BY <1>1, <1>7, <1>8, <1>9 DEF Rpc!Next

LEMMA LineInvHolds == Init /\ [][Next]_vars => []LineInv
<1>1. Init => LineInv
  BY LineInitHolds DEF Init
<1>2. RpcInv /\ LineInv /\ [Next]_vars => LineInv'
  <2> SUFFICES ASSUME RpcInv, LineInv, [Next]_vars PROVE LineInv'
    OBVIOUS
  <2>1. [Rpc!Next]_rpc
    BY DEF Next, vars, OnlyHandshake, OnlyRpc
  <2> QED BY <2>1, LineStep
<1> QED BY <1>1, <1>2, RpcInvHolds, PTL

(* InOrder, for all requests, datacenters and numbers of events: messages  *)
(* are sent on in the order in which they were given to performRpc,        *)
(* whatever is lost, repeated, refused or answered late, and wherever the  *)
(* account moves (performRpcInternal, processRequestQueue, processMessage, *)
(* moveToDatacenter): each message asks to come after the last one that    *)
(* runs (invokeAfterMsg), which is enough unless one of those in between   *)
(* is cancelled, failed, asked for again, or gone past (Passed).           *)
THEOREM SentOnInOrder == Init /\ [][Next]_vars => []InOrder
<1>1. LineInv => InOrder
  <2> SUFFICES ASSUME LineInv, NEW i \in DOMAIN executed, NEW j \in DOMAIN executed, i < j,
                      Rank(c.performed, executed[i]) > Rank(c.performed, executed[j])
               PROVE  executed[j] \in c.delayed
    BY DEF InOrder, Rpc!InOrder, Rank
  <2>1. InTurn(c, executed) /\ LineTyped(c) /\ InLists(c)
    BY DEF LineInv, Lined, Line
  <2>2. executed[j] \in Rpc!ToSet(c.performed) /\ executed[i] \in Rpc!ToSet(c.performed)
    BY <2>1 DEF InTurn
  <2>3. Rank(c.performed, executed[i]) \in Nat /\ Rank(c.performed, executed[j]) \in Nat
    BY <2>1, <2>2, RankIs DEF LineTyped, InLists
  <2>4. Rank(c.performed, executed[j]) < Rank(c.performed, executed[i])
    BY <2>3
  <2>5. \/ executed[j] \in c.delayed
        \/ \E p \in DOMAIN executed : p < i /\ executed[p] = executed[j]
    BY <2>1, <2>2, <2>4 DEF InTurn
  <2>6. ASSUME NEW p \in DOMAIN executed, p < i, executed[p] = executed[j] PROVE FALSE
    <3>1. p = j /\ executed \in Seq(Requests)
      BY <2>1, <2>6 DEF InTurn
    <3> QED BY <3>1, <2>6
  <2> QED BY <2>5, <2>6
<1> QED BY <1>1, LineInvHolds, PTL

=============================================================================
