--------------------------- MODULE UpdatesProofs ---------------------------
(***************************************************************************)
(* For any number of events, crashes and errors, with any kinds and types: *)
(* the counters never get past a message the client has not dealt with.    *)
(***************************************************************************)
EXTENDS Updates, TLAPS

-----------------------------------------------------------------------------
(* What posting to the storage thread does to the queue.                   *)

(* One more runnable: the old ones keep their place and what is before     *)
(* them, and the new one is behind all of them.                            *)
LEMMA PostOne ==
  ASSUME NEW Q \in Seq(TaskSet), NEW t \in TaskSet
  PROVE  LET R == Q \o <<t>> IN
         /\ R \in Seq(TaskSet)
         /\ PutsOf(R) = PutsOf(Q) \cup t.events
         /\ \A k \in DOMAIN R :
              \/ k \in DOMAIN Q /\ R[k] = Q[k] /\ PutsBefore(R, k) = PutsBefore(Q, k)
              \/ R[k] = t /\ PutsBefore(R, k) = PutsOf(Q)
  <1>. DEFINE R == Q \o <<t>>
  <1>1. /\ R \in Seq(TaskSet) /\ Len(R) = Len(Q) + 1 /\ R[Len(Q) + 1] = t
        /\ \A k \in 1 .. Len(Q) : R[k] = Q[k]
    OBVIOUS
  <1>. HIDE DEF R
  <1>2. DOMAIN R = 1 .. Len(Q) + 1 /\ DOMAIN Q = 1 .. Len(Q)
    BY <1>1
  <1>3. PutsOf(R) = PutsOf(Q) \cup t.events
    BY <1>1, <1>2 DEF PutsOf
  <1>4. PutsBefore(R, Len(Q) + 1) = PutsOf(Q)
    BY <1>1, <1>2 DEF PutsOf, PutsBefore
  <1>5. ASSUME NEW k \in DOMAIN R, k # Len(Q) + 1
        PROVE  k \in DOMAIN Q /\ R[k] = Q[k] /\ PutsBefore(R, k) = PutsBefore(Q, k)
    BY <1>1, <1>2, <1>5 DEF PutsBefore
  <1>. QED  BY <1>1, <1>3, <1>4, <1>5 DEF R

(* R is Q with S put behind it, and then perhaps l saved.                  *)
PutThenSaved(Q, S, l, R) ==
    /\ R \in Seq(TaskSet)
    /\ PutsOf(R) = PutsOf(Q) \cup S
    /\ \A k \in DOMAIN R :
         \/ k \in DOMAIN Q /\ R[k] = Q[k] /\ PutsBefore(R, k) = PutsBefore(Q, k)
         \/ R[k].op = "put" /\ R[k].params = NoParams
         \/ R[k].params = l /\ PutsBefore(R, k) = PutsOf(Q) \cup S

(* What a handler posts at its end, messages and then counters, is a put   *)
(* before a save.                                                          *)
LEMMA PostPutSave ==
  ASSUME NEW Q \in Seq(TaskSet), NEW S \in SUBSET Nat, NEW l \in Params,
         NEW R, R = Q \o Put(S) \/ R = Q \o Put(S) \o Save(l)
  PROVE  PutThenSaved(Q, S, l, R)
  <1>. DEFINE P == Q \o Put(S)
  <1>1. /\ P \in Seq(TaskSet) /\ PutsOf(P) = PutsOf(Q) \cup S
        /\ \A k \in DOMAIN P :
             \/ k \in DOMAIN Q /\ P[k] = Q[k] /\ PutsBefore(P, k) = PutsBefore(Q, k)
             \/ P[k].op = "put" /\ P[k].params = NoParams
    <2>1. CASE S = {}
      <3>1. P = Q
        BY <2>1 DEF Put
      <3>. QED  BY <2>1, <3>1
    <2>2. CASE S # {}
      <3>. DEFINE t == Task("put", S, NoParams)
      <3>1. P = Q \o <<t>>
        BY <2>2 DEF Put
      <3>2. t \in TaskSet /\ t.op = "put" /\ t.events = S /\ t.params = NoParams
        BY DEF Task, TaskSet, NoParams, Params
      <3>. HIDE DEF t, P
      <3>. QED  BY <3>1, <3>2, PostOne
    <2>. QED  BY <2>1, <2>2
  <1>. HIDE DEF P
  <1>2. CASE R = P
    BY <1>1, <1>2 DEF PutThenSaved
  <1>3. CASE R = P \o Save(l)
    <2>. DEFINE t == Task("save", {}, l)
    <2>1. R = P \o <<t>>
      BY <1>3 DEF Save
    <2>2. t \in TaskSet /\ t.events = {} /\ t.params = l
      BY DEF Task, TaskSet
    <2>. HIDE DEF t
    <2>3. /\ R \in Seq(TaskSet) /\ PutsOf(R) = PutsOf(P) \cup t.events
          /\ \A k \in DOMAIN R :
               \/ k \in DOMAIN P /\ R[k] = P[k] /\ PutsBefore(R, k) = PutsBefore(P, k)
               \/ R[k] = t /\ PutsBefore(R, k) = PutsOf(P)
      <3>1. P \in Seq(TaskSet) /\ t \in TaskSet
        BY <1>1, <2>2
      <3>. QED  BY <2>1, <3>1, PostOne
    <2>. QED  BY <1>1, <2>2, <2>3 DEF PutThenSaved
  <1>. QED  BY <1>2, <1>3 DEF P

(* Taking the first runnable off.                                          *)
LEMMA TakeFirst ==
  ASSUME NEW Q \in Seq(TaskSet), Q # <<>>
  PROVE  LET R == Tail(Q) IN
         /\ Head(Q) \in TaskSet /\ Head(Q) = Q[1] /\ 1 \in DOMAIN Q
         /\ PutsBefore(Q, 1) = {}
         /\ R \in Seq(TaskSet)
         /\ PutsOf(Q) = Head(Q).events \cup PutsOf(R)
         /\ \A k \in DOMAIN R : /\ k + 1 \in DOMAIN Q /\ R[k] = Q[k + 1]
                                /\ PutsBefore(Q, k + 1) = Head(Q).events \cup PutsBefore(R, k)
  <1>. DEFINE R == Tail(Q)
  <1>1. /\ R \in Seq(TaskSet) /\ Len(Q) \in Nat \ {0} /\ Len(R) = Len(Q) - 1
        /\ Head(Q) = Q[1] /\ Q[1] \in TaskSet
        /\ \A k \in 1 .. Len(R) : R[k] = Q[k + 1]
    OBVIOUS
  <1>. HIDE DEF R
  <1>2. DOMAIN R = 1 .. Len(Q) - 1 /\ DOMAIN Q = 1 .. Len(Q)
    BY <1>1
  <1>3. ASSUME NEW j \in DOMAIN Q, j # 1
        PROVE  j - 1 \in DOMAIN R /\ Q[j] = R[j - 1]
    BY <1>1, <1>2, <1>3
  <1>4. PutsBefore(Q, 1) = {}
    BY DEF PutsBefore
  <1>5. PutsOf(Q) \subseteq Head(Q).events \cup PutsOf(R)
    BY <1>1, <1>2, <1>3 DEF PutsOf
  <1>6. Head(Q).events \cup PutsOf(R) \subseteq PutsOf(Q)
    BY <1>1, <1>2 DEF PutsOf
  <1>7. ASSUME NEW k \in DOMAIN R
        PROVE  /\ k + 1 \in DOMAIN Q /\ R[k] = Q[k + 1]
               /\ PutsBefore(Q, k + 1) = Head(Q).events \cup PutsBefore(R, k)
    <2>1. k + 1 \in DOMAIN Q /\ R[k] = Q[k + 1] /\ k \in 1 .. Len(Q) - 1
      BY <1>1, <1>2
    <2>2. PutsBefore(Q, k + 1) \subseteq Head(Q).events \cup PutsBefore(R, k)
      <3>. SUFFICES ASSUME NEW j \in 1 .. (k + 1) - 1, NEW e \in Q[j].events
                    PROVE  e \in Head(Q).events \cup PutsBefore(R, k)
        BY DEF PutsBefore
      <3>1. CASE j = 1
        BY <3>1, <1>1
      <3>2. CASE j # 1
        <4>1. j \in DOMAIN Q /\ j - 1 \in 1 .. k - 1
          BY <2>1, <1>2, <3>2
        <4>. QED  BY <4>1, <1>3, <3>2 DEF PutsBefore
      <3>. QED  BY <3>1, <3>2
    <2>3. Head(Q).events \cup PutsBefore(R, k) \subseteq PutsBefore(Q, k + 1)
      <3>1. Head(Q).events \subseteq PutsBefore(Q, k + 1)
        BY <1>1, <2>1 DEF PutsBefore
      <3>2. ASSUME NEW j \in 1 .. k - 1
            PROVE  R[j].events \subseteq PutsBefore(Q, k + 1)
        <4>1. j \in 1 .. Len(R) /\ j + 1 \in 1 .. (k + 1) - 1
          BY <2>1, <1>1
        <4>. QED  BY <4>1, <1>1 DEF PutsBefore
      <3>. QED  BY <3>1, <3>2 DEF PutsBefore
    <2>. QED  BY <2>1, <2>2, <2>3
  <1>. QED  BY <1>1, <1>2, <1>4, <1>5, <1>6, <1>7 DEF R

-----------------------------------------------------------------------------
(* The log and the packages made from it.                                  *)

(* The log is a sequence of events with counters, and the last event's     *)
(* counters are numbers.                                                   *)
LEMMA LogTyped ==
  ASSUME TypeOK
  PROVE  /\ DOMAIN log = 1 .. Len(log) /\ Len(log) \in Nat
         /\ \A i \in DOMAIN log : log[i] \in [kind : Kinds, pts : Nat, qts : Nat]
         /\ PtsAt(Len(log)) \in Nat /\ QtsAt(Len(log)) \in Nat
  <1>. DEFINE E == [kind : Kinds, pts : Nat, qts : Nat]
  <1>1. log \in Seq(E)
    BY DEF TypeOK
  <1>2. /\ DOMAIN log = 1 .. Len(log) /\ Len(log) \in Nat
        /\ \A i \in DOMAIN log : log[i] \in E
    <2>. HIDE DEF E
    <2>. QED  BY <1>1
  <1>3. Len(log) = 0 \/ Len(log) \in DOMAIN log
    BY <1>2
  <1>. QED  BY <1>2, <1>3 DEF PtsAt, QtsAt

(* An event on a counter is past the n-th event's value of it only if it   *)
(* is past the n-th event.                                                 *)
LEMMA LogOrder ==
  ASSUME TypeOK, LogOrdered, NEW i \in DOMAIN log, NEW n \in DOMAIN log
  PROVE  /\ log[i].kind = "msg" /\ log[i].pts <= log[n].pts => i <= n
         /\ log[i].kind = "enc" /\ log[i].qts <= log[n].qts => i <= n
         /\ log[i].pts <= PtsAt(Len(log)) /\ log[i].qts <= QtsAt(Len(log))
  <1>1. /\ DOMAIN log = 1 .. Len(log) /\ Len(log) \in Nat
        /\ log[i] \in [kind : Kinds, pts : Nat, qts : Nat]
        /\ log[n] \in [kind : Kinds, pts : Nat, qts : Nat]
        /\ log[Len(log)] \in [kind : Kinds, pts : Nat, qts : Nat]
    BY LogTyped
  <1>2. i > n => n \in 1 .. i - 1
    BY <1>1
  <1>3. i # Len(log) => i \in 1 .. Len(log) - 1 /\ Len(log) \in DOMAIN log
    BY <1>1
  <1>. QED  BY <1>1, <1>2, <1>3 DEF LogOrdered, PtsAt, QtsAt

(* Counters that are zero need no event.                                   *)
LEMMA NothingNeeded ==
  ASSUME TypeOK, LogOrdered
  PROVE  Needed(NoParams) = {}
  <1>1. /\ DOMAIN log = 1 .. Len(log) /\ Len(log) \in Nat
        /\ \A i \in DOMAIN log : log[i] \in [kind : Kinds, pts : Nat, qts : Nat]
    BY LogTyped
  <1>2. \A i \in DOMAIN log : ~Reached(NoParams, i)
    BY <1>1 DEF LogOrdered, Reached, NoParams
  <1>. QED  BY <1>2 DEF Needed

(* A package is made of events of the log, and none of those it stores is  *)
(* the client's own.                                                       *)
LEMMA PackageFacts ==
  ASSUME NEW p \in Packages
  PROVE  /\ p.lo \in DOMAIN log /\ p.hi \in DOMAIN log
         /\ p.type = "userAction" => p.lo = p.hi /\ log[p.lo].kind = "own"
         /\ p.type # "userAction" => \A i \in p.lo .. p.hi : log[i].kind # "own"
         /\ ~IsContainer(p) => p.lo = p.hi
         /\ p.lo = p.hi \/ p.lo < p.hi
  <1>1. p \in [type : Types, lo : DOMAIN log, hi : DOMAIN log] /\ CanCarry(p)
    BY DEF Packages
  <1>2. p.type \in Types
    BY <1>1
  <1>3. CASE p.type \in {"updateShortMessage", "updateShortChatMessage"}
    <2>1. p.lo = p.hi /\ log[p.lo].kind = "msg"
      BY <1>1, <1>3 DEF CanCarry
    <2>2. \A i \in p.lo .. p.hi : i = p.lo
      BY <2>1
    <2>. QED  BY <1>1, <1>3, <2>1, <2>2
  <1>4. CASE p.type = "updates"
    <2>1. p.lo = p.hi /\ log[p.lo].kind # "own"
      BY <1>1, <1>4 DEF CanCarry
    <2>2. \A i \in p.lo .. p.hi : i = p.lo
      BY <2>1
    <2>. QED  BY <1>1, <1>4, <2>1, <2>2
  <1>5. CASE p.type = "updatesCombined"
    <2>1. p.lo < p.hi /\ \A i \in p.lo .. p.hi : log[i].kind # "own"
      BY <1>1, <1>5 DEF CanCarry
    <2>. QED  BY <1>1, <1>5, <2>1 DEF IsContainer
  <1>6. CASE p.type = "userAction"
    <2>1. p.lo = p.hi /\ log[p.lo].kind = "own"
      BY <1>1, <1>6 DEF CanCarry
    <2>. QED  BY <1>1, <1>6, <2>1
  <1>. QED  BY <1>2, <1>3, <1>4, <1>5, <1>6, UpdatesAssumption

(* Applying a package that is in sequence passes over nothing but its own  *)
(* events.                                                                 *)
LEMMA AdvancedFacts ==
  ASSUME Inductive, NEW p \in Packages, InSequence(p)
  PROVE  /\ Advanced(p) \in Params /\ Known(Advanced(p))
         /\ Events(p) \in SUBSET Nat
         /\ Needed(Advanced(p)) \subseteq Handed \cup Events(p)
  <1>1. /\ TypeOK /\ LogOrdered /\ Known(last) /\ NoGap /\ last \in Params
    BY DEF Inductive, CountersKnown, TypeOK
  <1>2. /\ DOMAIN log = 1 .. Len(log) /\ Len(log) \in Nat
        /\ \A i \in DOMAIN log : log[i] \in [kind : Kinds, pts : Nat, qts : Nat]
    BY <1>1, LogTyped
  <1>3. /\ p.lo \in 1 .. Len(log) /\ p.hi \in 1 .. Len(log) /\ p.lo <= p.hi
        /\ log[p.hi].pts \in Nat /\ log[p.hi].qts \in Nat
    BY <1>2, PackageFacts
  <1>4. Advanced(p) \in Params
    BY <1>1, <1>3 DEF Advanced, Params
  <1>5. Known(Advanced(p))
    BY <1>1, <1>3, <1>2, LogOrder DEF Known, Advanced
  <1>6. ASSUME NEW i \in Needed(Advanced(p))
        PROVE  i \in Handed \cup Events(p)
    <2>1. /\ i \in DOMAIN log /\ i > base /\ i \notin lost /\ Reached(Advanced(p), i)
          /\ i \in Nat
      BY <1>2, <1>6 DEF Needed
    <2>2. CASE log[i].kind # "own" /\ i <= p.hi
      <3>1. CASE i < p.lo
        <4>1. i <= last.seq
          BY <1>1, <1>2, <1>3, <2>1, <3>1 DEF InSequence, Params
        <4>. QED  BY <1>1, <2>1, <2>2, <4>1 DEF NoGap, Needed, Reached
      <3>2. CASE ~(i < p.lo)
        <4>1. i \in p.lo .. p.hi
          BY <1>3, <2>1, <2>2, <3>2
        <4>2. p.type # "userAction"
          BY <4>1, <2>2, <1>3, PackageFacts
        <4>. QED  BY <4>1, <4>2 DEF Events
      <3>. QED  BY <3>1, <3>2
    <2>3. CASE log[i].kind = "msg" /\ log[i].pts <= Advanced(p).pts
      <3>1. CASE Holds(p, "msg")
        BY <1>1, <1>2, <1>3, <2>1, <2>2, <2>3, <3>1, LogOrder DEF Advanced
      <3>2. CASE ~Holds(p, "msg")
        BY <1>1, <2>1, <2>3, <3>2 DEF Advanced, NoGap, Needed, Reached
      <3>. QED  BY <3>1, <3>2
    <2>4. CASE log[i].kind = "enc" /\ log[i].qts <= Advanced(p).qts
      <3>1. CASE Holds(p, "enc")
        BY <1>1, <1>2, <1>3, <2>1, <2>2, <2>4, <3>1, LogOrder DEF Advanced
      <3>2. CASE ~Holds(p, "enc")
        BY <1>1, <2>1, <2>4, <3>2 DEF Advanced, NoGap, Needed, Reached
      <3>. QED  BY <3>1, <3>2
    <2>5. Advanced(p).seq = p.hi
      BY DEF Advanced
    <2>. QED  BY <2>1, <2>2, <2>3, <2>4, <2>5 DEF Reached
  <1>7. Events(p) \in SUBSET Nat
    BY <1>3 DEF Events
  <1>. QED  BY <1>4, <1>5, <1>6, <1>7

-----------------------------------------------------------------------------
(* What a handler does to the secret messages that are not to be stored:   *)
(* none it must account for is forgotten.                                  *)
SecretsKept == held' \subseteq apart' /\ apart \subseteq apart' /\ apart' \subseteq Nat

(* Every event that goes through decryptMessage is to be stored or is set  *)
(* apart.                                                                  *)
LEMMA DecryptFacts ==
  ASSUME Inductive, NEW E \in SUBSET Nat, NEW S \in Storable(E), Decrypt(E, S)
  PROVE  S \in SUBSET Nat /\ E \subseteq S \cup apart' /\ SecretsKept
  <1>1. held \subseteq apart /\ apart \subseteq Nat
    BY DEF Inductive, TypeOK
  <1>2. CASE Secret(E) = {}
    BY <1>1, <1>2 DEF Storable, Decrypt, SecretsKept, secrets
  <1>3. CASE Secret(E) # {}
    <2>1. /\ S \subseteq E \cup held /\ E \ Secret(E) \subseteq S
          /\ held' \subseteq (Secret(E) \cup held) \ S
          /\ apart' = apart \cup (Secret(E) \ S)
      BY <1>3 DEF Storable, Decrypt
    <2>2. Secret(E) \subseteq E
      BY DEF Secret
    <2>. QED  BY <1>1, <2>1, <2>2 DEF SecretsKept
  <1>. QED  BY <1>2, <1>3

(* A container that is given up forgets none either.                       *)
LEMMA GiveUpFacts ==
  ASSUME Inductive, NEW p \in Packages, GiveUp(p)
  PROVE  SecretsKept
  <1>1. held \subseteq apart /\ apart \subseteq Nat
    BY DEF Inductive, TypeOK
  <1>2. PICK m \in Events(p) :
          LET E == Secret({i \in Events(p) : i < m}) IN
          IF E = {} THEN UNCHANGED secrets
          ELSE held' \in SUBSET (E \cup held) /\ apart' = apart \cup held'
    BY DEF GiveUp
  <1>3. Events(p) \subseteq Nat
    BY PackageFacts, LogTyped DEF Events, Inductive
  <1>4. Secret({i \in Events(p) : i < m}) \subseteq Nat
    BY <1>3 DEF Secret
  <1>. QED  BY <1>1, <1>2, <1>4 DEF SecretsKept, secrets

(***************************************************************************)
(* A handler of stageQueue keeps the invariant if it sets the counters to  *)
(* ones that need no more than what is handed over, the events S it puts   *)
(* and the secret messages it sets apart, puts S before it saves the       *)
(* counters, acknowledges no more than the counters say, and asks for the  *)
(* difference from where they are.                                         *)
(***************************************************************************)
LEMMA HandlerKeeps ==
  ASSUME Inductive,
         UNCHANGED <<log, stored, params, lastSaved, lost, crashes>>, SecretsKept,
         base' \in Nat, base <= base', errors' \in Nat,
         updatesQueue' \subseteq Packages, waitTime' \in {"zero", "running", "expired"},
         drain' \in [run : BOOLEAN, any : BOOLEAN, save : BOOLEAN, ack : BOOLEAN],
         NEW S \in SUBSET Nat, NEW l \in Params, last' = l,
         Known(l),
         \A i \in Needed(l) : i > base' => i \in Handed \cup S \cup apart',
         storageQueue' \in {storageQueue \o Put(S), storageQueue \o Put(S) \o Save(l)},
         acked' \in {acked, Larger(acked, l.qts)},
         difference' \in {difference, NoDifference, Asked(l)},
         stateRpc' \in {stateRpc, NoState, [stateRpc EXCEPT !.phase = "asked"]}
  PROVE  Inductive'
  <1>1. /\ TypeOK /\ LogOrdered /\ CountersKnown /\ NoGap /\ CrashSafe
        /\ AckedIsHanded /\ SavesCovered /\ DifferenceCovered /\ StateFresh
    BY DEF Inductive
  <1>2. /\ storageQueue \in Seq(TaskSet) /\ base \in Nat /\ base' \in Nat /\ acked \in Nat
        /\ DOMAIN log = 1 .. Len(log) /\ Len(log) \in Nat
        /\ PtsAt(Len(log)) \in Nat /\ QtsAt(Len(log)) \in Nat
        /\ \A i \in DOMAIN log : log[i] \in [kind : Kinds, pts : Nat, qts : Nat]
    BY <1>1, LogTyped DEF TypeOK
  <1>3. /\ storageQueue' \in Seq(TaskSet)
        /\ PutsOf(storageQueue') = PutsOf(storageQueue) \cup S
        /\ \A k \in DOMAIN storageQueue' :
             \/ /\ k \in DOMAIN storageQueue /\ storageQueue'[k] = storageQueue[k]
                /\ PutsBefore(storageQueue', k) = PutsBefore(storageQueue, k)
             \/ storageQueue'[k].op = "put" /\ storageQueue'[k].params = NoParams
             \/ /\ storageQueue'[k].params = l
                /\ PutsBefore(storageQueue', k) = PutsOf(storageQueue) \cup S
    <2>1. storageQueue \in Seq(TaskSet)
      BY <1>2
    <2>2. storageQueue' = storageQueue \o Put(S) \/ storageQueue' = storageQueue \o Put(S) \o Save(l)
      OBVIOUS
    <2>3. PutThenSaved(storageQueue, S, l, storageQueue')
      BY <2>1, <2>2, PostPutSave
    <2>. QED  BY <2>3 DEF PutThenSaved
  <1>0. TypeOK'
    <2>1. Packages' = Packages
      BY DEF Packages, CanCarry
    <2>2. difference' \in [phase : {"none", "asked", "answered", "hop", "ready"},
                          pts : Nat, qts : Nat, answer : AnswerSet]
      <3>1. NoDifference \in [phase : {"none", "asked", "answered", "hop", "ready"},
                              pts : Nat, qts : Nat, answer : AnswerSet]
        BY DEF NoDifference, NoAnswer, NoParams, AnswerSet, Params
      <3>2. Asked(l) \in [phase : {"none", "asked", "answered", "hop", "ready"},
                          pts : Nat, qts : Nat, answer : AnswerSet]
        BY <3>1 DEF Asked, Params
      <3>. QED  BY <1>1, <3>1, <3>2 DEF TypeOK
    <2>3. stateRpc' \in [phase : {"none", "asked", "answered"}, params : Params]
      <3>1. NoState \in [phase : {"none", "asked", "answered"}, params : Params]
        BY DEF NoState, NoParams, Params
      <3>2. [stateRpc EXCEPT !.phase = "asked"]
              \in [phase : {"none", "asked", "answered"}, params : Params]
        BY <1>1 DEF TypeOK
      <3>. QED  BY <1>1, <3>1, <3>2 DEF TypeOK
    <2>4. acked' \in Nat
      BY <1>2 DEF Larger, Params
    <2>. QED  BY <1>1, <1>2, <1>3, <2>1, <2>2, <2>3, <2>4 DEF TypeOK, SecretsKept
  <1>4. Handed' = Handed \cup S \cup apart'
    BY <1>3 DEF Handed, SecretsKept
  <1>5. \A m : Needed(m)' = {i \in Needed(m) : i > base'}
    BY <1>2 DEF Needed, Reached
  <1>6. Needed(last)' = {i \in Needed(l) : i > base'}
    BY <1>2 DEF Needed, Reached
  <1>7. LogOrdered'
    BY <1>1 DEF LogOrdered
  <1>8. Known(NoParams)
    BY <1>2 DEF Known, NoParams
  <1>9. CountersKnown'
    <2>1. /\ Known(difference'.answer.params)
          /\ difference'.pts <= PtsAt(Len(log)) /\ difference'.qts <= QtsAt(Len(log))
      <3>1. CASE difference' = difference
        BY <1>1, <3>1 DEF CountersKnown
      <3>2. CASE difference' = NoDifference
        BY <1>2, <1>8, <3>2 DEF NoDifference, NoAnswer
      <3>3. CASE difference' = Asked(l)
        BY <1>2, <1>8, <3>3 DEF Asked, NoDifference, NoAnswer, Known
      <3>. QED  BY <3>1, <3>2, <3>3
    <2>2. Known(stateRpc'.params)
      <3>1. CASE stateRpc' \in {stateRpc, NoState}
        BY <1>1, <1>8, <3>1 DEF CountersKnown, NoState
      <3>2. CASE stateRpc' = [stateRpc EXCEPT !.phase = "asked"]
        BY <1>1, <3>2 DEF CountersKnown, TypeOK
      <3>. QED  BY <3>1, <3>2
    <2>4. acked' <= QtsAt(Len(log))
      BY <1>1, <1>2 DEF CountersKnown, Known, Larger
    <2>5. \A k \in DOMAIN storageQueue' : Known(storageQueue'[k].params)
      BY <1>1, <1>3, <1>8 DEF CountersKnown
    <2>6. \A m : Known(m)' = Known(m)
      BY DEF Known, PtsAt, QtsAt
    <2>7. Known(last)' /\ Known(params)'
      BY <1>1, <1>2 DEF CountersKnown, Known, PtsAt, QtsAt
    <2>. QED  BY <2>1, <2>2, <2>4, <2>5, <2>6, <2>7 DEF CountersKnown, Known, PtsAt, QtsAt
  <1>10. NoGap'
    BY <1>4, <1>6 DEF NoGap
  <1>11. CrashSafe'
    BY <1>1, <1>2 DEF CrashSafe, Needed, Reached, SecretsKept
  <1>12. AckedIsHanded'
    <2>. SUFFICES ASSUME NEW i \in Acknowledged'  PROVE i \in Handed \cup S \cup apart'
      BY <1>4 DEF AckedIsHanded
    <2>1. /\ i \in DOMAIN log /\ log[i].kind = "enc" /\ log[i].qts <= acked'
          /\ i > base' /\ i > base /\ i \notin lost
      BY <1>2 DEF Acknowledged
    <2>2. CASE log[i].qts <= acked
      BY <1>1, <2>1, <2>2 DEF AckedIsHanded, Acknowledged
    <2>3. CASE log[i].qts <= l.qts
      BY <2>1, <2>3 DEF Needed, Reached
    <2>. QED  BY <2>1, <2>2, <2>3 DEF Larger
  <1>13. SavesCovered'
    <2>. SUFFICES ASSUME NEW k \in DOMAIN storageQueue', storageQueue'[k].op = "save"
                  PROVE  Needed(storageQueue[k].params)' \subseteq
                            stored \cup apart' \cup PutsBefore(storageQueue', k)
      BY DEF SavesCovered
    <2>1. Needed(storageQueue[k].params)' = {i \in Needed(storageQueue'[k].params) : i > base'}
      BY <1>2 DEF Needed, Reached
    <2>2. CASE /\ k \in DOMAIN storageQueue /\ storageQueue'[k] = storageQueue[k]
               /\ PutsBefore(storageQueue', k) = PutsBefore(storageQueue, k)
      BY <1>1, <2>1, <2>2 DEF SavesCovered, SecretsKept
    <2>3. CASE /\ storageQueue'[k].params = l
               /\ PutsBefore(storageQueue', k) = PutsOf(storageQueue) \cup S
      BY <2>1, <2>3 DEF Handed, SecretsKept
    <2>. QED  BY <1>3, <2>2, <2>3
  <1>16. Needed(NoParams) = {}
    BY <1>1, NothingNeeded
  <1>14. DifferenceCovered'
    <2>1. CASE difference' = difference
      BY <1>1, <1>2, <1>4, <2>1 DEF DifferenceCovered, Request, Needed, Reached
    <2>2. CASE difference' = NoDifference
      <3>1. /\ difference'.answer.params = NoParams /\ difference'.answer.kind = "empty"
            /\ difference'.answer.events = {} /\ difference'.pts = 0 /\ difference'.qts = 0
        BY <2>2 DEF NoDifference, NoAnswer
      <3>2. Needed(difference.answer.params)' = {}
        BY <1>2, <1>16, <3>1 DEF Needed, Reached, NoParams
      <3>3. Needed(Request)' = {}
        BY <1>2, <1>16, <3>1 DEF Needed, Reached, NoParams, Request
      <3>. QED  BY <3>1, <3>2, <3>3 DEF DifferenceCovered
    <2>3. CASE difference' = Asked(l)
      <3>1. /\ difference'.answer.params = NoParams /\ difference'.answer.kind = "empty"
            /\ difference'.answer.events = {}
            /\ difference'.pts = l.pts /\ difference'.qts = l.qts
        BY <2>3 DEF Asked, NoDifference, NoAnswer
      <3>2. Needed(difference.answer.params)' = {}
        BY <1>2, <1>16, <3>1 DEF Needed, Reached, NoParams
      <3>3. Needed(Request)' \subseteq Needed(last)'
        BY <1>2, <3>1 DEF Needed, Reached, Request
      <3>. QED  BY <1>10, <3>1, <3>2, <3>3 DEF DifferenceCovered, NoGap
    <2>. QED  BY <2>1, <2>2, <2>3
  <1>15. StateFresh'
    <2>1. CASE stateRpc' = stateRpc
      BY <1>1, <2>1 DEF StateFresh, Reached
    <2>2. CASE stateRpc' = NoState
      BY <2>2 DEF StateFresh, NoState
    <2>3. CASE stateRpc' = [stateRpc EXCEPT !.phase = "asked"]
      BY <1>1, <2>3 DEF StateFresh, TypeOK
    <2>. QED  BY <2>1, <2>2, <2>3
  <1>. QED  BY <1>0, <1>7, <1>9, <1>10, <1>11, <1>12, <1>13, <1>14, <1>15 DEF Inductive

(* What an action that is not a handler's end leaves of Conclude: the same *)
(* lemma when nothing is posted, put or asked.                             *)
LEMMA NoPost == ASSUME TypeOK PROVE storageQueue = storageQueue \o Put({})
  BY DEF TypeOK, Put

(* What every handler finds when it starts.                                *)
LEMMA StartFacts ==
  ASSUME Inductive
  PROVE  /\ TypeOK /\ last \in Params /\ Known(last) /\ updatesQueue \subseteq Packages
         /\ waitTime \in {"zero", "running", "expired"}
         /\ drain \in [run : BOOLEAN, any : BOOLEAN, save : BOOLEAN, ack : BOOLEAN]
         /\ base \in Nat /\ errors \in Nat /\ storageQueue = storageQueue \o Put({})
         /\ Needed(last) \subseteq Handed /\ {} \in SUBSET Nat
         /\ base <= base
         /\ UNCHANGED secrets => SecretsKept
         /\ UNCHANGED <<held, apart>> => SecretsKept
  <1>1. held \subseteq apart /\ apart \subseteq Nat
    BY DEF Inductive, TypeOK
  <1>2. /\ UNCHANGED secrets => SecretsKept
        /\ UNCHANGED <<held, apart>> => SecretsKept
    BY <1>1 DEF SecretsKept, secrets
  <1>. QED  BY <1>2, NoPost DEF Inductive, TypeOK, CountersKnown, NoGap

(* getDifference, or no request, leaves each request as it is, ends it, or *)
(* asks it anew.                                                           *)
LEMMA Asks ==
  ASSUME NEW l
  PROVE  /\ GetDifference(l) => /\ difference' \in {difference, NoDifference, Asked(l)}
                                /\ stateRpc' \in {stateRpc, NoState, [stateRpc EXCEPT !.phase = "asked"]}
         /\ NoRequest => /\ difference' \in {difference, NoDifference, Asked(l)}
                         /\ stateRpc' \in {stateRpc, NoState, [stateRpc EXCEPT !.phase = "asked"]}
  BY DEF GetDifference, LoadCurrentState, NoRequest

(* The end of processUpdates keeps the invariant if the new counters need  *)
(* only what is stored, handed over or about to be posted.                 *)
LEMMA ConcludeKeeps ==
  ASSUME Inductive,
         NEW l \in Params, NEW S \in SUBSET Nat, NEW queue \in SUBSET Packages,
         NEW need \in BOOLEAN, NEW ack \in BOOLEAN,
         Known(l), Needed(l) \subseteq Handed \cup S \cup apart', SecretsKept,
         waitTime' \in {"zero", "running", "expired"},
         Conclude(l, S, queue, need, ack)
  PROVE  Inductive'
  <1>1. /\ last' = l /\ updatesQueue' = queue
        /\ UNCHANGED <<log, stored, params, lastSaved, base, lost, crashes, errors>>
    BY DEF Conclude, disk
  <1>2. storageQueue' \in {storageQueue \o Put(S), storageQueue \o Put(S) \o Save(l)}
    BY DEF Conclude
  <1>3. acked' \in {acked, Larger(acked, l.qts)}
    BY DEF Conclude, Acknowledge
  <1>4. /\ difference' \in {difference, NoDifference, Asked(l)}
        /\ stateRpc' \in {stateRpc, NoState, [stateRpc EXCEPT !.phase = "asked"]}
    BY Asks DEF Conclude
  <1>5. drain' \in [run : BOOLEAN, any : BOOLEAN, save : BOOLEAN, ack : BOOLEAN]
    <2>1. CASE ~need /\ queue # {}
      <3>1. drain' = [run |-> TRUE, any |-> FALSE, save |-> TRUE, ack |-> ack]
        BY <2>1 DEF Conclude
      <3>. QED  BY <3>1
    <2>2. CASE ~(~need /\ queue # {})
      <3>1. drain' = drain
        BY <2>2 DEF Conclude
      <3>. QED  BY <3>1, StartFacts
    <2>. QED  BY <2>1, <2>2
  <1>. QED  BY <1>1, <1>2, <1>3, <1>4, <1>5, StartFacts, HandlerKeeps

-----------------------------------------------------------------------------
(* The handlers of updates.                                                *)

(* An update from the network keeps the invariant, in sequence, repeated,  *)
(* out of sequence or naming something unknown.                            *)
LEMMA ReceiveKeeps ==
  ASSUME Inductive, NEW p \in Packages,
         \/ ReceiveInSequence(p) \/ ReceiveMissingData(p)
         \/ ReceiveRepeated(p) \/ ReceiveOutOfSequence(p)
  PROVE  Inductive'
  <1>1. CASE ReceiveInSequence(p)
    <2>1. InSequence(p) /\ waitTime' = waitTime
      BY <1>1 DEF ReceiveInSequence
    <2>0. PICK S \in Storable(Events(p)) :
            /\ Decrypt(Events(p), S)
            /\ Conclude(Advanced(p), S, updatesQueue, FALSE, AcksQueue(p))
      BY <1>1 DEF ReceiveInSequence
    <2>2. AcksQueue(p) \in BOOLEAN
      BY DEF AcksQueue
    <2>3. /\ Advanced(p) \in Params /\ Known(Advanced(p)) /\ Events(p) \in SUBSET Nat
          /\ Needed(Advanced(p)) \subseteq Handed \cup Events(p)
      BY <2>1, AdvancedFacts
    <2>4. updatesQueue \in SUBSET Packages /\ waitTime' \in {"zero", "running", "expired"}
          /\ FALSE \in BOOLEAN
      BY <2>1, StartFacts
    <2>5. S \in SUBSET Nat /\ Events(p) \subseteq S \cup apart' /\ SecretsKept
      BY <2>0, <2>3, DecryptFacts
    <2>6. Needed(Advanced(p)) \subseteq Handed \cup S \cup apart'
      BY <2>3, <2>5
    <2>. QED  BY <2>0, <2>2, <2>3, <2>4, <2>5, <2>6, ConcludeKeeps
  <1>2. CASE ReceiveMissingData(p)
    BY <1>2, StartFacts, GiveUpFacts, ConcludeKeeps DEF ReceiveMissingData
  <1>3. CASE ReceiveRepeated(p)
    BY <1>3, StartFacts, ConcludeKeeps DEF ReceiveRepeated, secrets
  <1>4. CASE ReceiveOutOfSequence(p)
    <2>0. SecretsKept
      BY <1>4, StartFacts DEF ReceiveOutOfSequence
    <2>1. CASE StartWaiting /\ Conclude(last, {}, updatesQueue \cup {p}, FALSE, FALSE)
      BY <2>0, <2>1, StartFacts, ConcludeKeeps DEF StartWaiting
    <2>2. CASE Conclude(last, {}, updatesQueue, TRUE, FALSE) /\ UNCHANGED waitTime
      BY <2>0, <2>2, StartFacts, ConcludeKeeps
    <2>. QED  BY <1>4, <2>1, <2>2 DEF ReceiveOutOfSequence
  <1>. QED  BY <1>1, <1>2, <1>3, <1>4

(* Updates without a number keep the invariant.                            *)
LEMMA ReceiveOtherKeeps ==
  ASSUME Inductive, ReceiveTooLong \/ ReceiveUnnumbered
  PROVE  Inductive'
  <1>1. CASE ReceiveTooLong
    BY <1>1, StartFacts, ConcludeKeeps DEF ReceiveTooLong, secrets
  <1>2. CASE ReceiveUnnumbered
    <2>1. PICK dated \in {last.dated, TRUE} :
             Conclude([last EXCEPT !.dated = dated], {}, updatesQueue, FALSE, FALSE)
      BY <1>2 DEF ReceiveUnnumbered
    <2>. DEFINE l == [last EXCEPT !.dated = dated]
    <2>2. l \in Params /\ l.seq = last.seq /\ l.pts = last.pts /\ l.qts = last.qts
      BY StartFacts DEF Params
    <2>3. Conclude(l, {}, updatesQueue, FALSE, FALSE) /\ waitTime' = waitTime /\ SecretsKept
      BY <1>2, <2>1, StartFacts DEF ReceiveUnnumbered, secrets
    <2>. HIDE DEF l
    <2>4. Known(l) /\ Needed(l) \subseteq Handed \cup {}
      BY <2>2, StartFacts DEF Known, Needed, Reached
    <2>. QED  BY <2>2, <2>3, <2>4, StartFacts, ConcludeKeeps
  <1>. QED  BY <1>1, <1>2

(* The answer to the client's own request moves pts past nothing: no other *)
(* event is between the last one and its own.                              *)
LEMMA OwnAnswerKeeps ==
  ASSUME Inductive, NEW p \in Packages, ReceiveOwnAnswer(p)
  PROVE  Inductive'
  <1>1. /\ p.type = "userAction"
        /\ UNCHANGED <<log, acked, drain, stored, params, lastSaved, base, held, apart, lost, crashes, errors>>
    BY DEF ReceiveOwnAnswer, server, disk, secrets
  <1>2. CASE last.seq + 1 = p.hi
    <2>1. PICK dated \in {last.dated, TRUE} :
            last' = [last EXCEPT !.seq = p.hi, !.pts = log[p.hi].pts, !.dated = dated]
      BY <1>2 DEF ReceiveOwnAnswer
    <2>. DEFINE l == [last EXCEPT !.seq = p.hi, !.pts = log[p.hi].pts, !.dated = dated]
    <2>2. storageQueue' = storageQueue \o Save(l) /\ NoRequest
          /\ UNCHANGED <<updatesQueue, waitTime>>
      BY <1>2, <2>1 DEF ReceiveOwnAnswer
    <2>3. /\ DOMAIN log = 1 .. Len(log) /\ Len(log) \in Nat
          /\ \A i \in DOMAIN log : log[i] \in [kind : Kinds, pts : Nat, qts : Nat]
      BY LogTyped DEF Inductive
    <2>4. /\ p.lo = p.hi /\ log[p.hi].kind = "own" /\ p.hi \in DOMAIN log
          /\ log[p.hi].pts \in Nat
      BY <1>1, <2>3, PackageFacts
    <2>5. l \in Params /\ l.seq = p.hi /\ l.pts = log[p.hi].pts /\ l.qts = last.qts
      <3>0. p.hi \in Nat /\ last \in Params
        BY <2>3, <2>4, StartFacts
      <3>1. p.hi \in Nat /\ last \in Params /\ dated \in BOOLEAN
        BY <3>0 DEF Params
      <3>2. [last EXCEPT !.seq = p.hi] \in Params
        BY <3>1 DEF Params
      <3>3. [last EXCEPT !.seq = p.hi, !.pts = log[p.hi].pts] \in Params
        BY <2>4, <3>2 DEF Params
      <3>4. l \in Params
        BY <3>1, <3>3 DEF Params
      <3>. QED  BY <3>1, <3>4 DEF Params
    <2>6. last' = l
      BY <2>1
    <2>. HIDE DEF l
    <2>7. Known(l)
      BY <2>3, <2>4, <2>5, StartFacts, LogOrder DEF Known, Inductive
    <2>8. ASSUME NEW i \in Needed(l)
          PROVE  i \in Handed \cup {}
      <3>1. i \in DOMAIN log /\ i > base /\ i \notin lost /\ Reached(l, i)
        BY <2>8 DEF Needed
      <3>2. CASE log[i].kind # "own" /\ i <= p.hi
        <4>1. i <= last.seq
          BY <1>2, <2>3, <2>4, <3>1, <3>2, StartFacts DEF Params
        <4>. QED  BY <3>1, <3>2, <4>1, StartFacts DEF Needed, Reached
      <3>3. CASE log[i].kind = "msg" /\ log[i].pts <= log[p.hi].pts
        BY <2>4, <3>1, <3>2, <3>3, LogOrder DEF Inductive
      <3>4. CASE log[i].kind = "enc" /\ log[i].qts <= last.qts
        BY <3>1, <3>4, StartFacts DEF Needed, Reached
      <3>. QED  BY <2>5, <3>1, <3>2, <3>3, <3>4 DEF Reached
    <2>9. storageQueue' = storageQueue \o Put({}) \o Save(l)
      BY <2>2, StartFacts
    <2>10. /\ difference' \in {difference, NoDifference, Asked(l)}
           /\ stateRpc' \in {stateRpc, NoState, [stateRpc EXCEPT !.phase = "asked"]}
      BY <2>2, Asks
    <2>. QED  BY <1>1, <2>2, <2>5, <2>6, <2>7, <2>8, <2>9, <2>10, StartFacts, HandlerKeeps
  <1>3. CASE last.seq + 1 # p.hi
    <2>1. /\ last' = last /\ storageQueue' = storageQueue
          /\ \/ NoRequest /\ StartWaiting /\ updatesQueue' = updatesQueue \cup {p}
             \/ GetDifference(last) /\ UNCHANGED <<updatesQueue, waitTime>>
      BY <1>3 DEF ReceiveOwnAnswer
    <2>2. /\ difference' \in {difference, NoDifference, Asked(last)}
          /\ stateRpc' \in {stateRpc, NoState, [stateRpc EXCEPT !.phase = "asked"]}
      BY <2>1, Asks
    <2>3. waitTime' \in {"zero", "running", "expired"} /\ updatesQueue' \subseteq Packages
      BY <2>1, StartFacts DEF StartWaiting
    <2>. QED  BY <1>1, <2>1, <2>2, <2>3, StartFacts, HandlerKeeps
  <1>. QED  BY <1>2, <1>3

-----------------------------------------------------------------------------
(* The loop of processUpdatesQueue, the timer and the requests.            *)

(* When the loop returns to its caller it posts at most a save, and        *)
(* acknowledges at most the counters.                                      *)
LEMMA ReturnFacts ==
  ASSUME Inductive, Return
  PROVE  /\ storageQueue' \in {storageQueue \o Put({}), storageQueue \o Put({}) \o Save(last)}
         /\ acked' \in {acked, Larger(acked, last.qts)}
         /\ drain' \in [run : BOOLEAN, any : BOOLEAN, save : BOOLEAN, ack : BOOLEAN]
  <1>1. storageQueue \o <<>> = storageQueue
    BY DEF Inductive, TypeOK
  <1>. QED  BY <1>1, StartFacts DEF Return, Acknowledge, NoDrain

(* The rounds of processUpdatesQueue keep the invariant.                   *)
LEMMA DrainKeeps ==
  ASSUME Inductive, DrainStep
  PROVE  Inductive'
  <1>1. ASSUME NEW p \in updatesQueue, DrainApply(p)
        PROVE  Inductive'
    <2>1. /\ p \in Packages
          /\ updatesQueue' \subseteq Packages /\ waitTime' = waitTime
          /\ drain' = [drain EXCEPT !.any = TRUE]
          /\ UNCHANGED <<log, difference, stateRpc, stored, params, lastSaved, base, lost,
                         crashes, errors>>
      BY <1>1, StartFacts DEF DrainApply, disk
    <2>2. drain' \in [run : BOOLEAN, any : BOOLEAN, save : BOOLEAN, ack : BOOLEAN]
      BY <2>1, StartFacts
    <2>3. CASE /\ InSequence(p) /\ last' = Advanced(p)
               /\ \E S \in Storable(Events(p)) :
                    /\ Decrypt(Events(p), S)
                    /\ storageQueue' = storageQueue \o Put(S) \o Save(Advanced(p))
               /\ Acknowledge(AcksQueue(p), Advanced(p))
      <3>0. PICK S \in Storable(Events(p)) :
              /\ Decrypt(Events(p), S)
              /\ storageQueue' = storageQueue \o Put(S) \o Save(Advanced(p))
        BY <2>3
      <3>1. acked' \in {acked, Larger(acked, Advanced(p).qts)}
        BY <2>3 DEF Acknowledge
      <3>2. /\ Advanced(p) \in Params /\ Known(Advanced(p)) /\ Events(p) \in SUBSET Nat
            /\ Needed(Advanced(p)) \subseteq Handed \cup Events(p)
        BY <2>1, <2>3, AdvancedFacts
      <3>3. S \in SUBSET Nat /\ Events(p) \subseteq S \cup apart' /\ SecretsKept
        BY <3>0, <3>2, DecryptFacts
      <3>4. Needed(Advanced(p)) \subseteq Handed \cup S \cup apart'
        BY <3>2, <3>3
      <3>. QED
        BY <2>1, <2>2, <2>3, <3>0, <3>1, <3>2, <3>3, <3>4, StartFacts, HandlerKeeps
    <2>4. CASE /\ storageQueue' = storageQueue \o Save(last) /\ UNCHANGED <<last, acked>>
               /\ GiveUp(p) \/ UNCHANGED secrets
      <3>1. storageQueue' = storageQueue \o Put({}) \o Save(last)
        BY <2>4, StartFacts
      <3>2. SecretsKept
        BY <2>1, <2>4, StartFacts, GiveUpFacts
      <3>. QED  BY <2>1, <2>2, <2>4, <3>1, <3>2, StartFacts, HandlerKeeps
    <2>. QED  BY <1>1, <2>3, <2>4 DEF DrainApply
  <1>2. ASSUME NEW p \in updatesQueue, DrainDrop(p)
        PROVE  Inductive'
    <2>1. /\ updatesQueue' \subseteq Packages
          /\ UNCHANGED <<log, acked, last, waitTime, difference, stateRpc, drain, storageQueue,
                         stored, params, lastSaved, base, held, apart, lost, crashes, errors>>
      BY <1>2, StartFacts DEF DrainDrop, disk, server, secrets
    <2>. QED  BY <2>1, StartFacts, HandlerKeeps
  <1>3. ASSUME NEW p \in updatesQueue, DrainHole(p)
        PROVE  Inductive'
    <2>1. /\ Return /\ updatesQueue' \subseteq Packages
          /\ waitTime' \in {"zero", "running", "expired"}
          /\ UNCHANGED <<log, last, stored, params, lastSaved, base, held, apart, lost, crashes, errors>>
      BY <1>3, StartFacts DEF DrainHole, disk, secrets
    <2>2. NoRequest \/ GetDifference(last)
      BY <1>3 DEF DrainHole
    <2>3. /\ difference' \in {difference, NoDifference, Asked(last)}
          /\ stateRpc' \in {stateRpc, NoState, [stateRpc EXCEPT !.phase = "asked"]}
      BY <2>2, Asks
    <2>. QED  BY <2>1, <2>3, StartFacts, ReturnFacts, HandlerKeeps
  <1>4. ASSUME DrainEnd
        PROVE  Inductive'
    <2>1. /\ Return /\ updatesQueue' \subseteq Packages
          /\ waitTime' \in {"zero", "running", "expired"}
          /\ UNCHANGED <<log, last, difference, stateRpc, stored, params, lastSaved,
                         base, held, apart, lost, crashes, errors>>
      BY <1>4, StartFacts DEF DrainEnd, disk, secrets
    <2>. QED  BY <2>1, StartFacts, ReturnFacts, HandlerKeeps
  <1>. QED  BY <1>1, <1>2, <1>3, <1>4 DEF DrainStep

(* The timer, a reconnection and the errors keep the invariant: they store *)
(* nothing and move no counter.                                            *)
LEMMA TimerKeeps ==
  ASSUME Inductive, Expire \/ UpdateTimer \/ Reconnect \/ DifferenceFails \/ StateFails
  PROVE  Inductive'
  <1>1. /\ UNCHANGED <<log, acked, last, storageQueue, stored, params, lastSaved, base, held, apart, lost, crashes>>
        /\ updatesQueue' \subseteq Packages /\ waitTime' \in {"zero", "running", "expired"}
    BY StartFacts
       DEF Expire, UpdateTimer, Reconnect, DifferenceFails, StateFails, server, disk, secrets
  <1>2. /\ difference' \in {difference, NoDifference, Asked(last)}
        /\ stateRpc' \in {stateRpc, NoState, [stateRpc EXCEPT !.phase = "asked"]}
    BY Asks DEF Expire, UpdateTimer, Reconnect, DifferenceFails, StateFails
  <1>3. drain' \in [run : BOOLEAN, any : BOOLEAN, save : BOOLEAN, ack : BOOLEAN]
    <2>1. drain' = drain \/ drain' = [NoDrain EXCEPT !.run = TRUE]
      BY DEF Expire, UpdateTimer, Reconnect, DifferenceFails, StateFails
    <2>. QED  BY <2>1, StartFacts DEF NoDrain
  <1>4. errors' \in Nat
    BY StartFacts DEF Expire, UpdateTimer, Reconnect, DifferenceFails, StateFails
  <1>. QED  BY <1>1, <1>2, <1>3, <1>4, StartFacts, HandlerKeeps

(* Entering processUpdatesQueue posts at most a save.                      *)
LEMMA DrainStarts ==
  ASSUME Inductive, NEW l, StartDrain(l)
  PROVE  /\ storageQueue' \in {storageQueue \o Put({}), storageQueue \o Put({}) \o Save(l)}
         /\ drain' \in [run : BOOLEAN, any : BOOLEAN, save : BOOLEAN, ack : BOOLEAN]
  <1>1. CASE updatesQueue # {}
    <2>1. /\ storageQueue' = storageQueue
          /\ drain' = [run |-> TRUE, any |-> FALSE, save |-> TRUE, ack |-> FALSE]
      BY <1>1 DEF StartDrain
    <2>. QED  BY <2>1, StartFacts
  <1>2. CASE updatesQueue = {}
    <2>1. storageQueue' = storageQueue \o Save(l) /\ drain' = drain
      BY <1>2 DEF StartDrain
    <2>. QED  BY <2>1, StartFacts
  <1>. QED  BY <1>1, <1>2

(* What the answer to getDifference brings covers the counters it sets.    *)
LEMMA ApplyDifferenceKeeps ==
  ASSUME Inductive, ApplyDifference
  PROVE  Inductive'
  <1>. DEFINE res == difference.answer.params
              E   == difference.answer.events
  <1>0. PICK S \in Storable(E) :
          /\ Decrypt(E, S)
          /\ \/ /\ last' = res /\ difference' = NoDifference
                /\ IF updatesQueue # {}
                   THEN /\ drain' = [run |-> TRUE, any |-> FALSE, save |-> TRUE, ack |-> FALSE]
                        /\ storageQueue' = storageQueue \o Put(S)
                   ELSE /\ storageQueue' = storageQueue \o Put(S) \o Save(res)
                        /\ UNCHANGED drain
             \/ /\ last' = [res EXCEPT !.seq = last.seq] /\ difference' = Asked(res)
                /\ storageQueue' = storageQueue \o Put(S) \o Save(last') /\ UNCHANGED drain
             \/ /\ difference.answer.kind = "empty"
                /\ last' = [last EXCEPT !.seq = res.seq, !.dated = TRUE]
                /\ difference' = NoDifference /\ StartDrain(last')
    BY DEF ApplyDifference
  <1>1. /\ difference.phase = "ready"
        /\ UNCHANGED <<log, acked, updatesQueue, waitTime, stateRpc, stored, params, lastSaved,
                       base, lost, crashes, errors>>
    BY DEF ApplyDifference, server, disk
  <1>7. res \in Params /\ E \in SUBSET Nat
    BY DEF Inductive, TypeOK, AnswerSet
  <1>2. /\ res \in Params /\ S \in SUBSET Nat
        /\ E \subseteq S \cup apart' /\ SecretsKept
    <2>. HIDE DEF E, res
    <2>. QED  BY <1>0, <1>7, DecryptFacts
  <1>3. Known(res) /\ Needed(res) \subseteq Handed \cup S \cup apart'
    <2>1. Known(res) /\ Needed(res) \subseteq Handed \cup E
      BY <1>1 DEF Inductive, CountersKnown, DifferenceCovered
    <2>. HIDE DEF E, res
    <2>. QED  BY <1>2, <2>1
  <1>4. CASE /\ last' = res /\ difference' = NoDifference
             /\ IF updatesQueue # {}
                THEN /\ drain' = [run |-> TRUE, any |-> FALSE, save |-> TRUE, ack |-> FALSE]
                     /\ storageQueue' = storageQueue \o Put(S)
                ELSE /\ storageQueue' = storageQueue \o Put(S) \o Save(res)
                     /\ UNCHANGED drain
    <2>1. storageQueue' \in {storageQueue \o Put(S), storageQueue \o Put(S) \o Save(res)}
      BY <1>4
    <2>2. drain' \in [run : BOOLEAN, any : BOOLEAN, save : BOOLEAN, ack : BOOLEAN]
      <3>1. CASE updatesQueue # {}
        <4>1. drain' = [run |-> TRUE, any |-> FALSE, save |-> TRUE, ack |-> FALSE]
          BY <1>4, <3>1
        <4>. QED  BY <4>1
      <3>2. CASE updatesQueue = {}
        <4>1. drain' = drain
          BY <1>4, <3>2
        <4>. QED  BY <4>1, StartFacts
      <3>. QED  BY <3>1, <3>2
    <2>3. last' = res /\ difference' = NoDifference
      BY <1>4
    <2>. HIDE DEF res, E
    <2>. QED  BY <1>1, <1>2, <1>3, <2>1, <2>2, <2>3, StartFacts, HandlerKeeps
  <1>5. CASE /\ last' = [res EXCEPT !.seq = last.seq] /\ difference' = Asked(res)
             /\ storageQueue' = storageQueue \o Put(S) \o Save(last') /\ UNCHANGED drain
    <2>. DEFINE l == [res EXCEPT !.seq = last.seq]
    <2>1. l \in Params /\ l.seq = last.seq /\ l.pts = res.pts /\ l.qts = res.qts
      BY <1>2, StartFacts DEF Params
    <2>2. /\ last' = l /\ storageQueue' = storageQueue \o Put(S) \o Save(l) /\ drain' = drain
          /\ difference' = Asked(l)
      BY <1>5, <2>1 DEF Asked
    <2>. HIDE DEF l
    <2>3. Known(l)
      BY <1>3, <2>1, StartFacts DEF Known
    <2>4. Needed(l) \subseteq Handed \cup S \cup apart'
      BY <1>3, <2>1, StartFacts DEF Needed, Reached
    <2>. HIDE DEF res, E
    <2>. QED  BY <1>1, <1>2, <2>1, <2>2, <2>3, <2>4, StartFacts, HandlerKeeps
  <1>6. CASE /\ difference.answer.kind = "empty"
             /\ last' = [last EXCEPT !.seq = res.seq, !.dated = TRUE]
             /\ difference' = NoDifference /\ StartDrain(last')
    <2>. DEFINE l == [last EXCEPT !.seq = res.seq, !.dated = TRUE]
    <2>1. l \in Params /\ l.seq = res.seq /\ l.pts = last.pts /\ l.qts = last.qts
      BY <1>2, StartFacts DEF Params
    <2>2. last' = l /\ StartDrain(l)
      BY <1>6
    <2>. HIDE DEF l
    <2>3. E = {}
      BY <1>6 DEF Inductive, DifferenceCovered
    <2>4. Known(l)
      BY <1>3, <2>1, StartFacts DEF Known
    <2>5. Needed(l) \subseteq Handed \cup {}
      <3>1. Needed(res) \subseteq Handed
        BY <1>1, <2>3 DEF Inductive, DifferenceCovered
      <3>. QED  BY <2>1, <3>1, StartFacts DEF Needed, Reached
    <2>. QED  BY <1>1, <1>2, <1>6, <2>1, <2>2, <2>4, <2>5, DrainStarts, StartFacts, HandlerKeeps
  <1>. QED  BY <1>0, <1>4, <1>5, <1>6

(* After loadCurrentState nothing is needed: what is not before the base   *)
(* is past the counters.                                                   *)
LEMMA ReceiveStateKeeps ==
  ASSUME Inductive, ReceiveState
  PROVE  Inductive'
  <1>. DEFINE res == stateRpc.params
  <1>1. /\ stateRpc.phase = "answered" /\ stateRpc' = NoState /\ StartDrain(last')
        /\ waitTime' \in {"zero", "running", "expired"}
        /\ UNCHANGED <<log, acked, updatesQueue, difference, stored, params, lastSaved,
                       held, apart, lost, crashes, errors>>
    BY StartFacts DEF ReceiveState, server, disk, secrets
  <1>2. /\ res \in Params /\ Known(res)
        /\ \A i \in DOMAIN log : i > res.seq => ~Reached(res, i)
        /\ DOMAIN log = 1 .. Len(log) /\ Len(log) \in Nat
    BY <1>1, LogTyped DEF Inductive, TypeOK, CountersKnown, StateFresh
  <1>3. PICK n \in Nat : /\ last' = [res EXCEPT !.seq = n] /\ n <= Len(log)
                         /\ base' = Larger(base, Larger(res.seq, n))
    <2>1. CASE updatesQueue # {}
      <3>1. PICK p \in updatesQueue :
              /\ last' = [res EXCEPT !.seq = p.lo]
              /\ base' = Larger(base, Larger(res.seq, p.lo))
        BY <2>1 DEF ReceiveState
      <3>2. p.lo \in DOMAIN log
        BY PackageFacts, StartFacts
      <3>. QED  BY <1>2, <3>1, <3>2
    <2>2. CASE updatesQueue = {}
      <3>1. last' = res /\ base' = Larger(base, res.seq)
        BY <2>2 DEF ReceiveState
      <3>2. res = [res EXCEPT !.seq = res.seq] /\ res.seq \in Nat /\ res.seq <= Len(log)
        BY <1>2 DEF Params, Known
      <3>3. Larger(res.seq, res.seq) = res.seq
        BY DEF Larger
      <3>. QED  BY <3>1, <3>2, <3>3
    <2>. QED  BY <2>1, <2>2
  <1>. DEFINE l == [res EXCEPT !.seq = n]
  <1>4. /\ l \in Params /\ l.seq = n /\ l.pts = res.pts /\ l.qts = res.qts
        /\ res.seq \in Nat
    BY <1>2 DEF Params
  <1>5. last' = l /\ StartDrain(l)
    BY <1>1, <1>3
  <1>. HIDE DEF l
  <1>6. Known(l)
    BY <1>2, <1>3, <1>4 DEF Known
  <1>7. base' \in Nat /\ base <= base' /\ res.seq <= base' /\ n <= base'
    BY <1>3, <1>4, StartFacts DEF Larger
  <1>8. \A i \in Needed(l) : i > base' => i \in Handed \cup {}
    <2>. SUFFICES ASSUME NEW i \in DOMAIN log, i > base', Reached(l, i)  PROVE FALSE
      BY DEF Needed
    <2>1. i \in Nat /\ i > res.seq /\ ~(i <= n)
      BY <1>2, <1>4, <1>7
    <2>2. ~Reached(res, i)
      BY <1>2, <2>1
    <2>. QED  BY <1>4, <2>1, <2>2 DEF Reached
  <1>. QED  BY <1>1, <1>4, <1>5, <1>6, <1>7, <1>8, DrainStarts, StartFacts, HandlerKeeps

-----------------------------------------------------------------------------
(* The server, the storage thread and the death of the process.            *)

(* A new event is past every counter, so nothing more is needed.           *)
LEMMA ServerEventKeeps ==
  ASSUME Inductive, NEW kind \in Kinds, ServerEvent(kind)
  PROVE  Inductive'
  <1>. DEFINE E == [kind : Kinds, pts : Nat, qts : Nat]
              e == [kind |-> kind,
                    pts  |-> PtsAt(Len(log)) + (IF kind = "enc" THEN 0 ELSE 1),
                    qts  |-> QtsAt(Len(log)) + (IF kind = "enc" THEN 1 ELSE 0)]
              n == Len(log)
  <1>1. /\ TypeOK /\ LogOrdered /\ CountersKnown /\ NoGap /\ CrashSafe
        /\ AckedIsHanded /\ SavesCovered /\ DifferenceCovered /\ StateFresh
    BY DEF Inductive
  <1>2. /\ log' = Append(log, e)
        /\ UNCHANGED <<acked, last, updatesQueue, waitTime, difference, stateRpc, drain,
                       storageQueue, stored, params, lastSaved, base, held, apart, lost, crashes, errors>>
    BY DEF ServerEvent, client, disk, secrets
  <1>3. /\ log \in Seq(E) /\ DOMAIN log = 1 .. n /\ n \in Nat
        /\ \A i \in DOMAIN log : log[i] \in E
        /\ PtsAt(n) \in Nat /\ QtsAt(n) \in Nat
    BY <1>1, LogTyped DEF TypeOK
  <1>4. /\ e \in E /\ e.kind = kind /\ PtsAt(n) <= e.pts /\ QtsAt(n) <= e.qts
        /\ kind # "enc" => PtsAt(n) < e.pts
        /\ kind = "enc" => QtsAt(n) < e.qts
    BY <1>3
  <1>. HIDE DEF e, E
  <1>5. /\ log' \in Seq(E) /\ Len(log') = n + 1 /\ DOMAIN log' = 1 .. n + 1
        /\ log'[n + 1] = e /\ \A i \in 1 .. n : log'[i] = log[i]
    BY <1>2, <1>3, <1>4
  <1>6. /\ PtsAt(Len(log))' = e.pts /\ QtsAt(Len(log))' = e.qts /\ Len(log)' = n + 1
        /\ e.pts \in Nat /\ e.qts \in Nat
    BY <1>3, <1>4, <1>5 DEF PtsAt, QtsAt, E
  <1>7. \A l \in Params : Known(l) => /\ l.seq <= n + 1 /\ l.pts <= e.pts /\ l.qts <= e.qts
    BY <1>3, <1>4 DEF Known, Params, E
  (* A counter the server had already reached does not reach the new event. *)
  <1>8. \A l \in Params : Known(l) => \A i \in DOMAIN log' :
          (/\ i > base /\ i \notin lost
           /\ \/ log'[i].kind # "own" /\ i <= l.seq
              \/ log'[i].kind = "msg" /\ log'[i].pts <= l.pts
              \/ log'[i].kind = "enc" /\ log'[i].qts <= l.qts) => i \in Needed(l)
    <2>. SUFFICES ASSUME NEW l \in Params, Known(l), NEW i \in DOMAIN log',
                         i > base, i \notin lost,
                         \/ log'[i].kind # "own" /\ i <= l.seq
                         \/ log'[i].kind = "msg" /\ log'[i].pts <= l.pts
                         \/ log'[i].kind = "enc" /\ log'[i].qts <= l.qts
                  PROVE  i \in Needed(l)
      OBVIOUS
    <2>1. CASE i = n + 1
      <3>1. /\ l.seq \in Nat /\ l.pts \in Nat /\ l.qts \in Nat
            /\ l.seq <= n /\ l.pts <= PtsAt(n) /\ l.qts <= QtsAt(n)
        BY DEF Known, Params
      <3>2. log'[i] = e
        BY <1>5, <2>1
      <3>3. ~(i <= l.seq)
        BY <1>3, <2>1, <3>1
      <3>4. kind # "enc" => ~(e.pts <= l.pts)
        BY <1>3, <1>4, <1>6, <3>1
      <3>5. kind = "enc" => ~(e.qts <= l.qts)
        BY <1>3, <1>4, <1>6, <3>1
      <3>. QED  BY <1>4, <3>2, <3>3, <3>4, <3>5
    <2>2. CASE i \in 1 .. n
      <3>1. log'[i] = log[i] /\ i \in DOMAIN log
        BY <1>3, <1>5, <2>2
      <3>. QED  BY <3>1 DEF Needed, Reached
    <2>. QED  BY <1>5, <2>1, <2>2
  <1>9. TypeOK'
    <2>1. updatesQueue' \subseteq Packages'
      <3>. SUFFICES ASSUME NEW p \in updatesQueue PROVE p \in Packages'
        BY <1>2
      <3>1. /\ p \in [type : Types, lo : DOMAIN log, hi : DOMAIN log] /\ CanCarry(p)
        BY <1>1 DEF TypeOK, Packages
      <3>2. p \in [type : Types, lo : DOMAIN log', hi : DOMAIN log']
        BY <1>3, <1>5, <3>1
      <3>3. /\ p.lo \in 1 .. n /\ p.hi \in 1 .. n
            /\ \A i \in p.lo .. p.hi : log'[i] = log[i]
            /\ log'[p.lo] = log[p.lo]
        BY <1>3, <1>5, <3>1
      <3>4. CanCarry(p)'
        BY <3>1, <3>3 DEF CanCarry
      <3>. QED  BY <3>2, <3>4 DEF Packages
    <2>. QED  BY <1>1, <1>2, <1>5, <2>1 DEF TypeOK, E
  <1>10. LogOrdered'
    <2>0. ASSUME NEW j \in 1 .. n + 1
          PROVE  IF log'[j].kind = "enc" THEN log'[j].qts > 0 ELSE log'[j].pts > 0
      <3>1. CASE j \in 1 .. n
        BY <1>1, <1>3, <1>5, <3>1 DEF LogOrdered
      <3>2. CASE j = n + 1
        BY <1>3, <1>4, <1>5, <1>6, <3>2
      <3>. QED  BY <1>3, <3>1, <3>2
    <2>. SUFFICES ASSUME NEW j \in 1 .. n + 1, NEW i \in 1 .. j - 1
                  PROVE  /\ log'[i].pts <= log'[j].pts /\ log'[i].qts <= log'[j].qts
                         /\ log'[j].kind # "enc" => log'[i].pts < log'[j].pts
                         /\ log'[j].kind = "enc" => log'[i].qts < log'[j].qts
      BY <1>5, <2>0 DEF LogOrdered
    <2>1. CASE j \in 1 .. n
      <3>1. i \in 1 .. n
        BY <1>3, <2>1
      <3>. QED  BY <1>1, <1>3, <1>5, <2>1, <3>1 DEF LogOrdered
    <2>2. CASE j = n + 1
      <3>1. i \in DOMAIN log /\ log'[i] = log[i] /\ log'[j] = e /\ log[i] \in E
        BY <1>3, <1>5, <2>2
      <3>2. log[i].pts <= PtsAt(n) /\ log[i].qts <= QtsAt(n)
        BY <1>1, <3>1, LogOrder
      <3>. QED  BY <1>3, <1>4, <3>1, <3>2 DEF E
    <2>. QED  BY <1>3, <2>1, <2>2
  <1>11. CountersKnown'
    <2>1. /\ last \in Params /\ params \in Params /\ difference.answer.params \in Params
          /\ stateRpc.params \in Params /\ difference.pts \in Nat /\ difference.qts \in Nat
          /\ acked \in Nat
          /\ \A k \in DOMAIN storageQueue : storageQueue[k].params \in Params
      <3>. DEFINE T == TaskSet
      <3>1. storageQueue \in Seq(T)
        BY <1>1 DEF TypeOK
      <3>2. \A k \in DOMAIN storageQueue : storageQueue[k] \in T
        <4>. HIDE DEF T
        <4>. QED  BY <3>1
      <3>. QED  BY <1>1, <3>2 DEF TypeOK, AnswerSet, TaskSet
    <2>2. /\ difference.pts <= e.pts /\ difference.qts <= e.qts /\ acked <= e.qts
      BY <1>1, <1>3, <1>4, <2>1 DEF CountersKnown, E
    <2>3. /\ Known(last) /\ Known(params) /\ Known(difference.answer.params)
          /\ Known(stateRpc.params)
          /\ \A k \in DOMAIN storageQueue : Known(storageQueue[k].params)
      BY <1>1 DEF CountersKnown
    <2>4. \A l \in Params : Known(l) => /\ l.seq <= Len(log)'
                                       /\ l.pts <= PtsAt(Len(log))' /\ l.qts <= QtsAt(Len(log))'
      BY <1>6, <1>7
    <2>5. Known(last)' /\ Known(params)'
      BY <1>2, <2>1, <2>3, <2>4 DEF Known
    <2>6. Known(difference.answer.params)' /\ Known(stateRpc.params)'
      BY <1>2, <2>1, <2>3, <2>4 DEF Known
    <2>7. \A k \in DOMAIN storageQueue : Known(storageQueue[k].params)'
      BY <1>2, <2>1, <2>3, <2>4 DEF Known
    <2>8. /\ (difference.pts <= PtsAt(Len(log)))' /\ (difference.qts <= QtsAt(Len(log)))'
          /\ (acked <= QtsAt(Len(log)))'
      BY <1>2, <1>6, <2>2
    <2>. QED  BY <1>2, <2>5, <2>6, <2>7, <2>8 DEF CountersKnown
  <1>12. Handed' = Handed
    BY <1>2 DEF Handed
  <1>13. /\ last \in Params /\ params \in Params /\ difference.answer.params \in Params
         /\ Request \in Params /\ stateRpc.params \in Params
         /\ Known(last) /\ Known(params) /\ Known(difference.answer.params)
         /\ Known(Request) /\ Known(stateRpc.params)
    BY <1>1, <1>3 DEF TypeOK, AnswerSet, Params, CountersKnown, Known, Request
  <1>14. ASSUME NEW k \in DOMAIN storageQueue
         PROVE  storageQueue[k].params \in Params /\ Known(storageQueue[k].params)
    <2>. DEFINE T == TaskSet
    <2>1. storageQueue \in Seq(T)
      BY <1>1 DEF TypeOK
    <2>2. storageQueue[k] \in T
      <3>. HIDE DEF T
      <3>. QED  BY <2>1
    <2>. QED  BY <1>1, <2>2 DEF TaskSet, CountersKnown
  <1>15. NoGap'
    <2>1. Needed(last)' \subseteq Needed(last)
      BY <1>2, <1>8, <1>13 DEF Needed, Reached
    <2>. QED  BY <1>1, <1>12, <2>1 DEF NoGap
  <1>16. CrashSafe'
    <2>1. Needed(params)' \subseteq Needed(params)
      BY <1>2, <1>8, <1>13 DEF Needed, Reached
    <2>. QED  BY <1>1, <1>2, <2>1 DEF CrashSafe
  <1>17. AckedIsHanded'
    <2>1. Acknowledged' \subseteq Acknowledged
      <3>. SUFFICES ASSUME NEW i \in Acknowledged'  PROVE i \in Acknowledged
        OBVIOUS
      <3>1. /\ i \in 1 .. n + 1 /\ log'[i].kind = "enc" /\ log'[i].qts <= acked
            /\ i > base /\ i \notin lost
        BY <1>2, <1>5 DEF Acknowledged
      <3>2. CASE i = n + 1
        <4>1. acked <= QtsAt(n) /\ acked \in Nat
          BY <1>1 DEF CountersKnown, TypeOK
        <4>. QED  BY <1>3, <1>4, <1>5, <1>6, <3>1, <3>2, <4>1
      <3>3. CASE i \in 1 .. n
        BY <1>3, <1>5, <3>1, <3>3 DEF Acknowledged
      <3>. QED  BY <1>3, <3>1, <3>2, <3>3
    <2>. QED  BY <1>1, <1>12, <2>1 DEF AckedIsHanded
  <1>18. SavesCovered'
    <2>. SUFFICES ASSUME NEW k \in DOMAIN storageQueue, storageQueue[k].op = "save"
                  PROVE  Needed(storageQueue[k].params)'
                            \subseteq stored \cup apart \cup PutsBefore(storageQueue, k)
      BY <1>2 DEF SavesCovered
    <2>1. Needed(storageQueue[k].params)' \subseteq Needed(storageQueue[k].params)
      BY <1>2, <1>8, <1>14 DEF Needed, Reached
    <2>. QED  BY <1>1, <2>1 DEF SavesCovered
  <1>19. DifferenceCovered'
    <2>1. Needed(Request)' \subseteq Needed(Request)
      BY <1>2, <1>8, <1>13 DEF Needed, Reached, Request
    <2>2. Needed(difference.answer.params)' \subseteq Needed(difference.answer.params)
      BY <1>2, <1>8, <1>13 DEF Needed, Reached
    <2>. QED  BY <1>1, <1>2, <1>12, <2>1, <2>2 DEF DifferenceCovered
  <1>20. StateFresh'
    <2>. SUFFICES ASSUME stateRpc.phase = "answered", NEW i \in DOMAIN log',
                         i > stateRpc.params.seq, Reached(stateRpc.params, i)'
                  PROVE  FALSE
      BY <1>2 DEF StateFresh
    <2>. DEFINE m == stateRpc.params
    <2>1. /\ \/ log'[i].kind # "own" /\ i <= m.seq
             \/ log'[i].kind = "msg" /\ log'[i].pts <= m.pts
             \/ log'[i].kind = "enc" /\ log'[i].qts <= m.qts
          /\ m.seq \in Nat /\ m.pts \in Nat /\ m.qts \in Nat
          /\ m.pts <= PtsAt(n) /\ m.qts <= QtsAt(n)
      BY <1>2, <1>13 DEF Reached, Params, Known
    <2>2. CASE i = n + 1
      <3>1. log'[i] = e
        BY <1>5, <2>2
      <3>2. kind # "enc" => ~(e.pts <= m.pts)
        BY <1>3, <1>4, <1>6, <2>1
      <3>3. kind = "enc" => ~(e.qts <= m.qts)
        BY <1>3, <1>4, <1>6, <2>1
      <3>. QED  BY <1>3, <1>4, <2>1, <2>2, <3>1, <3>2, <3>3
    <2>3. CASE i \in 1 .. n
      <3>1. log'[i] = log[i] /\ i \in DOMAIN log
        BY <1>3, <1>5, <2>3
      <3>. QED  BY <1>1, <2>1, <3>1 DEF StateFresh, Reached
    <2>. QED  BY <1>5, <2>2, <2>3
  <1>. QED  BY <1>9, <1>10, <1>11, <1>15, <1>16, <1>17, <1>18, <1>19, <1>20 DEF Inductive

(* What leaves the log, the counters and all that is handed over as they   *)
(* are keeps everything but what is said of the two requests.              *)
LEMMA ServerAnswersDifferenceKeeps ==
  ASSUME Inductive, ServerAnswersDifference
  PROVE  Inductive'
  <1>1. /\ TypeOK /\ LogOrdered /\ CountersKnown /\ NoGap /\ CrashSafe
        /\ AckedIsHanded /\ SavesCovered /\ DifferenceCovered /\ StateFresh
    BY DEF Inductive
  <1>2. /\ difference.phase = "asked"
        /\ UNCHANGED <<log, acked, last, updatesQueue, waitTime, stateRpc, drain, storageQueue,
                       stored, params, lastSaved, base, held, apart, lost, crashes, errors>>
    BY DEF ServerAnswersDifference, server, disk, secrets
  <1>3. PICK cut \in 0 .. Len(log), kind \in {"empty", "difference", "slice"} :
          /\ difference' = Answered(kind, cut, Missed(cut, difference))
          /\ kind = "empty" => Missed(cut, difference) = {}
    BY DEF ServerAnswersDifference
  <1>. DEFINE S == Missed(cut, difference)
              res == [seq |-> cut,
                      pts |-> Larger(PtsAt(cut), difference.pts),
                      qts |-> Larger(QtsAt(cut), difference.qts), dated |-> TRUE]
  <1>4. /\ DOMAIN log = 1 .. Len(log) /\ Len(log) \in Nat /\ cut \in Nat /\ cut <= Len(log)
        /\ \A i \in DOMAIN log : log[i] \in [kind : Kinds, pts : Nat, qts : Nat]
        /\ difference.pts \in Nat /\ difference.qts \in Nat
        /\ PtsAt(Len(log)) \in Nat /\ QtsAt(Len(log)) \in Nat
    BY <1>1, LogTyped DEF TypeOK
  <1>5. /\ PtsAt(cut) \in Nat /\ QtsAt(cut) \in Nat
        /\ PtsAt(cut) <= PtsAt(Len(log)) /\ QtsAt(cut) <= QtsAt(Len(log))
    <2>1. CASE cut = 0
      BY <1>4, <2>1 DEF PtsAt, QtsAt
    <2>2. CASE cut \in DOMAIN log
      BY <1>1, <1>4, <2>2, LogOrder DEF PtsAt, QtsAt
    <2>. QED  BY <1>4, <2>1, <2>2
  <1>6. /\ difference'.phase = "answered"
        /\ difference'.pts = difference.pts /\ difference'.qts = difference.qts
        /\ difference'.answer = [kind |-> kind, events |-> S, params |-> res]
    BY <1>1, <1>3 DEF Answered, TypeOK
  <1>7. /\ res \in Params /\ S \in SUBSET Nat /\ Known(res)
    BY <1>1, <1>4, <1>5 DEF Params, Larger, Missed, Known, CountersKnown
  <1>8. TypeOK'
    <2>1. Packages' = Packages
      BY <1>2 DEF Packages, CanCarry
    <2>2. difference' \in [phase : {"none", "asked", "answered", "hop", "ready"},
                          pts : Nat, qts : Nat, answer : AnswerSet]
      <3>1. [kind |-> kind, events |-> S, params |-> res] \in AnswerSet
        BY <1>7 DEF AnswerSet
      <3>. QED  BY <1>1, <1>3, <3>1 DEF Answered, TypeOK
    <2>. QED  BY <1>1, <1>2, <2>1, <2>2 DEF TypeOK
  <1>9. CountersKnown'
    <2>1. Known(difference'.answer.params)
      BY <1>6, <1>7
    <2>. QED  BY <1>1, <1>2, <1>6, <2>1 DEF CountersKnown, Known, PtsAt, QtsAt
  <1>10. Needed(res) \subseteq Handed \cup S
    <2>. SUFFICES ASSUME NEW i \in Needed(res)  PROVE i \in Handed \cup S
      OBVIOUS
    <2>1. /\ i \in DOMAIN log /\ i > base /\ i \notin lost /\ Reached(res, i)
          /\ log[i].pts \in Nat /\ log[i].qts \in Nat /\ log[i].kind \in Kinds
      BY <1>4 DEF Needed
    <2>2. Needed(Request) \subseteq Handed
      BY <1>1, <1>2 DEF DifferenceCovered
    <2>3. CASE log[i].kind = "enc" /\ log[i].qts <= difference.qts
      BY <2>1, <2>2, <2>3 DEF Needed, Reached, Request
    <2>4. CASE log[i].kind = "msg" /\ log[i].pts <= difference.pts
      BY <2>1, <2>2, <2>4 DEF Needed, Reached, Request
    <2>5. CASE log[i].kind = "enc" /\ log[i].qts <= acked
      BY <1>1, <2>1, <2>5 DEF AckedIsHanded, Acknowledged
    <2>6. CASE /\ log[i].kind = "enc" => /\ ~(log[i].qts <= difference.qts)
                                         /\ ~(log[i].qts <= acked)
               /\ log[i].kind # "enc" => ~(log[i].pts <= difference.pts)
      <3>1. i <= cut
        <4>1. CASE log[i].kind # "own" /\ i <= cut
          BY <4>1
        <4>2. CASE log[i].kind = "msg" /\ log[i].pts <= Larger(PtsAt(cut), difference.pts)
          <5>1. log[i].pts <= PtsAt(cut) /\ ~(log[i].pts <= difference.pts)
            BY <1>4, <1>5, <2>1, <2>6, <4>2 DEF Larger
          <5>2. cut # 0
            <6>1. CASE cut = 0
              <7>1. PtsAt(cut) = 0
                BY <6>1 DEF PtsAt
              <7>. QED  BY <1>4, <2>1, <5>1, <7>1
            <6>. QED  BY <6>1
          <5>. QED  BY <1>1, <1>4, <2>1, <4>2, <5>1, <5>2, LogOrder DEF PtsAt
        <4>3. CASE log[i].kind = "enc" /\ log[i].qts <= Larger(QtsAt(cut), difference.qts)
          <5>1. log[i].qts <= QtsAt(cut) /\ ~(log[i].qts <= difference.qts)
            BY <1>4, <1>5, <2>1, <2>6, <4>3 DEF Larger
          <5>2. cut # 0
            <6>1. CASE cut = 0
              <7>1. QtsAt(cut) = 0
                BY <6>1 DEF QtsAt
              <7>. QED  BY <1>4, <2>1, <5>1, <7>1
            <6>. QED  BY <6>1
          <5>. QED  BY <1>1, <1>4, <2>1, <4>3, <5>1, <5>2, LogOrder DEF QtsAt
        <4>. QED  BY <2>1, <4>1, <4>2, <4>3 DEF Reached
      <3>2. i \in 1 .. cut /\ acked \in Nat
        BY <1>1, <1>4, <2>1, <3>1 DEF TypeOK
      <3>. QED  BY <1>4, <2>1, <2>6, <3>2 DEF Missed
    <2>7. log[i].kind = "own" => ~Reached(res, i)
      BY DEF Reached
    <2>. QED  BY <2>1, <2>3, <2>4, <2>5, <2>6, <2>7, UpdatesAssumption
  <1>11. Handed' = Handed /\ Needed(Request)' = Needed(Request) /\ Needed(res)' = Needed(res)
    BY <1>2, <1>6 DEF Handed, Needed, Reached, Request, PtsAt, QtsAt
  <1>12. DifferenceCovered'
    <2>1. Needed(Request) \subseteq Handed
      BY <1>1, <1>2 DEF DifferenceCovered
    <2>2. /\ difference'.answer.params = res /\ difference'.answer.events = S
          /\ difference'.answer.kind = "empty" => S = {}
      BY <1>3, <1>6
    <2>. HIDE DEF res, S
    <2>3. Needed(difference.answer.params)' = Needed(res)
      BY <1>2, <2>2 DEF Needed, Reached
    <2>. QED  BY <1>10, <1>11, <2>1, <2>2, <2>3 DEF DifferenceCovered
  <1>13. /\ LogOrdered' /\ NoGap' /\ CrashSafe' /\ AckedIsHanded' /\ SavesCovered' /\ StateFresh'
    BY <1>1, <1>2
       DEF LogOrdered, NoGap, CrashSafe, AckedIsHanded, Acknowledged, SavesCovered, StateFresh,
           Handed, Needed, Reached
  <1>. QED  BY <1>8, <1>9, <1>12, <1>13 DEF Inductive

(* The answer to getState is the end of the log, so no later event is      *)
(* reached by it.                                                          *)
LEMMA ServerAnswersStateKeeps ==
  ASSUME Inductive, ServerAnswersState
  PROVE  Inductive'
  <1>1. /\ TypeOK /\ LogOrdered /\ CountersKnown /\ NoGap /\ CrashSafe
        /\ AckedIsHanded /\ SavesCovered /\ DifferenceCovered /\ StateFresh
    BY DEF Inductive
  <1>. DEFINE res == [seq |-> Len(log), pts |-> PtsAt(Len(log)),
                      qts |-> QtsAt(Len(log)), dated |-> TRUE]
  <1>2. /\ stateRpc' = [phase |-> "answered", params |-> res]
        /\ UNCHANGED <<log, acked, last, updatesQueue, waitTime, difference, drain, storageQueue,
                       stored, params, lastSaved, base, held, apart, lost, crashes, errors>>
    BY DEF ServerAnswersState, server, disk, secrets
  <1>3. /\ DOMAIN log = 1 .. Len(log) /\ Len(log) \in Nat
        /\ PtsAt(Len(log)) \in Nat /\ QtsAt(Len(log)) \in Nat
    BY <1>1, LogTyped
  <1>4. res \in Params /\ Known(res)
    BY <1>3 DEF Params, Known
  <1>5. TypeOK'
    <2>1. Packages' = Packages
      BY <1>2 DEF Packages, CanCarry
    <2>. QED  BY <1>1, <1>2, <1>4, <2>1 DEF TypeOK
  <1>6. CountersKnown'
    <2>1. Known(stateRpc'.params)
      BY <1>2, <1>4
    <2>. QED  BY <1>1, <1>2, <2>1 DEF CountersKnown, Known, PtsAt, QtsAt
  <1>7. StateFresh'
    <2>1. \A i \in DOMAIN log : ~(i > Len(log))
      BY <1>3
    <2>. QED  BY <1>2, <2>1 DEF StateFresh
  <1>8. /\ LogOrdered' /\ NoGap' /\ CrashSafe' /\ AckedIsHanded' /\ SavesCovered'
        /\ DifferenceCovered'
    BY <1>1, <1>2
       DEF LogOrdered, NoGap, CrashSafe, AckedIsHanded, Acknowledged, SavesCovered,
           DifferenceCovered, Request, Handed, Needed, Reached
  <1>. QED  BY <1>5, <1>6, <1>7, <1>8 DEF Inductive

(* Passing the answer to the storage thread and back stores nothing and    *)
(* moves no counter.                                                       *)
LEMMA ReceiveDifferenceKeeps ==
  ASSUME Inductive, ReceiveDifference
  PROVE  Inductive'
  <1>1. /\ TypeOK /\ LogOrdered /\ CountersKnown /\ NoGap /\ CrashSafe
        /\ AckedIsHanded /\ SavesCovered /\ DifferenceCovered /\ StateFresh
    BY DEF Inductive
  <1>. DEFINE t == Task("hop", {}, NoParams)
  <1>2. /\ difference.phase = "answered" /\ difference' = [difference EXCEPT !.phase = "hop"]
        /\ storageQueue' = Append(storageQueue, t)
        /\ UNCHANGED <<log, acked, last, updatesQueue, waitTime, stateRpc, drain,
                       stored, params, lastSaved, base, held, apart, lost, crashes, errors>>
    BY DEF ReceiveDifference, server, disk, secrets
  <1>3. /\ storageQueue \in Seq(TaskSet) /\ DOMAIN log = 1 .. Len(log) /\ Len(log) \in Nat
        /\ PtsAt(Len(log)) \in Nat /\ QtsAt(Len(log)) \in Nat
    BY <1>1, LogTyped DEF TypeOK
  <1>4. t \in TaskSet /\ t.op = "hop" /\ t.events = {} /\ t.params = NoParams
    BY DEF Task, TaskSet, NoParams, Params
  <1>. HIDE DEF t
  <1>5. storageQueue' = storageQueue \o <<t>>
    <2>. DEFINE T == TaskSet
    <2>1. storageQueue \in Seq(T) /\ t \in T
      BY <1>3, <1>4
    <2>. HIDE DEF T
    <2>. QED  BY <1>2, <2>1
  <1>6. /\ storageQueue' \in Seq(TaskSet) /\ PutsOf(storageQueue') = PutsOf(storageQueue)
        /\ \A k \in DOMAIN storageQueue' :
             \/ /\ k \in DOMAIN storageQueue /\ storageQueue'[k] = storageQueue[k]
                /\ PutsBefore(storageQueue', k) = PutsBefore(storageQueue, k)
             \/ storageQueue'[k].op = "hop" /\ storageQueue'[k].params = NoParams
    <2>1. /\ storageQueue' \in Seq(TaskSet)
          /\ PutsOf(storageQueue') = PutsOf(storageQueue) \cup t.events
          /\ \A k \in DOMAIN storageQueue' :
               \/ /\ k \in DOMAIN storageQueue /\ storageQueue'[k] = storageQueue[k]
                  /\ PutsBefore(storageQueue', k) = PutsBefore(storageQueue, k)
               \/ storageQueue'[k] = t /\ PutsBefore(storageQueue', k) = PutsOf(storageQueue)
      BY <1>3, <1>4, <1>5, PostOne
    <2>. QED  BY <1>4, <2>1
  <1>7. Handed' = Handed
    BY <1>2, <1>6 DEF Handed
  <1>8. /\ difference'.phase = "hop" /\ difference'.pts = difference.pts
        /\ difference'.qts = difference.qts /\ difference'.answer = difference.answer
    BY <1>1, <1>2 DEF TypeOK
  <1>9. TypeOK'
    <2>1. Packages' = Packages
      BY <1>2 DEF Packages, CanCarry
    <2>2. difference' \in [phase : {"none", "asked", "answered", "hop", "ready"},
                          pts : Nat, qts : Nat, answer : AnswerSet]
      BY <1>1, <1>2 DEF TypeOK
    <2>. QED  BY <1>1, <1>2, <1>6, <2>1, <2>2 DEF TypeOK
  <1>10. CountersKnown'
    <2>1. Known(NoParams)
      BY <1>3 DEF Known, NoParams
    <2>2. \A k \in DOMAIN storageQueue' : Known(storageQueue'[k].params)
      BY <1>1, <1>6, <2>1 DEF CountersKnown
    <2>. QED  BY <1>1, <1>2, <1>8, <2>2 DEF CountersKnown, Known, PtsAt, QtsAt
  <1>11. SavesCovered'
    <2>1. \A k \in DOMAIN storageQueue' : storageQueue'[k].op = "save" =>
             Needed(storageQueue'[k].params)
                \subseteq stored \cup apart \cup PutsBefore(storageQueue', k)
      BY <1>1, <1>6 DEF SavesCovered
    <2>. QED  BY <1>2, <2>1 DEF SavesCovered, Needed, Reached
  <1>12. DifferenceCovered'
    BY <1>1, <1>2, <1>7, <1>8
       DEF DifferenceCovered, Request, Needed, Reached
  <1>13. LogOrdered' /\ NoGap' /\ CrashSafe' /\ AckedIsHanded' /\ StateFresh'
    BY <1>1, <1>2, <1>7
       DEF LogOrdered, NoGap, CrashSafe, AckedIsHanded, Acknowledged, StateFresh, Needed, Reached
  <1>. QED  BY <1>9, <1>10, <1>11, <1>12, <1>13 DEF Inductive

(* The storage thread moves messages from the queue to the database, and   *)
(* saves what the puts before have covered.                                *)
LEMMA StorageKeeps ==
  ASSUME Inductive, StorageStep \/ StorageSkip
  PROVE  Inductive'
  <1>1. /\ TypeOK /\ LogOrdered /\ CountersKnown /\ NoGap /\ CrashSafe
        /\ AckedIsHanded /\ SavesCovered /\ DifferenceCovered /\ StateFresh
    BY DEF Inductive
  <1>. DEFINE task == Head(storageQueue)
  <1>2. /\ storageQueue # <<>> /\ storageQueue' = Tail(storageQueue)
        /\ UNCHANGED <<log, acked, last, updatesQueue, waitTime, stateRpc, drain,
                       base, held, apart, lost, crashes, errors>>
        /\ \/ /\ task.op = "put" /\ stored' = stored \cup task.events
              /\ UNCHANGED <<params, lastSaved, difference>>
           \/ /\ task.op = "save" /\ params' = task.params /\ lastSaved' = task.params
              /\ UNCHANGED <<stored, difference>>
           \/ /\ task.op = "hop" /\ difference' = [difference EXCEPT !.phase = "ready"]
              /\ UNCHANGED <<stored, params, lastSaved>>
           \/ task.op = "save" /\ UNCHANGED <<stored, params, lastSaved, difference>>
    BY DEF StorageStep, StorageSkip, Saved, Stored, server, client, disk, secrets
  <1>3. storageQueue \in Seq(TaskSet)
    BY <1>1 DEF TypeOK
  <1>4. /\ task \in TaskSet /\ task = storageQueue[1] /\ 1 \in DOMAIN storageQueue
        /\ PutsBefore(storageQueue, 1) = {}
        /\ storageQueue' \in Seq(TaskSet)
        /\ PutsOf(storageQueue) = task.events \cup PutsOf(storageQueue')
        /\ \A k \in DOMAIN storageQueue' :
              /\ k + 1 \in DOMAIN storageQueue /\ storageQueue'[k] = storageQueue[k + 1]
              /\ PutsBefore(storageQueue, k + 1) = task.events \cup PutsBefore(storageQueue', k)
    BY <1>2, <1>3, TakeFirst
  <1>5. /\ task.op # "put" => task.events = {}
        /\ task.events \in SUBSET Nat /\ task.params \in Params /\ Known(task.params)
    BY <1>1, <1>4 DEF TaskSet, CountersKnown
  <1>. HIDE DEF task
  <1>6. stored' = stored \cup task.events \/ (stored' = stored /\ task.events = {})
    BY <1>2, <1>5
  <1>7. Handed' = Handed
    BY <1>2, <1>4, <1>6 DEF Handed
  <1>8. task.op = "save" => Needed(task.params) \subseteq stored \cup apart
    BY <1>1, <1>4 DEF SavesCovered
  <1>9. params' = params \/ (params' = task.params /\ task.op = "save")
    BY <1>2
  <1>10. /\ difference'.pts = difference.pts /\ difference'.qts = difference.qts
         /\ difference'.answer = difference.answer
         /\ difference' \in [phase : {"none", "asked", "answered", "hop", "ready"},
                             pts : Nat, qts : Nat, answer : AnswerSet]
    BY <1>1, <1>2 DEF TypeOK
  <1>11. TypeOK'
    <2>1. Packages' = Packages
      BY <1>2 DEF Packages, CanCarry
    <2>2. params' \in Params /\ lastSaved' \in Params /\ stored' \subseteq Nat
      BY <1>1, <1>2, <1>5 DEF TypeOK
    <2>. QED  BY <1>1, <1>2, <1>4, <1>10, <2>1, <2>2 DEF TypeOK
  <1>12. CountersKnown'
    <2>1. \A k \in DOMAIN storageQueue' : Known(storageQueue'[k].params)
      BY <1>1, <1>4 DEF CountersKnown
    <2>2. Known(params')
      BY <1>1, <1>5, <1>9 DEF CountersKnown
    <2>. QED  BY <1>1, <1>2, <1>10, <2>1, <2>2 DEF CountersKnown, Known, PtsAt, QtsAt
  <1>13. \A l : Needed(l)' = Needed(l)
    BY <1>2 DEF Needed, Reached
  <1>14. CrashSafe'
    <2>1. Needed(params') \subseteq stored' \cup apart
      BY <1>1, <1>6, <1>8, <1>9 DEF CrashSafe
    <2>. QED  BY <1>2, <2>1 DEF CrashSafe, Needed, Reached
  <1>15. SavesCovered'
    <2>1. ASSUME NEW k \in DOMAIN storageQueue', storageQueue'[k].op = "save"
          PROVE  Needed(storageQueue'[k].params)
                    \subseteq stored' \cup apart \cup PutsBefore(storageQueue', k)
      <3>1. Needed(storageQueue[k + 1].params)
                \subseteq stored \cup apart \cup PutsBefore(storageQueue, k + 1)
        BY <1>1, <1>4, <2>1 DEF SavesCovered
      <3>. QED  BY <1>4, <1>6, <2>1, <3>1
    <2>. QED  BY <1>2, <2>1 DEF SavesCovered, Needed, Reached
  <1>16. DifferenceCovered'
    BY <1>1, <1>2, <1>7, <1>10 DEF DifferenceCovered, Request, Needed, Reached
  <1>17. LogOrdered' /\ NoGap' /\ AckedIsHanded' /\ StateFresh'
    BY <1>1, <1>2, <1>7
       DEF LogOrdered, NoGap, AckedIsHanded, Acknowledged, StateFresh, Needed, Reached
  <1>. QED  BY <1>11, <1>12, <1>14, <1>15, <1>16, <1>17 DEF Inductive

(* What was acknowledged and not written is in lost from then on, so the   *)
(* counters that are read back need nothing that went with the process.    *)
LEMMA CrashKeeps ==
  ASSUME Inductive, Crash
  PROVE  Inductive'
  <1>1. /\ TypeOK /\ LogOrdered /\ CountersKnown /\ NoGap /\ CrashSafe
        /\ AckedIsHanded /\ SavesCovered /\ DifferenceCovered /\ StateFresh
    BY DEF Inductive
  <1>2. /\ crashes' = crashes + 1 /\ last' = params /\ lastSaved' = NoParams
        /\ updatesQueue' = {} /\ waitTime' = "zero" /\ difference' = NoDifference
        /\ stateRpc' = NoState /\ drain' = NoDrain /\ storageQueue' = <<>>
        /\ lost' = lost \cup {i \in DOMAIN log : /\ log[i].kind = "enc"
                                                /\ log[i].qts <= acked /\ i \notin stored}
        /\ held' = {} /\ UNCHANGED <<log, acked, stored, params, apart, base, errors>>
    BY DEF Crash, server, disk
  <1>3. /\ DOMAIN log = 1 .. Len(log) /\ Len(log) \in Nat
        /\ PtsAt(Len(log)) \in Nat /\ QtsAt(Len(log)) \in Nat
    BY <1>1, LogTyped
  <1>4. TypeOK'
    <2>1. /\ NoParams \in Params /\ NoDrain \in [run : BOOLEAN, any : BOOLEAN,
                                               save : BOOLEAN, ack : BOOLEAN]
          /\ NoState \in [phase : {"none", "asked", "answered"}, params : Params]
      BY DEF NoParams, Params, NoDrain, NoState
    <2>2. NoDifference \in [phase : {"none", "asked", "answered", "hop", "ready"},
                            pts : Nat, qts : Nat, answer : AnswerSet]
      BY <2>1 DEF NoDifference, NoAnswer, AnswerSet
    <2>3. lost' \subseteq Nat /\ crashes' \in Nat
      <3>1. lost \subseteq Nat /\ crashes \in Nat
        BY <1>1 DEF TypeOK
      <3>2. DOMAIN log \subseteq Nat
        BY <1>3
      <3>3. lost' \subseteq lost \cup DOMAIN log
        BY <1>2
      <3>4. crashes' \in Nat
        BY <1>2, <3>1
      <3>. QED  BY <3>1, <3>2, <3>3, <3>4
    <2>4. storageQueue' \in Seq(TaskSet)
      <3>. DEFINE T == TaskSet
      <3>1. <<>> \in Seq(T)
        <4>. HIDE DEF T
        <4>. QED  OBVIOUS
      <3>. QED  BY <1>2, <3>1
    <2>5. Packages' = Packages
      BY <1>2 DEF Packages, CanCarry
    <2>. QED  BY <1>1, <1>2, <2>1, <2>2, <2>3, <2>4, <2>5 DEF TypeOK
  <1>6. Handed' = stored \cup apart
    BY <1>2 DEF Handed, PutsOf
  <1>7. NoGap' /\ CrashSafe'
    <2>1. Needed(params)' \subseteq stored \cup apart
      BY <1>1, <1>2 DEF CrashSafe, Needed, Reached
    <2>2. Needed(last)' \subseteq Needed(params)'
      BY <1>2 DEF Needed, Reached
    <2>. QED  BY <1>2, <1>6, <2>1, <2>2 DEF NoGap, CrashSafe
  <1>8. AckedIsHanded'
    BY <1>2, <1>6 DEF AckedIsHanded, Acknowledged
  <1>9. CountersKnown'
    <2>1. Known(NoParams)
      BY <1>3 DEF Known, NoParams
    <2>2. /\ difference'.answer.params = NoParams /\ stateRpc'.params = NoParams
          /\ difference'.pts = 0 /\ difference'.qts = 0
      BY <1>2 DEF NoDifference, NoAnswer, NoState
    <2>3. DOMAIN storageQueue' = {}
      BY <1>2
    <2>. QED  BY <1>1, <1>2, <1>3, <2>1, <2>2, <2>3 DEF CountersKnown, Known, PtsAt, QtsAt
  <1>10. SavesCovered'
    BY <1>2 DEF SavesCovered
  <1>11. DifferenceCovered'
    <2>1. Needed(NoParams) = {}
      BY <1>1, NothingNeeded
    <2>2. /\ difference'.answer.params = NoParams /\ difference'.answer.kind = "empty"
          /\ difference'.answer.events = {} /\ difference'.pts = 0 /\ difference'.qts = 0
      BY <1>2 DEF NoDifference, NoAnswer
    <2>3. Needed(difference.answer.params)' = {}
      BY <1>2, <2>1, <2>2 DEF Needed, Reached, NoParams
    <2>4. Needed(Request)' = {}
      BY <1>2, <2>1, <2>2 DEF Needed, Reached, NoParams, Request
    <2>. QED  BY <2>2, <2>3, <2>4 DEF DifferenceCovered
  <1>12. LogOrdered' /\ StateFresh'
    BY <1>1, <1>2 DEF LogOrdered, StateFresh, NoState
  <1>. QED  BY <1>4, <1>7, <1>8, <1>9, <1>10, <1>11, <1>12 DEF Inductive

-----------------------------------------------------------------------------
(* Before the first event nothing is needed.                               *)
LEMMA InitInductive ==
  ASSUME Init
  PROVE  Inductive
  <1>1. /\ log = <<>> /\ acked = 0 /\ last = NoParams /\ updatesQueue = {}
        /\ waitTime = "zero" /\ difference = NoDifference /\ stateRpc = NoState
        /\ drain = NoDrain /\ storageQueue = <<>> /\ stored = {} /\ params = NoParams
        /\ lastSaved = NoParams /\ base = 0 /\ lost = {} /\ crashes = 0 /\ errors = 0
        /\ held = {} /\ apart = {}
    BY DEF Init
  <1>2. DOMAIN log = {} /\ Len(log) = 0 /\ PtsAt(Len(log)) = 0 /\ QtsAt(Len(log)) = 0
    BY <1>1 DEF PtsAt, QtsAt
  <1>3. TypeOK
    <2>1. /\ NoParams \in Params /\ NoDrain \in [run : BOOLEAN, any : BOOLEAN,
                                               save : BOOLEAN, ack : BOOLEAN]
          /\ NoState \in [phase : {"none", "asked", "answered"}, params : Params]
      BY DEF NoParams, Params, NoDrain, NoState
    <2>2. NoDifference \in [phase : {"none", "asked", "answered", "hop", "ready"},
                            pts : Nat, qts : Nat, answer : AnswerSet]
      BY <2>1 DEF NoDifference, NoAnswer, AnswerSet
    <2>3. storageQueue \in Seq(TaskSet) /\ log \in Seq([kind : Kinds, pts : Nat, qts : Nat])
      <3>. DEFINE T == TaskSet
                  E == [kind : Kinds, pts : Nat, qts : Nat]
      <3>1. <<>> \in Seq(T) /\ <<>> \in Seq(E)
        <4>. HIDE DEF T, E
        <4>. QED  OBVIOUS
      <3>. QED  BY <1>1, <3>1
    <2>. QED  BY <1>1, <2>1, <2>2, <2>3 DEF TypeOK
  <1>4. \A l : Needed(l) = {}
    BY <1>2 DEF Needed
  <1>5. CountersKnown
    <2>1. Known(NoParams)
      BY <1>2 DEF Known, NoParams
    <2>2. /\ difference.answer.params = NoParams /\ stateRpc.params = NoParams
          /\ difference.pts = 0 /\ difference.qts = 0 /\ DOMAIN storageQueue = {}
      BY <1>1 DEF NoDifference, NoAnswer, NoState
    <2>. QED  BY <1>1, <1>2, <2>1, <2>2 DEF CountersKnown
  <1>6. DifferenceCovered
    BY <1>1, <1>4 DEF DifferenceCovered, NoDifference, NoAnswer
  <1>. QED
    BY <1>1, <1>2, <1>3, <1>4, <1>5, <1>6
       DEF Inductive, LogOrdered, NoGap, CrashSafe, AckedIsHanded, Acknowledged,
           SavesCovered, StateFresh, NoState

(* Every step keeps the invariant.                                         *)
LEMMA NextInductive ==
  ASSUME Inductive, [Next]_vars
  PROVE  Inductive'
  <1>1. CASE \E kind \in Kinds : ServerEvent(kind)
    BY <1>1, ServerEventKeeps
  <1>2. CASE ServerAnswersDifference
    BY <1>2, ServerAnswersDifferenceKeeps
  <1>3. CASE ServerAnswersState
    BY <1>3, ServerAnswersStateKeeps
  <1>4. CASE StageStep
    <2>1. CASE \E p \in Packages : \/ ReceiveInSequence(p) \/ ReceiveMissingData(p)
                                   \/ ReceiveRepeated(p) \/ ReceiveOutOfSequence(p)
      BY <2>1, ReceiveKeeps
    <2>2. CASE \E p \in Packages : ReceiveOwnAnswer(p)
      BY <2>2, OwnAnswerKeeps
    <2>3. CASE ReceiveTooLong \/ ReceiveUnnumbered
      BY <2>3, ReceiveOtherKeeps
    <2>4. CASE UpdateTimer \/ Reconnect \/ DifferenceFails \/ StateFails
      BY <2>4, TimerKeeps
    <2>5. CASE ReceiveDifference
      BY <2>5, ReceiveDifferenceKeeps
    <2>6. CASE ApplyDifference
      BY <2>6, ApplyDifferenceKeeps
    <2>7. CASE ReceiveState
      BY <2>7, ReceiveStateKeeps
    <2>. QED  BY <1>4, <2>1, <2>2, <2>3, <2>4, <2>5, <2>6, <2>7 DEF StageStep
  <1>5. CASE DrainStep
    BY <1>5, DrainKeeps
  <1>6. CASE Expire
    BY <1>6, TimerKeeps
  <1>7. CASE StorageStep \/ StorageSkip
    BY <1>7, StorageKeeps
  <1>8. CASE Crash
    BY <1>8, CrashKeeps
  <1>9. CASE UNCHANGED vars
    <2>. USE <1>9 DEF vars, server, client, disk, secrets
    <2>1. Packages' = Packages
      BY DEF Packages, CanCarry
    <2>2. TypeOK'
      BY <2>1 DEF Inductive, TypeOK
    <2>3. CountersKnown'
      BY DEF Inductive, CountersKnown, Known, PtsAt, QtsAt
    <2>4. LogOrdered' /\ StateFresh'
      BY DEF Inductive, LogOrdered, StateFresh, Reached
    <2>5. NoGap' /\ CrashSafe' /\ AckedIsHanded'
      BY DEF Inductive, NoGap, CrashSafe, AckedIsHanded, Acknowledged, Handed, PutsOf,
             Needed, Reached
    <2>6. SavesCovered'
      BY DEF Inductive, SavesCovered, PutsBefore, Needed, Reached
    <2>7. DifferenceCovered'
      BY DEF Inductive, DifferenceCovered, Request, Handed, PutsOf, Needed, Reached
    <2>. QED  BY <2>2, <2>3, <2>4, <2>5, <2>6, <2>7 DEF Inductive
  <1>. QED  BY <1>1, <1>2, <1>3, <1>4, <1>5, <1>6, <1>7, <1>8, <1>9 DEF Next

(* The invariant behind the theorems: the counters in memory need no more  *)
(* than what is handed over, and so do the saves still queued, the request *)
(* and its answer, the state and the database.                             *)
THEOREM AlwaysInductive == Spec => []Inductive
  <1>1. Init => Inductive
    BY InitInductive
  <1>2. Inductive /\ [Next]_vars => Inductive'
    BY NextInductive
  <1>. QED  BY <1>1, <1>2, PTL DEF Spec

(* The variables of the update handlers keep their types, and what is held *)
(* back is something the server could have sent.                           *)
THEOREM TypeCorrect == Spec => []TypeOK
  <1>1. Inductive => TypeOK
    BY DEF Inductive
  <1>. QED  BY <1>1, AlwaysInductive, PTL

(* For every log and every order of pushes, answers, errors and crashes,   *)
(* the handlers of MessagesController skip no message: those up to the     *)
(* counters were handed to the storage thread, or to decryptMessage, or    *)
(* are before the state of a getState (base), or died with the process     *)
(* after they were acknowledged (lost).                                    *)
THEOREM NothingSkipped == Spec => []NoGap
  <1>1. Inductive => NoGap
    BY DEF Inductive
  <1>. QED  BY <1>1, AlwaysInductive, PTL

(* The params row never runs ahead of the messages in the database,        *)
(* whenever the process dies; except for secret messages decryptMessage    *)
(* held back in memory or made nothing of, and for base and lost.          *)
THEOREM RestartIsSafe == Spec => []CrashSafe
  <1>1. Inductive => CrashSafe
    BY DEF Inductive
  <1>. QED  BY <1>1, AlwaysInductive, PTL

(* receivedQueue is sent only for secret messages that decryptMessage had: *)
(* each is handed to the storage thread, or was held back in memory or     *)
(* came to nothing when decryptMessage had it (apart), or is before the    *)
(* state of a getState (base), or died with the process (lost).            *)
THEOREM AckAfterDecrypt == Spec => []AckedIsHanded
  <1>1. Inductive => AckedIsHanded
    BY DEF Inductive
  <1>. QED  BY <1>1, AlwaysInductive, PTL

(* An update is never held back with the clock stopped.  DrainHole stops   *)
(* it only when it empties the queue, and the other handlers only when the *)
(* queue is empty.                                                         *)
THEOREM HoleIsTimed == Spec => []HoleHasTimer
  <1>1. Init => HoleHasTimer
    BY DEF Init, HoleHasTimer
  <1>2. HoleHasTimer /\ [Next]_vars => HoleHasTimer'
    <2>. SUFFICES ASSUME HoleHasTimer, [Next]_vars  PROVE HoleHasTimer'
      OBVIOUS
    <2>1. CASE \/ \E kind \in Kinds : ServerEvent(kind)
               \/ ServerAnswersDifference \/ ServerAnswersState \/ Expire
               \/ StorageStep \/ StorageSkip \/ Crash \/ UNCHANGED vars
      BY <2>1 DEF HoleHasTimer, ServerEvent, ServerAnswersDifference, ServerAnswersState,
                  Expire, StorageStep, StorageSkip, Crash, vars, client
    <2>2. CASE \E p \in Packages : \/ ReceiveInSequence(p) \/ ReceiveMissingData(p)
                                   \/ ReceiveRepeated(p) \/ ReceiveOutOfSequence(p)
      BY <2>2 DEF HoleHasTimer, ReceiveInSequence, ReceiveMissingData, ReceiveRepeated,
                  ReceiveOutOfSequence, Conclude, StartWaiting
    <2>3. CASE \E p \in Packages : ReceiveOwnAnswer(p)
      BY <2>3 DEF HoleHasTimer, ReceiveOwnAnswer, StartWaiting
    <2>4. CASE ReceiveTooLong \/ ReceiveUnnumbered \/ UpdateTimer \/ Reconnect
      BY <2>4 DEF HoleHasTimer, ReceiveTooLong, ReceiveUnnumbered, Conclude,
                  UpdateTimer, Reconnect
    <2>5. CASE ReceiveDifference \/ ApplyDifference \/ DifferenceFails
      BY <2>5 DEF HoleHasTimer, ReceiveDifference, ApplyDifference, DifferenceFails
    <2>6. CASE ReceiveState \/ StateFails
      BY <2>6 DEF HoleHasTimer, ReceiveState, StateFails
    <2>7. CASE DrainStep
      BY <2>7 DEF HoleHasTimer, DrainStep, DrainApply, DrainDrop, DrainHole, DrainEnd
    <2>. QED  BY <2>1, <2>2, <2>3, <2>4, <2>5, <2>6, <2>7 DEF Next, StageStep
  <1>. QED  BY <1>1, <1>2, PTL DEF Spec

=============================================================================
