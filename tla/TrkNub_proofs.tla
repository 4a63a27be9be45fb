---------------------------- MODULE TrkNub_proofs ----------------------------
(***************************************************************************)
(* The properties of TrkNub, for every value of its constants: any set of  *)
(* commands, any length of a file access, any number of buffers, and a     *)
(* host that sends any number of requests ahead, if the queue has room for *)
(* those that the pool has buffers for (QueueSuffices).  Only that the     *)
(* pool never runs dry is a matter of a host that waits for each answer.   *)
(* All follow from the inductive invariant of TrkNubInv.                   *)
(*                                                                         *)
(* NubInv has one lemma for each action, and under it one step for each    *)
(* part of the invariant.  Most actions only move the nub from place to    *)
(* place and keep every part for the same reasons; the ones that take a    *)
(* buffer or a packet need RequestInv and ReplyInv, which say what can be  *)
(* on the wire and in the queue.  Those follow Held, what the nub holds,   *)
(* step by step: a request moves from the wire into the queue and from     *)
(* there to its handler without leaving its place among the others.        *)
(***************************************************************************)
EXTENDS TrkNubInv, TLAPS, SequenceTheorems

USE DEF EventTypes, TargetEvents, Event, NoEvent, Buffers, NoBuffer, Waiting

-----------------------------------------------------------------------------
(***************************************************************************)
(* Sequences.                                                              *)
(***************************************************************************)

\* Appending to a sequence of one.
LEMMA AppendOne == ASSUME NEW e, NEW f PROVE Append(<<e>>, f) = <<e, f>>
  <1>1. <<e>> \in Seq({e, f}) /\ <<e, f>> \in Seq({e, f})
    OBVIOUS
  <1>2. Append(<<e>>, f) \in Seq({e, f})
    BY <1>1
  <1>3. Len(Append(<<e>>, f)) = 2 /\ Len(<<e, f>>) = 2
    BY <1>1
  <1>4. \A i \in 1 .. 2 : Append(<<e>>, f)[i] = <<e, f>>[i]
    BY <1>1, <1>2, <1>3
  <1> QED
    BY <1>1, <1>2, <1>3, <1>4, SeqEqual

\* What the sequences of at most two elements, all that the invariant needs,
\* look like after an event or a packet is added or taken.
LEMMA Tuples ==
  /\ \A e : Append(<<>>, e) = <<e>>
  /\ \A e : Head(<<e>>) = e
  /\ \A e : Tail(<<e>>) = <<>>
  /\ \A e : Len(<<e>>) = 1
  /\ \A e : <<e>> # <<>>
  /\ \A e, f : Append(<<e>>, f) = <<e, f>>
  /\ \A e, f : Head(<<e, f>>) = e
  /\ \A e, f : Tail(<<e, f>>) = <<f>>
  /\ \A e, f : <<e, f>> # <<>>
  /\ Len(<<>>) = 0
  <1>1. \A e : Append(<<>>, e) = <<e>>
    OBVIOUS
  <1>2. \A e : Head(<<e>>) = e /\ Len(<<e>>) = 1 /\ <<e>> # <<>>
    OBVIOUS
  <1>3. \A e : Tail(<<e>>) = <<>>
    OBVIOUS
  <1>4. \A e, f : Head(<<e, f>>) = e /\ <<e, f>> # <<>>
    OBVIOUS
  <1>5. \A e, f : Tail(<<e, f>>) = <<f>>
    OBVIOUS
  <1>6. Len(<<>>) = 0
    OBVIOUS
  <1> QED
    BY <1>1, <1>2, <1>3, <1>4, <1>5, <1>6, AppendOne

\* To append to the second of two sequences is to append to both.
LEMMA AppendedLast ==
  ASSUME NEW T, NEW g \in Seq(T), NEW h \in Seq(T), NEW x \in T
  PROVE  g \o Append(h, x) = Append(g \o h, x)
  <1>1. /\ Append(h, x) \in Seq(T) /\ Len(Append(h, x)) = Len(h) + 1
        /\ Len(g) \in Nat /\ Len(h) \in Nat
    OBVIOUS
  <1>2. /\ g \o Append(h, x) \in Seq(T) /\ Len(g \o Append(h, x)) = Len(g) + Len(h) + 1
        /\ g \o h \in Seq(T) /\ Len(g \o h) = Len(g) + Len(h)
    BY <1>1, ConcatProperties
  <1>3. Append(g \o h, x) \in Seq(T) /\ Len(Append(g \o h, x)) = Len(g) + Len(h) + 1
    BY <1>2
  <1>4. ASSUME NEW i \in 1 .. Len(g) + Len(h) + 1
        PROVE  (g \o Append(h, x))[i] = Append(g \o h, x)[i]
    BY <1>1, <1>2, <1>3
  <1> QED
    BY <1>2, <1>3, <1>4, SeqEqual

-----------------------------------------------------------------------------
(***************************************************************************)
(* A sequence of requests and the sequence of the answers awaited.         *)
(***************************************************************************)

\* A packet added behind or before others.
LEMMA AddedFirst ==
  ASSUME NEW T, NEW h \in Seq(T), NEW x \in T
  PROVE  /\ <<x>> \o h \in Seq(T) /\ Len(<<x>> \o h) = Len(h) + 1
         /\ (<<x>> \o h)[1] = x
         /\ \A k \in 1 .. Len(h) : (<<x>> \o h)[k + 1] = h[k]
  <1>1. <<x>> \in Seq(T) /\ Len(<<x>>) = 1 /\ <<x>>[1] = x
    OBVIOUS
  <1> QED
    BY <1>1, ConcatProperties

\* The requests of h are found in g too, and no others: Matched does not look at
\* the rest.
LEMMA SameRequests ==
  ASSUME NEW h, NEW g, NEW S, NEW u \in Seq(S), Matched(h, u), NEW m,
         \A k \in DOMAIN g :
           g[k] \in AllCommands => m[k] \in DOMAIN h /\ h[m[k]] = g[k],
         \A k, l \in DOMAIN g :
           g[k] \in AllCommands /\ g[l] \in AllCommands /\ k < l => m[k] < m[l],
         \A k \in DOMAIN h : h[k] \in AllCommands => \E l \in DOMAIN g : m[l] = k /\ g[l] = h[k]
  PROVE  Matched(g, u)
  <1>1. PICK place \in [DOMAIN h -> 0 .. Len(u)] :
          /\ \A k \in DOMAIN h : h[k] \in AllCommands => place[k] \in 1 .. Len(u)
          /\ \A k, l \in DOMAIN h :
               h[k] \in AllCommands /\ h[l] \in AllCommands /\ k < l => place[k] < place[l]
          /\ OnlyKnownCommands =>
               /\ \A k \in DOMAIN h : h[k] \in AllCommands => h[k] = u[place[k]]
               /\ \A i \in 1 .. Len(u) :
                    \E k \in DOMAIN h : h[k] \in AllCommands /\ place[k] = i
    BY DEF Matched
  <1> DEFINE p == [k \in DOMAIN g |-> IF g[k] \in AllCommands THEN place[m[k]] ELSE 0]
  <1>2. Len(u) \in Nat
    OBVIOUS
  <1>3. p \in [DOMAIN g -> 0 .. Len(u)]
    BY <1>1, <1>2
  <1>4. \A k \in DOMAIN g : g[k] \in AllCommands => p[k] = place[m[k]]
    OBVIOUS
  <1> HIDE DEF p
  <1>5. \A k \in DOMAIN g : g[k] \in AllCommands => p[k] \in 1 .. Len(u)
    BY <1>1, <1>4
  <1>6. \A k, l \in DOMAIN g :
          g[k] \in AllCommands /\ g[l] \in AllCommands /\ k < l => p[k] < p[l]
    BY <1>1, <1>4
  <1>7. ASSUME OnlyKnownCommands
        PROVE  \A k \in DOMAIN g : g[k] \in AllCommands => g[k] = u[p[k]]
    BY <1>1, <1>4, <1>7
  <1>8. ASSUME OnlyKnownCommands, NEW i \in 1 .. Len(u)
        PROVE  \E k \in DOMAIN g : g[k] \in AllCommands /\ p[k] = i
    <2>1. PICK k \in DOMAIN h : h[k] \in AllCommands /\ place[k] = i
      BY <1>1, <1>8
    <2>2. PICK l \in DOMAIN g : m[l] = k /\ g[l] = h[k]
      BY <2>1
    <2> QED
      BY <1>4, <2>1, <2>2
  <1> QED
    BY <1>3, <1>5, <1>6, <1>7, <1>8 DEF Matched

\* What is no request comes and goes unseen.
LEMMA SomethingAdded ==
  ASSUME NEW T, NEW g \in Seq(T), NEW h \in Seq(T), NEW x \in T, x \notin AllCommands,
         NEW S, NEW u \in Seq(S), Matched(g \o h, u)
  PROVE  Matched(g \o (<<x>> \o h), u)
  <1> DEFINE P == Len(g)
             Q == Len(h)
             a == g \o h
             b == g \o (<<x>> \o h)
             m == [k \in DOMAIN b |-> IF k <= P THEN k ELSE k - 1]
  <1>0. P \in Nat /\ Q \in Nat
    OBVIOUS
  <1>1. /\ a \in Seq(T) /\ Len(a) = P + Q
        /\ \A k \in 1 .. P : a[k] = g[k]
        /\ \A k \in 1 .. Q : a[P + k] = h[k]
    BY ConcatProperties
  <1>2. /\ b \in Seq(T) /\ Len(b) = P + Q + 1
        /\ \A k \in 1 .. P : b[k] = g[k]
        /\ b[P + 1] = x
        /\ \A k \in 1 .. Q : b[P + 1 + k] = h[k]
    BY AddedFirst, ConcatProperties
  <1>3. /\ DOMAIN a = 1 .. P + Q /\ DOMAIN b = 1 .. P + Q + 1
        /\ P \in Nat /\ Q \in Nat
    BY <1>1, <1>2
  <1>5. \A k \in DOMAIN b : m[k] = IF k <= P THEN k ELSE k - 1
    OBVIOUS
  <1> HIDE DEF a, b, m, P, Q
  <1>6. ASSUME NEW k \in DOMAIN b, b[k] \in AllCommands
        PROVE  m[k] \in DOMAIN a /\ a[m[k]] = b[k]
    <2>1. CASE k \in 1 .. P
      BY <1>1, <1>2, <1>3, <1>5, <2>1
    <2>2. CASE k \notin 1 .. P
      <3>1. k # P + 1
        BY <1>2, <1>6
      <3>2. k \in 1 .. P + Q + 1
        BY <1>3
      <3>3. PICK j \in 1 .. Q : k = P + 1 + j
        <4>1. k - (P + 1) \in 1 .. Q /\ k = P + 1 + (k - (P + 1))
          BY <1>0, <2>2, <3>1, <3>2
        <4> QED
          BY <4>1
      <3>4. m[k] = P + j /\ P + j \in 1 .. P + Q
        BY <1>0, <1>5, <3>3
      <3>5. b[k] = h[j] /\ a[P + j] = h[j]
        BY <1>1, <1>2, <3>3
      <3> QED
        BY <1>3, <3>4, <3>5
    <2> QED
      BY <2>1, <2>2
  <1>7. \A k, l \in DOMAIN b :
          b[k] \in AllCommands /\ b[l] \in AllCommands /\ k < l => m[k] < m[l]
    <2>1. \A k \in DOMAIN b : b[k] \in AllCommands => k # P + 1
      BY <1>2
    <2> QED
      BY <1>3, <1>5, <2>1
  <1>8. ASSUME NEW k \in DOMAIN a, a[k] \in AllCommands
        PROVE  \E l \in DOMAIN b : m[l] = k /\ b[l] = a[k]
    <2>0. k \in 1 .. P + Q
      BY <1>3
    <2>1. CASE k \in 1 .. P
      <3>1. k \in DOMAIN b /\ k <= P
        BY <1>3, <2>0, <2>1
      <3>2. m[k] = k /\ b[k] = a[k]
        BY <1>1, <1>2, <1>5, <2>1, <3>1
      <3> QED
        BY <3>1, <3>2
    <2>2. CASE k \notin 1 .. P
      <3>1. /\ k - P \in 1 .. Q /\ P + 1 + (k - P) = k + 1 /\ P + (k - P) = k
            /\ k + 1 \in 1 .. P + Q + 1 /\ ~(k + 1 <= P) /\ (k + 1) - 1 = k
        BY <1>3, <2>0, <2>2
      <3>2. k + 1 \in DOMAIN b /\ m[k + 1] = k
        BY <1>3, <1>5, <3>1
      <3>3. b[k + 1] = h[k - P] /\ a[k] = h[k - P]
        BY <1>1, <1>2, <3>1
      <3> QED
        BY <3>2, <3>3
    <2> QED
      BY <2>1, <2>2
  <1>9. Matched(a, u)
    BY DEF a
  <1>10. Matched(b, u)
    BY <1>6, <1>7, <1>8, <1>9, SameRequests
  <1> QED
    BY <1>10 DEF b

LEMMA SomethingRemoved ==
  ASSUME NEW T, NEW g \in Seq(T), NEW h \in Seq(T), NEW x \in T, x \notin AllCommands,
         NEW S, NEW u \in Seq(S), Matched(g \o (<<x>> \o h), u)
  PROVE  Matched(g \o h, u)
  <1> DEFINE P == Len(g)
             Q == Len(h)
             a == g \o h
             b == g \o (<<x>> \o h)
             m == [k \in DOMAIN a |-> IF k <= P THEN k ELSE k + 1]
  <1>0. P \in Nat /\ Q \in Nat
    OBVIOUS
  <1>1. /\ a \in Seq(T) /\ Len(a) = P + Q
        /\ \A k \in 1 .. P : a[k] = g[k]
        /\ \A k \in 1 .. Q : a[P + k] = h[k]
    BY ConcatProperties
  <1>2. /\ b \in Seq(T) /\ Len(b) = P + Q + 1
        /\ \A k \in 1 .. P : b[k] = g[k]
        /\ b[P + 1] = x
        /\ \A k \in 1 .. Q : b[P + 1 + k] = h[k]
    BY AddedFirst, ConcatProperties
  <1>3. /\ DOMAIN a = 1 .. P + Q /\ DOMAIN b = 1 .. P + Q + 1
        /\ P \in Nat /\ Q \in Nat
    BY <1>1, <1>2
  <1>5. \A k \in DOMAIN a : m[k] = IF k <= P THEN k ELSE k + 1
    OBVIOUS
  <1> HIDE DEF a, b, m, P, Q
  <1>6. ASSUME NEW k \in DOMAIN a, a[k] \in AllCommands
        PROVE  m[k] \in DOMAIN b /\ b[m[k]] = a[k]
    <2>0. k \in 1 .. P + Q
      BY <1>3
    <2>1. CASE k \in 1 .. P
      BY <1>1, <1>2, <1>3, <1>5, <2>1
    <2>2. CASE k \notin 1 .. P
      <3>1. /\ k - P \in 1 .. Q /\ P + 1 + (k - P) = k + 1 /\ P + (k - P) = k
            /\ k + 1 \in DOMAIN b /\ m[k] = k + 1
        BY <1>3, <1>5, <2>0, <2>2
      <3>2. b[k + 1] = h[k - P] /\ a[k] = h[k - P]
        BY <1>1, <1>2, <3>1
      <3> QED
        BY <3>1, <3>2
    <2> QED
      BY <2>1, <2>2
  <1>7. \A k, l \in DOMAIN a :
          a[k] \in AllCommands /\ a[l] \in AllCommands /\ k < l => m[k] < m[l]
    BY <1>3, <1>5
  <1>8. ASSUME NEW k \in DOMAIN b, b[k] \in AllCommands
        PROVE  \E l \in DOMAIN a : m[l] = k /\ a[l] = b[k]
    <2>0. k \in 1 .. P + Q + 1
      BY <1>3
    <2>1. CASE k \in 1 .. P
      <3>1. k \in DOMAIN a /\ k <= P
        BY <1>3, <2>0, <2>1
      <3>2. m[k] = k /\ b[k] = a[k]
        BY <1>1, <1>2, <1>5, <2>1, <3>1
      <3> QED
        BY <3>1, <3>2
    <2>2. CASE k \notin 1 .. P
      <3>1. k # P + 1
        BY <1>2, <1>8
      <3>2. PICK j \in 1 .. Q : k = P + 1 + j
        <4>1. k - (P + 1) \in 1 .. Q /\ k = P + 1 + (k - (P + 1))
          BY <1>0, <2>0, <2>2, <3>1
        <4> QED
          BY <4>1
      <3>3. P + j \in DOMAIN a /\ m[P + j] = k
        <4>1. P + j \in 1 .. P + Q /\ ~(P + j <= P) /\ (P + j) + 1 = k
          BY <1>0, <3>2
        <4> QED
          BY <1>3, <1>5, <4>1
      <3>4. b[k] = h[j] /\ a[P + j] = h[j]
        BY <1>1, <1>2, <3>2
      <3> QED
        BY <3>3, <3>4
    <2> QED
      BY <2>1, <2>2
  <1>9. Matched(b, u)
    BY DEF b
  <1>10. Matched(a, u)
    BY <1>6, <1>7, <1>8, <1>9, SameRequests
  <1> QED
    BY <1>10 DEF a

\* The host sends one more request.
LEMMA RequestAdded ==
  ASSUME NEW T, NEW h \in Seq(T), NEW S, NEW u \in Seq(S), Matched(h, u),
         NEW c \in T \cap S, c \in AllCommands
  PROVE  Matched(Append(h, c), Append(u, c))
  <1>1. PICK place \in [DOMAIN h -> 0 .. Len(u)] :
          /\ \A k \in DOMAIN h : h[k] \in AllCommands => place[k] \in 1 .. Len(u)
          /\ \A k, l \in DOMAIN h :
               h[k] \in AllCommands /\ h[l] \in AllCommands /\ k < l => place[k] < place[l]
          /\ OnlyKnownCommands =>
               /\ \A k \in DOMAIN h : h[k] \in AllCommands => h[k] = u[place[k]]
               /\ \A i \in 1 .. Len(u) :
                    \E k \in DOMAIN h : h[k] \in AllCommands /\ place[k] = i
    BY DEF Matched
  <1> DEFINE n == Len(h)
             v == Len(u)
             a == Append(h, c)
             b == Append(u, c)
             p == [k \in 1 .. n + 1 |-> IF k <= n THEN place[k] ELSE v + 1]
  <1>2. /\ n \in Nat /\ v \in Nat /\ DOMAIN h = 1 .. n
        /\ Len(a) = n + 1 /\ DOMAIN a = 1 .. n + 1 /\ Len(b) = v + 1
        /\ \A k \in 1 .. n : a[k] = h[k]
        /\ a[n + 1] = c
        /\ \A i \in 1 .. v : b[i] = u[i]
        /\ b[v + 1] = c
    OBVIOUS
  <1>3. p \in [1 .. n + 1 -> 0 .. v + 1]
    BY <1>1, <1>2
  <1>4. p[n + 1] = v + 1 /\ \A k \in 1 .. n : p[k] = place[k] /\ k \in 1 .. n + 1
    BY <1>2
  <1> HIDE DEF n, v, a, b, p
  <1>5. \A k \in 1 .. n + 1 : k \in 1 .. n \/ k = n + 1
    BY <1>2
  <1>6. \A k \in 1 .. n + 1 : a[k] \in AllCommands => p[k] \in 1 .. v + 1
    <2>1. \A k \in 1 .. n : h[k] \in AllCommands => place[k] \in 1 .. v
      BY <1>1, <1>2 DEF v
    <2>2. v + 1 \in 1 .. v + 1 /\ 1 .. v \subseteq 1 .. v + 1
      BY <1>2
    <2> QED
      BY <1>2, <1>4, <1>5, <2>1, <2>2
  <1>7. \A k, l \in 1 .. n + 1 :
          a[k] \in AllCommands /\ a[l] \in AllCommands /\ k < l => p[k] < p[l]
    <2> SUFFICES ASSUME NEW k \in 1 .. n + 1, NEW l \in 1 .. n + 1, k < l,
                        a[k] \in AllCommands, a[l] \in AllCommands
                 PROVE  p[k] < p[l]
      OBVIOUS
    <2>1. k \in 1 .. n
      BY <1>2
    <2>2. p[k] = place[k] /\ h[k] \in AllCommands /\ place[k] \in 1 .. v
      BY <1>1, <1>2, <1>4, <2>1 DEF v
    <2>3. CASE l = n + 1
      BY <1>2, <1>4, <2>2, <2>3
    <2>4. CASE l \in 1 .. n
      BY <1>1, <1>2, <1>4, <2>1, <2>2, <2>4
    <2> QED
      BY <1>5, <2>3, <2>4
  <1>8. ASSUME OnlyKnownCommands
        PROVE  /\ \A k \in 1 .. n + 1 : a[k] \in AllCommands => a[k] = b[p[k]]
               /\ \A i \in 1 .. v + 1 :
                    \E k \in 1 .. n + 1 : a[k] \in AllCommands /\ p[k] = i
    <2>1. \A k \in 1 .. n : h[k] \in AllCommands => h[k] = u[place[k]] /\ place[k] \in 1 .. v
      BY <1>1, <1>2, <1>8 DEF v
    <2>2. \A i \in 1 .. v : \E k \in 1 .. n : h[k] \in AllCommands /\ place[k] = i
      BY <1>1, <1>2, <1>8 DEF v
    <2>3. \A i \in 1 .. v + 1 : i \in 1 .. v \/ i = v + 1
      BY <1>2
    <2>4. n + 1 \in 1 .. n + 1
      BY <1>2
    <2>5. ASSUME NEW k \in 1 .. n + 1, a[k] \in AllCommands PROVE a[k] = b[p[k]]
      BY <1>2, <1>4, <1>5, <2>1, <2>5
    <2>6. ASSUME NEW i \in 1 .. v + 1
          PROVE  \E k \in 1 .. n + 1 : a[k] \in AllCommands /\ p[k] = i
      <3>1. CASE i = v + 1
        BY <1>2, <1>4, <2>4, <3>1
      <3>2. CASE i \in 1 .. v
        BY <1>2, <1>4, <2>2, <3>2
      <3> QED
        BY <2>3, <3>1, <3>2
    <2> QED
      BY <2>5, <2>6
  <1>9. DOMAIN a = 1 .. n + 1 /\ Len(b) = v + 1
    BY <1>2
  <1>10. p \in [DOMAIN a -> 0 .. Len(b)]
    BY <1>3, <1>9
  <1>11. /\ \A k \in DOMAIN a : a[k] \in AllCommands => p[k] \in 1 .. Len(b)
         /\ \A k, l \in DOMAIN a :
              a[k] \in AllCommands /\ a[l] \in AllCommands /\ k < l => p[k] < p[l]
    BY <1>6, <1>7, <1>9
  <1>12. OnlyKnownCommands =>
           /\ \A k \in DOMAIN a : a[k] \in AllCommands => a[k] = b[p[k]]
           /\ \A i \in 1 .. Len(b) :
                \E k \in DOMAIN a : a[k] \in AllCommands /\ p[k] = i
    BY <1>8, <1>9
  <1>13. Matched(a, b)
    BY <1>10, <1>11, <1>12, Zenon DEF Matched
  <1> QED
    BY <1>13 DEF a, b

\* A discarded request leaves no trace, but for the host that waits for it.
LEMMA RequestDiscarded ==
  ASSUME NEW T, NEW h \in Seq(T), NEW c \in T, NEW S, NEW u \in Seq(S),
         ~OnlyKnownCommands, Matched(<<c>> \o h, u)
  PROVE  Matched(h, u)
  <1> DEFINE n == Len(h)
             v == Len(u)
             a == <<c>> \o h
  <1>1. PICK place \in [DOMAIN a -> 0 .. v] :
          /\ \A k \in DOMAIN a : a[k] \in AllCommands => place[k] \in 1 .. v
          /\ \A k, l \in DOMAIN a :
               a[k] \in AllCommands /\ a[l] \in AllCommands /\ k < l => place[k] < place[l]
    BY DEF Matched
  <1>2. /\ n \in Nat /\ DOMAIN h = 1 .. n /\ DOMAIN a = 1 .. n + 1
        /\ \A k \in 1 .. n : a[k + 1] = h[k]
    BY AddedFirst
  <1> DEFINE p == [k \in DOMAIN h |-> place[k + 1]]
  <1> HIDE DEF n, a, v
  <1>3. \A k \in 1 .. n : k + 1 \in 1 .. n + 1
    BY <1>2
  <1>4. p \in [DOMAIN h -> 0 .. v]
    BY <1>1, <1>2, <1>3
  <1>5. \A k \in DOMAIN h : p[k] = place[k + 1]
    OBVIOUS
  <1> HIDE DEF p
  <1>6. \A k \in DOMAIN h : h[k] \in AllCommands => p[k] \in 1 .. v
    BY <1>1, <1>2, <1>3, <1>5
  <1>7. \A k, l \in DOMAIN h :
          h[k] \in AllCommands /\ h[l] \in AllCommands /\ k < l => p[k] < p[l]
    <2> SUFFICES ASSUME NEW k \in 1 .. n, NEW l \in 1 .. n, k < l,
                        h[k] \in AllCommands, h[l] \in AllCommands
                 PROVE  p[k] < p[l]
      BY <1>2
    <2>1. k + 1 < l + 1
      BY <1>2
    <2> QED
      BY <1>1, <1>2, <1>3, <1>5, <2>1
  <1> QED
    BY <1>4, <1>6, <1>7 DEF Matched, v

\* The first request is answered: it is the one the host has waited for longest.
LEMMA FirstAnswered ==
  ASSUME NEW T, NEW h \in Seq(T), NEW c \in T, c \in AllCommands, NEW S, NEW u \in Seq(S),
         Matched(<<c>> \o h, u)
  PROVE  u # <<>> /\ Matched(h, Tail(u))
  <1> DEFINE n == Len(h)
             v == Len(u)
             a == <<c>> \o h
             b == Tail(u)
  <1>1. PICK place \in [DOMAIN a -> 0 .. v] :
          /\ \A k \in DOMAIN a : a[k] \in AllCommands => place[k] \in 1 .. v
          /\ \A k, l \in DOMAIN a :
               a[k] \in AllCommands /\ a[l] \in AllCommands /\ k < l => place[k] < place[l]
          /\ OnlyKnownCommands =>
               /\ \A k \in DOMAIN a : a[k] \in AllCommands => a[k] = u[place[k]]
               /\ \A i \in 1 .. v :
                    \E k \in DOMAIN a : a[k] \in AllCommands /\ place[k] = i
    BY DEF Matched
  <1>2. /\ n \in Nat /\ v \in Nat /\ DOMAIN h = 1 .. n /\ DOMAIN a = 1 .. n + 1
        /\ a[1] = c
        /\ \A k \in 1 .. n : a[k + 1] = h[k]
    BY AddedFirst
  <1>3. 1 \in DOMAIN a /\ place[1] \in 1 .. v
    BY <1>1, <1>2
  <1>4. v >= 1 /\ u # <<>>
    BY <1>2, <1>3
  <1>5. Len(b) = v - 1 /\ \A i \in 1 .. v - 1 : b[i] = u[i + 1]
    BY <1>4
  <1> DEFINE p == [k \in DOMAIN h |-> IF h[k] \in AllCommands THEN place[k + 1] - 1 ELSE 0]
  <1> HIDE DEF n, v, a, b
  <1>6. \A k \in 1 .. n : k + 1 \in 1 .. n + 1 /\ 1 < k + 1
    BY <1>2
  <1>7. \A k \in 1 .. n : h[k] \in AllCommands =>
          place[k + 1] \in 1 .. v /\ place[1] < place[k + 1]
    BY <1>1, <1>2, <1>3, <1>6
  <1>8. \A k \in 1 .. n : h[k] \in AllCommands => place[k + 1] - 1 \in 1 .. v - 1
    <2>1. \A x, y \in 1 .. v : x < y => y - 1 \in 1 .. v - 1
      BY <1>2
    <2> QED
      BY <1>3, <1>7, <2>1
  <1>9. p \in [DOMAIN h -> 0 .. Len(b)]
    <2>1. 0 \in 0 .. v - 1 /\ 1 .. v - 1 \subseteq 0 .. v - 1
      BY <1>2, <1>4
    <2>2. \A k \in 1 .. n :
            (IF h[k] \in AllCommands THEN place[k + 1] - 1 ELSE 0) \in 0 .. v - 1
      BY <1>8, <2>1
    <2> QED
      BY <1>2, <1>5, <2>2
  <1>10. \A k \in DOMAIN h : h[k] \in AllCommands => p[k] = place[k + 1] - 1
    OBVIOUS
  <1> HIDE DEF p
  <1>11. \A k \in DOMAIN h : h[k] \in AllCommands => p[k] \in 1 .. Len(b)
    BY <1>2, <1>5, <1>8, <1>10
  <1>12. \A k, l \in DOMAIN h :
           h[k] \in AllCommands /\ h[l] \in AllCommands /\ k < l => p[k] < p[l]
    <2> SUFFICES ASSUME NEW k \in 1 .. n, NEW l \in 1 .. n, k < l,
                        h[k] \in AllCommands, h[l] \in AllCommands
                 PROVE  p[k] < p[l]
      BY <1>2
    <2>1. k + 1 < l + 1
      BY <1>2
    <2>2. place[k + 1] < place[l + 1]
      BY <1>1, <1>2, <1>6, <2>1
    <2>3. place[k + 1] \in 1 .. v /\ place[l + 1] \in 1 .. v
      BY <1>7
    <2>4. place[k + 1] - 1 < place[l + 1] - 1
      BY <1>2, <2>2, <2>3
    <2> QED
      BY <1>2, <1>10, <2>4
  <1>13. ASSUME OnlyKnownCommands
         PROVE  /\ \A k \in DOMAIN h : h[k] \in AllCommands => h[k] = b[p[k]]
                /\ \A i \in 1 .. Len(b) :
                     \E k \in DOMAIN h : h[k] \in AllCommands /\ p[k] = i
    <2>1. ASSUME NEW k \in 1 .. n, h[k] \in AllCommands PROVE h[k] = b[p[k]]
      <3>1. h[k] = u[place[k + 1]]
        BY <1>1, <1>2, <1>6, <1>13, <2>1
      <3>2. p[k] = place[k + 1] - 1 /\ p[k] \in 1 .. v - 1
        BY <1>2, <1>8, <1>10, <2>1
      <3>3. place[k + 1] = p[k] + 1
        BY <1>2, <1>7, <2>1, <3>2
      <3> QED
        BY <1>5, <3>1, <3>2, <3>3
    <2>2. ASSUME NEW i \in 1 .. v - 1
          PROVE  \E k \in 1 .. n : h[k] \in AllCommands /\ p[k] = i
      <3>1. i + 1 \in 1 .. v
        BY <1>2
      <3>2. PICK k \in 1 .. n + 1 : a[k] \in AllCommands /\ place[k] = i + 1
        BY <1>1, <1>2, <1>13, <3>1
      <3>3. k # 1
        <4> SUFFICES ASSUME k = 1 PROVE FALSE
          OBVIOUS
        <4>1. 1 \in 1 .. v /\ place[1] > 1
          BY <1>2, <1>3, <3>1, <3>2
        <4>2. PICK l \in 1 .. n + 1 : a[l] \in AllCommands /\ place[l] = 1
          BY <1>1, <1>2, <1>13, <4>1
        <4>3. 1 < l
          BY <1>2, <4>1, <4>2
        <4>4. place[1] < place[l]
          BY <1>1, <1>2, <1>3, <4>2, <4>3
        <4> QED
          BY <1>2, <1>3, <4>1, <4>2, <4>4
      <3>4. k - 1 \in 1 .. n /\ (k - 1) + 1 = k
        BY <1>2, <3>3
      <3>5. h[k - 1] = a[k]
        BY <1>2, <3>4
      <3>6. p[k - 1] = (i + 1) - 1
        BY <1>2, <1>10, <3>2, <3>4, <3>5
      <3> QED
        BY <1>2, <3>2, <3>4, <3>5, <3>6
    <2> QED
      BY <1>2, <1>5, <2>1, <2>2
  <1>14. Matched(h, b)
    BY <1>9, <1>11, <1>12, <1>13, Zenon DEF Matched
  <1> QED
    BY <1>4, <1>14 DEF b

\* Two requests make the host wait for two answers.
LEMMA TwoMatched ==
  ASSUME NEW T, NEW h \in Seq(T), NEW c \in AllCommands \cap T, NEW d \in AllCommands \cap T,
         NEW S, NEW u \in Seq(S), Matched(<<c>> \o (<<d>> \o h), u)
  PROVE  Len(u) > 1
  <1>1. <<d>> \o h \in Seq(T)
    BY AddedFirst
  <1>2. u # <<>> /\ Matched(<<d>> \o h, Tail(u))
    BY <1>1, FirstAnswered
  <1>3. Tail(u) \in Seq(S) /\ Len(Tail(u)) = Len(u) - 1
    BY <1>2
  <1>4. Tail(u) # <<>>
    BY <1>2, <1>3, FirstAnswered
  <1>5. Len(Tail(u)) \in Nat /\ Len(Tail(u)) # 0
    BY <1>3, <1>4
  <1> QED
    BY <1>3, <1>5

LEMMA NoneMatched == Matched(<<>>, <<>>)
  <1>1. DOMAIN <<>> = {} /\ Len(<<>>) = 0
    OBVIOUS
  <1> DEFINE p == [k \in DOMAIN <<>> |-> 0]
  <1>2. p \in [DOMAIN <<>> -> 0 .. Len(<<>>)]
    BY <1>1
  <1>3. \A i : i \notin DOMAIN <<>> /\ i \notin 1 .. Len(<<>>)
    BY <1>1
  <1> HIDE DEF p
  <1> QED
    BY <1>2, <1>3, Zenon DEF Matched

\* The same in front of the sequence.
LEMMA BlankFirst ==
  ASSUME NEW T, NEW h \in Seq(T), NEW x \in T, x \notin AllCommands,
         NEW S, NEW u \in Seq(S)
  PROVE  Matched(<<x>> \o h, u) <=> Matched(h, u)
  <1>1. <<>> \in Seq(T) /\ <<x>> \in Seq(T) /\ <<x>> \o h \in Seq(T)
    BY AddedFirst
  <1>2. <<>> \o h = h /\ <<>> \o (<<x>> \o h) = <<x>> \o h
    BY <1>1, ConcatEmptySeq
  <1>3. Matched(h, u) => Matched(<<x>> \o h, u)
    <2> SUFFICES ASSUME Matched(h, u) PROVE Matched(<<x>> \o h, u)
      OBVIOUS
    <2>1. Matched(<<>> \o h, u)
      BY <1>2
    <2>2. Matched(<<>> \o (<<x>> \o h), u)
      BY <1>1, <2>1, SomethingAdded
    <2> QED
      BY <1>2, <2>2
  <1>4. Matched(<<x>> \o h, u) => Matched(h, u)
    <2> SUFFICES ASSUME Matched(<<x>> \o h, u) PROVE Matched(h, u)
      OBVIOUS
    <2>1. Matched(<<>> \o (<<x>> \o h), u)
      BY <1>2
    <2>2. Matched(<<>> \o h, u)
      BY <1>1, <2>1, SomethingRemoved
    <2> QED
      BY <1>2, <2>2
  <1> QED
    BY <1>3, <1>4

-----------------------------------------------------------------------------
(***************************************************************************)
(* What the nub holds.                                                     *)
(***************************************************************************)

\* A request is in the hands of the dispatcher.
InHandler == pc = "dispatch" /\ event.type = "request"

\* What a buffer or a packet can be.
Thing == Sent \cup {Blank}

Value(e, c) == IF e.type = "request" THEN c[e.buf] ELSE Blank

\* Queued, as a function of the queue and the buffers.
Pile(q, c) == [i \in DOMAIN q |-> Value(q[i], c)]

LEMMA HeldNow ==
  Held = (IF InHandler THEN <<content[event.buf]>> ELSE <<>>) \o Pile(queue, content) \o wire
  BY Zenon DEF Held, InHandler, InHand, Queued, Pile, Value

LEMMA HeldNext ==
  Held' = (IF InHandler' THEN <<content'[event'.buf]>> ELSE <<>>)
          \o Pile(queue', content') \o wire'
  BY Zenon DEF Held, InHandler, InHand, Queued, Pile, Value

LEMMA Piles ==
  ASSUME NEW c
  PROVE  /\ Pile(<<>>, c) = <<>>
         /\ \A e : Pile(<<e>>, c) = <<Value(e, c)>>
         /\ \A e, f : Pile(<<e, f>>, c) = <<Value(e, c), Value(f, c)>>
  <1>1. Pile(<<>>, c) = <<>>
    BY DEF Pile
  <1>2. ASSUME NEW e PROVE Pile(<<e>>, c) = <<Value(e, c)>>
    <2>1. DOMAIN <<e>> = {1} /\ <<e>>[1] = e
      OBVIOUS
    <2>2. Pile(<<e>>, c) = [i \in {1} |-> Value(e, c)]
      BY <2>1 DEF Pile
    <2> QED
      BY <2>2
  <1>3. ASSUME NEW e, NEW f PROVE Pile(<<e, f>>, c) = <<Value(e, c), Value(f, c)>>
    <2> DEFINE x == Value(e, c)
               y == Value(f, c)
    <2>1. DOMAIN <<e, f>> = 1 .. 2 /\ <<e, f>>[1] = e /\ <<e, f>>[2] = f
      OBVIOUS
    <2>2. Pile(<<e, f>>, c) = [i \in 1 .. 2 |-> IF i = 1 THEN x ELSE y]
      BY <2>1 DEF Pile
    <2> HIDE DEF x, y
    <2>3. [i \in 1 .. 2 |-> IF i = 1 THEN x ELSE y] = <<x, y>>
      OBVIOUS
    <2> QED
      BY <2>2, <2>3 DEF x, y
  <1> QED
    BY <1>1, <1>2, <1>3

\* Sequences of at most two elements before another sequence.
LEMMA BeforeOne ==
  ASSUME NEW T, NEW w \in Seq(T), NEW x \in T
  PROVE  /\ <<>> \o <<>> \o w = w
         /\ <<x>> \o <<>> \o w = <<x>> \o w
         /\ <<>> \o <<x>> \o w = <<x>> \o w
  <1>1. <<>> \in Seq(T) /\ <<x>> \in Seq(T)
    OBVIOUS
  <1>2. \A s \in Seq(T) : <<>> \o s = s /\ s \o <<>> = s
    BY ConcatEmptySeq
  <1>3. <<>> \o <<>> = <<>> /\ <<x>> \o <<>> = <<x>> /\ <<>> \o <<x>> = <<x>> /\ <<>> \o w = w
    BY <1>1, <1>2
  <1> QED
    BY <1>3

LEMMA BeforeTwo ==
  ASSUME NEW T, NEW w \in Seq(T), NEW x \in T, NEW y \in T
  PROVE  <<>> \o <<x, y>> \o w = <<x>> \o (<<y>> \o w)
  <1>1. <<x>> \in Seq(T) /\ <<y>> \in Seq(T) /\ <<x, y>> \in Seq(T)
    OBVIOUS
  <1>2. <<>> \o <<x, y>> = <<x, y>>
    BY <1>1, ConcatEmptySeq
  <1>3. <<x>> \o <<y>> = <<x, y>>
    <2>1. <<x>> \o <<y>> \in Seq(T) /\ Len(<<x>> \o <<y>>) = 2 /\ Len(<<x, y>>) = 2
      BY <1>1, ConcatProperties
    <2>2. \A i \in 1 .. 2 : (<<x>> \o <<y>>)[i] = <<x, y>>[i]
      BY <1>1
    <2> QED
      BY <1>1, <2>1, <2>2, SeqEqual
  <1>4. (<<x>> \o <<y>>) \o w = <<x>> \o (<<y>> \o w)
    BY <1>1, ConcatAssociative
  <1> QED
    BY <1>2, <1>3, <1>4

\* No command is a reply (msgcmd.h numbers them apart).
LEMMA Apart ==
  /\ Commands \cap Replies = {} /\ Commands \subseteq AllCommands
  /\ Blank \notin AllCommands /\ AllCommands \cap Replies = {}
  BY ConstantsAssumption DEF AllCommands, Replies, Blank

\* What the events and the buffers hold.
LEMMA HoldThings ==
  ASSUME NubInv
  PROVE  /\ content \in [Buffers -> Thing]
         /\ event.type = "request" => event.buf \in Buffers /\ content[event.buf] \in Thing
         /\ \A e : WellFormed(e) => Value(e, content) \in Thing
  <1>1. content \in [Buffers -> Thing]
    BY DEF NubInv, DataInv, Thing
  <1>2. ASSUME NEW e, WellFormed(e), e.type = "request" PROVE e.buf \in Buffers
    BY <1>2 DEF WellFormed, EventRecord
  <1>3. event.type = "request" => event.buf \in Buffers /\ content[event.buf] \in Thing
    BY <1>1, <1>2 DEF NubInv, EventInv
  <1>4. ASSUME NEW e, WellFormed(e) PROVE Value(e, content) \in Thing
    BY <1>1, <1>2, <1>4 DEF Value, Thing
  <1> QED
    BY <1>1, <1>3, <1>4

LEMMA WireHoldsThings ==
  ASSUME RequestInv
  PROVE  /\ wire \in Seq(Thing)
         /\ wire # <<>> => /\ Head(wire) \in Sent
                           /\ Tail(wire) \in Seq(Thing) /\ Tail(wire) \in Seq(Sent)
                           /\ wire = <<Head(wire)>> \o Tail(wire)
  <1>1. wire \in Seq(Sent) /\ wire \in Seq(Thing)
    BY DEF RequestInv, Thing
  <1>2. ASSUME wire # <<>>
        PROVE  /\ Head(wire) \in Sent
               /\ Tail(wire) \in Seq(Thing) /\ Tail(wire) \in Seq(Sent)
               /\ wire = <<Head(wire)>> \o Tail(wire)
    <2>1. Head(wire) \in Sent /\ Tail(wire) \in Seq(Sent)
      BY <1>1, <1>2
    <2>2. Tail(wire) \in Seq(Thing)
      BY <1>1, <1>2
    <2>3. wire = <<Head(wire)>> \o Tail(wire)
      BY <1>1, <1>2
    <2> QED
      BY <2>1, <2>2, <2>3
  <1> QED
    BY <1>1, <1>2

\* What the nub holds: a request in hand, the events queued, and the packets on
\* the wire.
LEMMA OneInHand ==
  ASSUME NubInv, RequestInv, InHandler
  PROVE  Held = <<content[event.buf]>> \o wire
  <1>1. event.type = "request" /\ queue = <<>>
    BY DEF InHandler, NubInv, QueueInv
  <1> DEFINE x == content[event.buf]
  <1>2. wire \in Seq(Thing) /\ x \in Thing
    BY <1>1, HoldThings, WireHoldsThings
  <1>3. Held = <<x>> \o <<>> \o wire
    BY <1>1, HeldNow, Piles
  <1> HIDE DEF x
  <1>4. Held = <<x>> \o wire
    BY <1>2, <1>3, BeforeOne
  <1> QED
    BY <1>4 DEF x

LEMMA NoneQueued ==
  ASSUME NubInv, RequestInv, ~InHandler, queue = <<>>
  PROVE  Held = wire
  <1>1. Held = <<>> \o <<>> \o wire
    BY HeldNow, Piles
  <1>2. wire \in Seq(Thing) /\ Blank \in Thing
    BY WireHoldsThings DEF Thing
  <1> QED
    BY <1>1, <1>2, BeforeOne

LEMMA OneQueued ==
  ASSUME NubInv, RequestInv, ~InHandler, NEW e, queue = <<e>>, WellFormed(e)
  PROVE  Held = <<Value(e, content)>> \o wire
  <1> DEFINE x == Value(e, content)
  <1>1. wire \in Seq(Thing) /\ x \in Thing
    BY HoldThings, WireHoldsThings
  <1>2. Held = <<>> \o <<x>> \o wire
    BY HeldNow, Piles
  <1> HIDE DEF x
  <1>3. Held = <<x>> \o wire
    BY <1>1, <1>2, BeforeOne
  <1> QED
    BY <1>3 DEF x

LEMMA TwoQueued ==
  ASSUME NubInv, RequestInv, ~InHandler, NEW e, NEW f, queue = <<e, f>>,
         WellFormed(e), WellFormed(f)
  PROVE  Held = <<Value(e, content)>> \o (<<Value(f, content)>> \o wire)
  <1> DEFINE x == Value(e, content)
             y == Value(f, content)
  <1>1. wire \in Seq(Thing) /\ x \in Thing /\ y \in Thing
    BY HoldThings, WireHoldsThings
  <1>2. Held = <<>> \o <<x, y>> \o wire
    BY HeldNow, Piles
  <1> HIDE DEF x, y
  <1>3. <<>> \o <<x, y>> \o wire = <<x>> \o (<<y>> \o wire)
    BY <1>1, BeforeTwo
  <1>4. Held = <<x>> \o (<<y>> \o wire)
    BY <1>2, <1>3, Zenon
  <1> QED
    BY <1>4 DEF x, y

\* The same of the next state.
LEMMA NoneQueuedNext ==
  ASSUME ~InHandler', queue' = <<>>, wire' \in Seq(Thing)
  PROVE  Held' = wire'
  <1>1. Held' = <<>> \o <<>> \o wire'
    BY HeldNext, Piles
  <1>2. Blank \in Thing
    BY DEF Thing
  <1> QED
    BY <1>1, <1>2, BeforeOne

LEMMA OneQueuedNext ==
  ASSUME ~InHandler', NEW e, queue' = <<e>>, Value(e, content') \in Thing, wire' \in Seq(Thing)
  PROVE  Held' = <<Value(e, content')>> \o wire'
  <1> DEFINE x == Value(e, content')
  <1>1. Held' = <<>> \o <<x>> \o wire'
    BY HeldNext, Piles
  <1>2. x \in Thing
    OBVIOUS
  <1> HIDE DEF x
  <1>3. Held' = <<x>> \o wire'
    BY <1>1, <1>2, BeforeOne
  <1> QED
    BY <1>3 DEF x

LEMMA TwoQueuedNext ==
  ASSUME ~InHandler', NEW e, NEW f, queue' = <<e, f>>, Value(e, content') \in Thing,
         Value(f, content') \in Thing, wire' \in Seq(Thing)
  PROVE  Held' = <<Value(e, content')>> \o (<<Value(f, content')>> \o wire')
  <1> DEFINE x == Value(e, content')
             y == Value(f, content')
  <1>1. Held' = <<>> \o <<x, y>> \o wire'
    BY HeldNext, Piles
  <1>2. x \in Thing /\ y \in Thing
    OBVIOUS
  <1> HIDE DEF x, y
  <1>3. <<>> \o <<x, y>> \o wire' = <<x>> \o (<<y>> \o wire')
    BY <1>2, BeforeTwo
  <1>4. Held' = <<x>> \o (<<y>> \o wire')
    BY <1>1, <1>3, Zenon
  <1> QED
    BY <1>4 DEF x, y

\* Two queued requests are those of a host that does not wait.
LEMMA OneRequestOnly ==
  ASSUME NubInv, RequestInv, pc = "wait", MaxOutstanding = 1
  PROVE  SecondBuffer = NoBuffer
  <1> SUFFICES ASSUME SecondBuffer # NoBuffer PROVE FALSE
    OBVIOUS
  <1>1. PICK d \in EventRecord, e \in EventRecord :
          /\ queue = <<d, e>> /\ WellFormed(d) /\ WellFormed(e)
          /\ d.type = "request" /\ e.type = "request"
    BY Tuples DEF NubInv, QueueInv, SecondBuffer
  <1>2. QueueBuffer = d.buf /\ SecondBuffer = e.buf /\ d.buf # NoBuffer
    BY <1>1, Tuples DEF QueueBuffer, SecondBuffer, WellFormed
  <1>3. content[d.buf] \in Commands /\ content[e.buf] \in Commands
    BY <1>2 DEF RequestInv
  <1>4. Held = <<content[d.buf]>> \o (<<content[e.buf]>> \o wire)
    BY <1>1, TwoQueued DEF InHandler, Value
  <1>5. Matched(Held, unanswered)
    BY DEF RequestInv, Halted
  <1>6. wire \in Seq(Thing) /\ Commands \subseteq AllCommands \cap Thing
    BY WireHoldsThings, Apart DEF Thing, Sent
  <1> DEFINE x == content[d.buf]
             y == content[e.buf]
  <1>7. Matched(<<x>> \o (<<y>> \o wire), unanswered)
    BY <1>4, <1>5
  <1>8. x \in AllCommands \cap Thing /\ y \in AllCommands \cap Thing
    BY <1>3, <1>6
  <1>9. unanswered \in Seq(Commands) /\ Len(unanswered) <= 1
    BY DEF RequestInv
  <1> HIDE DEF x, y
  <1>10. Len(unanswered) > 1
    BY <1>6, <1>7, <1>8, <1>9, TwoMatched
  <1> QED
    BY <1>9, <1>10

\* With two requests queued the nub has no buffer for another packet: it has
\* three, or the host would not have sent the second of them.
LEMMA TwoFill ==
  ASSUME QueueSuffices, NubInv, RequestInv, pc = "wait", SecondBuffer # NoBuffer
  PROVE  PoolEmpty
  <1>1. NumBuffers <= 3
    BY OneRequestOnly DEF QueueSuffices
  <1>2. PICK d \in EventRecord, e \in EventRecord :
          /\ queue = <<d, e>> /\ WellFormed(d) /\ WellFormed(e)
          /\ d.type = "request" /\ e.type = "request"
    BY Tuples DEF NubInv, QueueInv, SecondBuffer
  <1>3. QueueBuffer = d.buf /\ SecondBuffer = e.buf /\ d.buf # NoBuffer
    BY <1>2, Tuples DEF QueueBuffer, SecondBuffer, WellFormed
  <1> DEFINE x == QueueBuffer
             y == SecondBuffer
             z == sendBuf
  <1>4. x \in Buffers /\ y \in Buffers /\ z \in Buffers
    BY <1>2, <1>3 DEF WellFormed, EventRecord, NubInv, SendInv
  <1>5. x # y /\ x # z /\ y # z
    BY <1>3 DEF NubInv, BufferInv
  <1>6. x \in used /\ y \in used /\ z \in used
    BY <1>3, <1>4, ConstantsAssumption DEF NubInv, BufferInv
  <1> HIDE DEF x, y, z
  <1>7. \A b \in Buffers : b = x \/ b = y \/ b = z
    BY <1>1, <1>4, <1>5, ConstantsAssumption
  <1> QED
    BY <1>6, <1>7 DEF PoolEmpty

\* There is room in the queue for a request that comes during a wait.
LEMMA RoomInQueue ==
  ASSUME QueueSuffices, NubInv, RequestInv, pc = "wait",
         InputPending, ~PoolEmpty, Head(wire) \in Commands
  PROVE  \/ queue = <<>>
         \/ /\ QueueLength >= 2
            /\ \E d \in EventRecord : queue = <<d>> /\ WellFormed(d) /\ d.type = "request"
  <1>1. SecondBuffer = NoBuffer
    BY TwoFill
  <1>2. \/ queue = <<>>
        \/ \E d \in EventRecord : queue = <<d>> /\ WellFormed(d) /\ d.type = "request"
    <2>1. CASE \E d, e \in EventRecord : queue = <<d, e>> /\ WellFormed(e) /\ e.type = "request"
      BY <1>1, <2>1, Tuples DEF SecondBuffer, WellFormed
    <2> QED
      BY <2>1 DEF NubInv, QueueInv
  <1>3. ASSUME MaxOutstanding = 1, NEW d \in EventRecord, queue = <<d>>, WellFormed(d),
               d.type = "request"
        PROVE  FALSE
    <2>1. QueueBuffer = d.buf /\ d.buf # NoBuffer
      BY <1>3, Tuples DEF QueueBuffer, WellFormed
    <2>2. content[d.buf] \in Commands
      BY <2>1 DEF RequestInv
    <2> DEFINE x == content[d.buf]
               y == Head(wire)
               w == Tail(wire)
    <2>3. wire = <<y>> \o w /\ w \in Seq(Thing)
      BY WireHoldsThings DEF InputPending
    <2>4. Held = <<x>> \o wire
      BY <1>3, OneQueued DEF InHandler, Value
    <2>5. Matched(<<x>> \o (<<y>> \o w), unanswered)
      BY <2>3, <2>4, Zenon DEF RequestInv, Halted
    <2>6. x \in AllCommands \cap Thing /\ y \in AllCommands \cap Thing
      BY <2>2, Apart DEF Thing, Sent
    <2>7. unanswered \in Seq(Commands) /\ Len(unanswered) <= 1
      BY <1>3 DEF RequestInv
    <2> HIDE DEF x, y, w
    <2>8. Len(unanswered) > 1
      BY <2>3, <2>5, <2>6, <2>7, TwoMatched
    <2> QED
      BY <2>7, <2>8
  <1> QED
    BY <1>2, <1>3 DEF QueueSuffices

-----------------------------------------------------------------------------
(***************************************************************************)
(* The start of the nub.                                                   *)
(***************************************************************************)

\* The invariant holds of a nub that was just initialised.
LEMMA InitKeeps == Init => NubInv
  <1> SUFFICES ASSUME Init PROVE NubInv
    OBVIOUS
  <1> USE DEF Init
  <1>1. DataInv
    BY ConstantsAssumption DEF DataInv, Running, Halted
  <1>2. QueueInv /\ EventInv
    BY DEF QueueInv, EventInv, WellFormed, EventRecord
  <1>3. SendInv /\ BufferInv
    BY DEF SendInv, BufferInv, QueueBuffer, SecondBuffer
  <1>4. SwitchInv /\ TargetInv /\ FaultInv
    BY DEF SwitchInv, TargetInv, FaultInv
  <1> QED
    BY <1>1, <1>2, <1>3, <1>4 DEF NubInv

-----------------------------------------------------------------------------
(***************************************************************************)
(* The main loop.                                                          *)
(***************************************************************************)

LEMMA Keeps_TRKGetNextEvent == NubInv /\ TRKGetNextEvent => NubInv'
  <1> SUFFICES ASSUME NubInv, TRKGetNextEvent PROVE NubInv'
    OBVIOUS
  <1> USE DEF NubInv, TRKGetNextEvent, loopVars, bufVars, sendVars,
              targetVars, switchVars, hostVars
  <1>1. DataInv'
    BY ConstantsAssumption
       DEF DataInv, Running, Halted
  <1>2. QueueInv' /\ EventInv'
    BY Tuples, ConstantsAssumption
       DEF QueueInv, EventInv, WellFormed, EventRecord
  <1>3. SendInv' /\ BufferInv'
    BY Tuples, ConstantsAssumption
       DEF SendInv, BufferInv, QueueInv, EventInv, QueueBuffer, SecondBuffer,
           WellFormed, EventRecord
  <1>4. SwitchInv' /\ TargetInv' /\ FaultInv'
    BY Tuples, ConstantsAssumption
       DEF SwitchInv, TargetInv, FaultInv, QueueInv, EventInv, Faulty, Reports
  <1> QED
    BY <1>1, <1>2, <1>3, <1>4

LEMMA Keeps_TRKGetInput_Empty == NubInv /\ TRKGetInput_Empty => NubInv'
  <1> SUFFICES ASSUME NubInv, TRKGetInput_Empty PROVE NubInv'
    OBVIOUS
  <1> USE DEF NubInv, TRKGetInput_Empty, LoopPolls, loopVars, bufVars,
              sendVars, targetVars, switchVars, hostVars
  <1>1. DataInv'
    BY ConstantsAssumption
       DEF DataInv, Running, Halted
  <1>2. QueueInv' /\ EventInv'
    BY Tuples, ConstantsAssumption
       DEF QueueInv, EventInv, WellFormed, EventRecord
  <1>3. SendInv' /\ BufferInv'
    BY Tuples, ConstantsAssumption
       DEF SendInv, BufferInv, QueueInv, EventInv, QueueBuffer, SecondBuffer,
           WellFormed, EventRecord
  <1>4. SwitchInv' /\ TargetInv' /\ FaultInv'
    BY Tuples, ConstantsAssumption
       DEF SwitchInv, TargetInv, FaultInv, QueueInv, EventInv, Faulty, Reports
  <1> QED
    BY <1>1, <1>2, <1>3, <1>4

LEMMA Keeps_TRK_Idle_Stopped == NubInv /\ TRK_Idle_Stopped => NubInv'
  <1> SUFFICES ASSUME NubInv, TRK_Idle_Stopped PROVE NubInv'
    OBVIOUS
  <1> USE DEF NubInv, TRK_Idle_Stopped, LoopIsIdle, loopVars, bufVars,
              sendVars, targetVars, switchVars, hostVars
  <1>1. DataInv'
    BY ConstantsAssumption
       DEF DataInv, Running, Halted
  <1>2. QueueInv' /\ EventInv'
    BY Tuples, ConstantsAssumption
       DEF QueueInv, EventInv, WellFormed, EventRecord
  <1>3. SendInv' /\ BufferInv'
    BY Tuples, ConstantsAssumption
       DEF SendInv, BufferInv, QueueInv, EventInv, QueueBuffer, SecondBuffer,
           WellFormed, EventRecord
  <1>4. SwitchInv' /\ TargetInv' /\ FaultInv'
    BY Tuples, ConstantsAssumption
       DEF SwitchInv, TargetInv, FaultInv, QueueInv, EventInv, Faulty, Reports
  <1> QED
    BY <1>1, <1>2, <1>3, <1>4

LEMMA Keeps_TRK_Idle_Continue == NubInv /\ TRK_Idle_Continue => NubInv'
  <1> SUFFICES ASSUME NubInv, TRK_Idle_Continue PROVE NubInv'
    OBVIOUS
  <1> USE DEF NubInv, TRK_Idle_Continue, LoopIsIdle, TRKTargetContinue,
              loopVars, bufVars, sendVars, targetVars, switchVars, hostVars
  <1>1. DataInv'
    BY ConstantsAssumption
       DEF DataInv, Running, Halted
  <1>2. QueueInv' /\ EventInv'
    BY Tuples, ConstantsAssumption
       DEF QueueInv, EventInv, WellFormed, EventRecord
  <1>3. SendInv' /\ BufferInv'
    BY Tuples, ConstantsAssumption
       DEF SendInv, BufferInv, QueueInv, EventInv, QueueBuffer, SecondBuffer,
           WellFormed, EventRecord
  <1>4. SwitchInv' /\ TargetInv' /\ FaultInv'
    BY Tuples, ConstantsAssumption
       DEF SwitchInv, TargetInv, FaultInv, QueueInv, EventInv, Faulty, Reports
  <1> QED
    BY <1>1, <1>2, <1>3, <1>4

LEMMA Keeps_ShutdownEvent == NubInv /\ ShutdownEvent => NubInv'
  <1> SUFFICES ASSUME NubInv, ShutdownEvent PROVE NubInv'
    OBVIOUS
  <1> USE DEF NubInv, ShutdownEvent, TRK_ReleaseBuffer, loopVars, bufVars,
              sendVars, targetVars, switchVars, hostVars
  <1>1. DataInv'
    BY ConstantsAssumption
       DEF DataInv, Running, Halted
  <1>2. QueueInv' /\ EventInv'
    BY Tuples, ConstantsAssumption
       DEF QueueInv, EventInv, WellFormed, EventRecord
  <1>3. SendInv' /\ BufferInv'
    BY Tuples, ConstantsAssumption
       DEF SendInv, BufferInv, QueueInv, EventInv, QueueBuffer, SecondBuffer,
           WellFormed, EventRecord
  <1>4. SwitchInv' /\ TargetInv' /\ FaultInv'
    BY Tuples, ConstantsAssumption
       DEF SwitchInv, TargetInv, FaultInv, QueueInv, EventInv, Faulty, Reports
  <1> QED
    BY <1>1, <1>2, <1>3, <1>4

-----------------------------------------------------------------------------
(***************************************************************************)
(* The command handlers.                                                   *)
(***************************************************************************)

LEMMA Keeps_DoSimpleCommand == NubInv /\ DoSimpleCommand => NubInv'
  <1> SUFFICES ASSUME NubInv, DoSimpleCommand PROVE NubInv'
    OBVIOUS
  <1> USE DEF NubInv, DoSimpleCommand, Dispatching, TRKStandardACK,
              TRKDestructEvent, TRK_ReleaseBuffer, loopVars, bufVars,
              sendVars, targetVars, switchVars, hostVars
  <1>1. DataInv'
    BY ConstantsAssumption
       DEF DataInv, Running, Halted
  <1>2. QueueInv' /\ EventInv'
    BY Tuples, ConstantsAssumption
       DEF QueueInv, EventInv, WellFormed, EventRecord
  <1>3. SendInv' /\ BufferInv'
    BY Tuples, ConstantsAssumption
       DEF SendInv, BufferInv, QueueInv, EventInv, QueueBuffer, SecondBuffer,
           WellFormed, EventRecord
  <1>4. SwitchInv' /\ TargetInv' /\ FaultInv'
    BY Tuples, ConstantsAssumption
       DEF SwitchInv, TargetInv, FaultInv, QueueInv, EventInv, Faulty, Reports
  <1> QED
    BY <1>1, <1>2, <1>3, <1>4

LEMMA Keeps_DispatchUnknown == NubInv /\ DispatchUnknown => NubInv'
  <1> SUFFICES ASSUME NubInv, DispatchUnknown PROVE NubInv'
    OBVIOUS
  <1> USE DEF NubInv, DispatchUnknown, Dispatching, TRKDestructEvent,
              TRK_ReleaseBuffer, loopVars, bufVars, sendVars, targetVars,
              switchVars, hostVars
  <1>1. DataInv'
    BY ConstantsAssumption
       DEF DataInv, Running, Halted
  <1>2. QueueInv' /\ EventInv'
    BY Tuples, ConstantsAssumption
       DEF QueueInv, EventInv, WellFormed, EventRecord
  <1>3. SendInv' /\ BufferInv'
    BY Tuples, ConstantsAssumption
       DEF SendInv, BufferInv, QueueInv, EventInv, QueueBuffer, SecondBuffer,
           WellFormed, EventRecord
  <1>4. SwitchInv' /\ TargetInv' /\ FaultInv'
    BY Tuples, ConstantsAssumption
       DEF SwitchInv, TargetInv, FaultInv, QueueInv, EventInv, Faulty, Reports
  <1> QED
    BY <1>1, <1>2, <1>3, <1>4

LEMMA Keeps_TRKDoDisconnect == NubInv /\ TRKDoDisconnect => NubInv'
  <1> SUFFICES ASSUME NubInv, TRKDoDisconnect PROVE NubInv'
    OBVIOUS
  <1> USE DEF NubInv, TRKDoDisconnect, Dispatching, TRKStandardACK,
              TRKDestructEvent, TRK_ReleaseBuffer, TRKPostEvent, loopVars,
              bufVars, sendVars, targetVars, switchVars, hostVars
  <1>a. queue = <<>> /\ queue' = <<Event("shutdown", NoBuffer)>>
    BY Tuples, ConstantsAssumption DEF QueueInv
  <1>1. DataInv'
    BY DEF DataInv, Running, Halted
  <1>2. QueueInv' /\ EventInv'
    BY <1>a DEF QueueInv, EventInv, WellFormed, EventRecord
  <1>3. SendInv' /\ BufferInv'
    BY <1>a, Tuples DEF SendInv, BufferInv, EventInv, QueueBuffer, SecondBuffer,
           WellFormed, EventRecord
  <1>4. SwitchInv' /\ TargetInv' /\ FaultInv'
    BY <1>a, Tuples DEF SwitchInv, TargetInv, FaultInv, Faulty, Reports
  <1> QED
    BY <1>1, <1>2, <1>3, <1>4

LEMMA Keeps_TRKDoReset == NubInv /\ TRKDoReset => NubInv'
  <1> SUFFICES ASSUME NubInv, TRKDoReset PROVE NubInv'
    OBVIOUS
  <1> USE DEF NubInv, TRKDoReset, Dispatching, TRKStandardACK, loopVars,
              bufVars, sendVars, targetVars, switchVars, hostVars
  <1>1. DataInv'
    BY ConstantsAssumption
       DEF DataInv, Running, Halted
  <1>2. QueueInv' /\ EventInv'
    BY Tuples, ConstantsAssumption
       DEF QueueInv, EventInv, WellFormed, EventRecord
  <1>3. SendInv' /\ BufferInv'
    BY Tuples, ConstantsAssumption
       DEF SendInv, BufferInv, QueueInv, EventInv, QueueBuffer, SecondBuffer,
           WellFormed, EventRecord
  <1>4. SwitchInv' /\ TargetInv' /\ FaultInv'
    BY Tuples, ConstantsAssumption
       DEF SwitchInv, TargetInv, FaultInv, QueueInv, EventInv, Faulty, Reports
  <1> QED
    BY <1>1, <1>2, <1>3, <1>4

LEMMA Keeps_TRKDoContinue == NubInv /\ TRKDoContinue => NubInv'
  <1> SUFFICES ASSUME NubInv, TRKDoContinue PROVE NubInv'
    OBVIOUS
  <1> USE DEF NubInv, TRKDoContinue, Dispatching, TRKStandardACK,
              TRKTargetContinue, loopVars, bufVars, sendVars, targetVars,
              switchVars, hostVars
  <1>1. DataInv'
    BY ConstantsAssumption
       DEF DataInv, Running, Halted
  <1>2. QueueInv' /\ EventInv'
    BY Tuples, ConstantsAssumption
       DEF QueueInv, EventInv, WellFormed, EventRecord
  <1>3. SendInv' /\ BufferInv'
    BY Tuples, ConstantsAssumption
       DEF SendInv, BufferInv, QueueInv, EventInv, QueueBuffer, SecondBuffer,
           WellFormed, EventRecord
  <1>4. SwitchInv' /\ TargetInv' /\ FaultInv'
    BY Tuples, ConstantsAssumption
       DEF SwitchInv, TargetInv, FaultInv, QueueInv, EventInv, Faulty, Reports
  <1> QED
    BY <1>1, <1>2, <1>3, <1>4

LEMMA Keeps_RefuseNotStopped == NubInv /\ RefuseNotStopped => NubInv'
  <1> SUFFICES ASSUME NubInv, RefuseNotStopped PROVE NubInv'
    OBVIOUS
  <1> USE DEF NubInv, RefuseNotStopped, Dispatching, TRKStandardACK,
              TRKDestructEvent, TRK_ReleaseBuffer, loopVars, bufVars,
              sendVars, targetVars, switchVars, hostVars
  <1>1. DataInv'
    BY ConstantsAssumption
       DEF DataInv, Running, Halted
  <1>2. QueueInv' /\ EventInv'
    BY Tuples, ConstantsAssumption
       DEF QueueInv, EventInv, WellFormed, EventRecord
  <1>3. SendInv' /\ BufferInv'
    BY Tuples, ConstantsAssumption
       DEF SendInv, BufferInv, QueueInv, EventInv, QueueBuffer, SecondBuffer,
           WellFormed, EventRecord
  <1>4. SwitchInv' /\ TargetInv' /\ FaultInv'
    BY Tuples, ConstantsAssumption
       DEF SwitchInv, TargetInv, FaultInv, QueueInv, EventInv, Faulty, Reports
  <1> QED
    BY <1>1, <1>2, <1>3, <1>4

LEMMA Keeps_TRKDoStep == NubInv /\ TRKDoStep => NubInv'
  <1> SUFFICES ASSUME NubInv, TRKDoStep PROVE NubInv'
    OBVIOUS
  <1> USE DEF NubInv, TRKDoStep, Dispatching, TRKStandardACK,
              TRKDestructEvent, TRK_ReleaseBuffer, loopVars, bufVars,
              sendVars, targetVars, switchVars, hostVars
  <1>1. DataInv'
    BY ConstantsAssumption
       DEF DataInv, Running, Halted
  <1>2. QueueInv' /\ EventInv'
    BY Tuples, ConstantsAssumption
       DEF QueueInv, EventInv, WellFormed, EventRecord
  <1>3. SendInv' /\ BufferInv'
    BY Tuples, ConstantsAssumption
       DEF SendInv, BufferInv, QueueInv, EventInv, QueueBuffer, SecondBuffer,
           WellFormed, EventRecord
  <1>4. SwitchInv' /\ TargetInv' /\ FaultInv'
    BY Tuples, ConstantsAssumption
       DEF SwitchInv, TargetInv, FaultInv, QueueInv, EventInv, Faulty, Reports
  <1> QED
    BY <1>1, <1>2, <1>3, <1>4

LEMMA Keeps_TRKDoStepOver == NubInv /\ TRKDoStepOver => NubInv'
  <1> SUFFICES ASSUME NubInv, TRKDoStepOver PROVE NubInv'
    OBVIOUS
  <1> USE DEF NubInv, TRKDoStepOver, Dispatching, TRKStandardACK,
              TRKDestructEvent, TRK_ReleaseBuffer, loopVars, bufVars,
              sendVars, targetVars, switchVars, hostVars
  <1>1. DataInv'
    BY ConstantsAssumption
       DEF DataInv, Running, Halted
  <1>2. QueueInv' /\ EventInv'
    BY Tuples, ConstantsAssumption
       DEF QueueInv, EventInv, WellFormed, EventRecord
  <1>3. SendInv' /\ BufferInv'
    BY Tuples, ConstantsAssumption
       DEF SendInv, BufferInv, QueueInv, EventInv, QueueBuffer, SecondBuffer,
           WellFormed, EventRecord
  <1>4. SwitchInv' /\ TargetInv' /\ FaultInv'
    BY Tuples, ConstantsAssumption
       DEF SwitchInv, TargetInv, FaultInv, QueueInv, EventInv, Faulty, Reports
  <1> QED
    BY <1>1, <1>2, <1>3, <1>4

LEMMA Keeps_TRKDoStop == NubInv /\ TRKDoStop => NubInv'
  <1> SUFFICES ASSUME NubInv, TRKDoStop PROVE NubInv'
    OBVIOUS
  <1> USE DEF NubInv, TRKDoStop, Dispatching, TRKStandardACK,
              TRKDestructEvent, TRK_ReleaseBuffer, loopVars, bufVars,
              sendVars, targetVars, switchVars, hostVars
  <1>1. DataInv'
    BY ConstantsAssumption
       DEF DataInv, Running, Halted
  <1>2. QueueInv' /\ EventInv'
    BY Tuples, ConstantsAssumption
       DEF QueueInv, EventInv, WellFormed, EventRecord
  <1>3. SendInv' /\ BufferInv'
    BY Tuples, ConstantsAssumption
       DEF SendInv, BufferInv, QueueInv, EventInv, QueueBuffer, SecondBuffer,
           WellFormed, EventRecord
  <1>4. SwitchInv' /\ TargetInv' /\ FaultInv'
    BY Tuples, ConstantsAssumption
       DEF SwitchInv, TargetInv, FaultInv, QueueInv, EventInv, Faulty, Reports
  <1> QED
    BY <1>1, <1>2, <1>3, <1>4

-----------------------------------------------------------------------------
(***************************************************************************)
(* The events of the target that send nothing, and the end of a request.   *)
(***************************************************************************)

LEMMA Keeps_TRKTargetCheckStep_Again == NubInv /\ TRKTargetCheckStep_Again => NubInv'
  <1> SUFFICES ASSUME NubInv, TRKTargetCheckStep_Again PROVE NubInv'
    OBVIOUS
  <1> USE DEF NubInv, TRKTargetCheckStep_Again, AtTargetStop,
              TRKDestructEvent, TRK_ReleaseBuffer, loopVars, bufVars,
              sendVars, targetVars, switchVars, hostVars
  <1>1. DataInv'
    BY ConstantsAssumption
       DEF DataInv, Running, Halted
  <1>2. QueueInv' /\ EventInv'
    BY Tuples, ConstantsAssumption
       DEF QueueInv, EventInv, WellFormed, EventRecord
  <1>3. SendInv' /\ BufferInv'
    BY Tuples, ConstantsAssumption
       DEF SendInv, BufferInv, QueueInv, EventInv, QueueBuffer, SecondBuffer,
           WellFormed, EventRecord
  <1>4. SwitchInv' /\ TargetInv' /\ FaultInv'
    BY Tuples, ConstantsAssumption
       DEF SwitchInv, TargetInv, FaultInv, QueueInv, EventInv, Faulty, Reports
  <1> QED
    BY <1>1, <1>2, <1>3, <1>4

LEMMA Keeps_TRKTargetSupportRequest_Invalid == NubInv /\ TRKTargetSupportRequest_Invalid => NubInv'
  <1> SUFFICES ASSUME NubInv, TRKTargetSupportRequest_Invalid PROVE NubInv'
    OBVIOUS
  <1> USE DEF NubInv, TRKTargetSupportRequest_Invalid, AtSupport,
              TRKPostEvent, TRKDestructEvent, TRK_ReleaseBuffer, loopVars,
              bufVars, sendVars, targetVars, switchVars, hostVars
  <1>1. DataInv'
    BY ConstantsAssumption
       DEF DataInv, Running, Halted
  <1>2. QueueInv' /\ EventInv'
    BY Tuples, ConstantsAssumption
       DEF QueueInv, EventInv, WellFormed, EventRecord
  <1>3. SendInv' /\ BufferInv'
    BY Tuples, ConstantsAssumption
       DEF SendInv, BufferInv, QueueInv, EventInv, QueueBuffer, SecondBuffer,
           WellFormed, EventRecord
  <1>4. SwitchInv' /\ TargetInv' /\ FaultInv'
    BY Tuples, ConstantsAssumption
       DEF SwitchInv, TargetInv, FaultInv, QueueInv, EventInv, Faulty, Reports
  <1> QED
    BY <1>1, <1>2, <1>3, <1>4

LEMMA Keeps_TRKTargetSupportRequest_Empty == NubInv /\ TRKTargetSupportRequest_Empty => NubInv'
  <1> SUFFICES ASSUME NubInv, TRKTargetSupportRequest_Empty PROVE NubInv'
    OBVIOUS
  <1> USE DEF NubInv, TRKTargetSupportRequest_Empty, AtSupport,
              TRKDestructEvent, TRK_ReleaseBuffer, loopVars, bufVars,
              sendVars, targetVars, switchVars, hostVars
  <1>1. DataInv'
    BY ConstantsAssumption
       DEF DataInv, Running, Halted
  <1>2. QueueInv' /\ EventInv'
    BY Tuples, ConstantsAssumption
       DEF QueueInv, EventInv, WellFormed, EventRecord
  <1>3. SendInv' /\ BufferInv'
    BY Tuples, ConstantsAssumption
       DEF SendInv, BufferInv, QueueInv, EventInv, QueueBuffer, SecondBuffer,
           WellFormed, EventRecord
  <1>4. SwitchInv' /\ TargetInv' /\ FaultInv'
    BY Tuples, ConstantsAssumption
       DEF SwitchInv, TargetInv, FaultInv, QueueInv, EventInv, Faulty, Reports
  <1> QED
    BY <1>1, <1>2, <1>3, <1>4

LEMMA Keeps_RequestDone == NubInv /\ RequestDone => NubInv'
  <1> SUFFICES ASSUME NubInv, RequestDone PROVE NubInv'
    OBVIOUS
  <1> USE DEF NubInv, RequestDone, TRKDestructEvent, TRK_ReleaseBuffer,
              loopVars, bufVars, sendVars, targetVars, switchVars, hostVars
  <1>a. chunks' \in 0 .. MaxChunks
    BY ConstantsAssumption
  <1>b. used' \subseteq used
    OBVIOUS
  <1>1. DataInv'
    BY <1>a, <1>b DEF DataInv, Running, Halted
  <1>2. QueueInv' /\ EventInv'
    BY ConstantsAssumption DEF QueueInv, EventInv, WellFormed, EventRecord
  <1>3. SendInv' /\ BufferInv'
    BY Tuples, ConstantsAssumption
       DEF SendInv, BufferInv, QueueInv, EventInv, QueueBuffer, SecondBuffer,
           WellFormed, EventRecord
  <1>4. SwitchInv' /\ TargetInv' /\ FaultInv'
    BY Tuples DEF SwitchInv, TargetInv, FaultInv, QueueInv, EventInv, Faulty,
           Reports
  <1> QED
    BY <1>1, <1>2, <1>3, <1>4

-----------------------------------------------------------------------------
(***************************************************************************)
(* The switch between the nub and the target.                              *)
(***************************************************************************)

LEMMA Keeps_TRKSwapAndGo_Input == NubInv /\ TRKSwapAndGo_Input => NubInv'
  <1> SUFFICES ASSUME NubInv, TRKSwapAndGo_Input PROVE NubInv'
    OBVIOUS
  <1> USE DEF NubInv, TRKSwapAndGo_Input, loopVars, bufVars, sendVars,
              targetVars, switchVars, hostVars
  <1>1. DataInv'
    BY ConstantsAssumption
       DEF DataInv, Running, Halted
  <1>2. QueueInv' /\ EventInv'
    BY Tuples, ConstantsAssumption
       DEF QueueInv, EventInv, WellFormed, EventRecord
  <1>3. SendInv' /\ BufferInv'
    BY Tuples, ConstantsAssumption
       DEF SendInv, BufferInv, QueueInv, EventInv, QueueBuffer, SecondBuffer,
           WellFormed, EventRecord
  <1>4. SwitchInv' /\ TargetInv' /\ FaultInv'
    BY Tuples, ConstantsAssumption
       DEF SwitchInv, TargetInv, FaultInv, QueueInv, EventInv, Faulty, Reports
  <1> QED
    BY <1>1, <1>2, <1>3, <1>4

LEMMA Keeps_TRKSwapAndGo == NubInv /\ TRKSwapAndGo => NubInv'
  <1> SUFFICES ASSUME NubInv, TRKSwapAndGo PROVE NubInv'
    OBVIOUS
  <1> USE DEF NubInv, TRKSwapAndGo, loopVars, bufVars, sendVars, targetVars,
              switchVars, hostVars
  <1>1. DataInv'
    BY ConstantsAssumption
       DEF DataInv, Running, Halted
  <1>2. QueueInv' /\ EventInv'
    BY Tuples, ConstantsAssumption
       DEF QueueInv, EventInv, WellFormed, EventRecord
  <1>3. SendInv' /\ BufferInv'
    BY Tuples, ConstantsAssumption
       DEF SendInv, BufferInv, QueueInv, EventInv, QueueBuffer, SecondBuffer,
           WellFormed, EventRecord
  <1>4. SwitchInv' /\ TargetInv' /\ FaultInv'
    BY Tuples, ConstantsAssumption
       DEF SwitchInv, TargetInv, FaultInv, QueueInv, EventInv, Faulty, Reports
  <1> QED
    BY <1>1, <1>2, <1>3, <1>4

LEMMA Keeps_TransportInterrupt == NubInv /\ TransportInterrupt => NubInv'
  <1> SUFFICES ASSUME NubInv, TransportInterrupt PROVE NubInv'
    OBVIOUS
  <1> USE DEF NubInv, TransportInterrupt, loopVars, bufVars, sendVars,
              targetVars, switchVars, hostVars
  <1>1. DataInv'
    BY ConstantsAssumption
       DEF DataInv, Running, Halted
  <1>2. QueueInv' /\ EventInv'
    BY Tuples, ConstantsAssumption
       DEF QueueInv, EventInv, WellFormed, EventRecord
  <1>3. SendInv' /\ BufferInv'
    BY Tuples, ConstantsAssumption
       DEF SendInv, BufferInv, QueueInv, EventInv, QueueBuffer, SecondBuffer,
           WellFormed, EventRecord
  <1>4. SwitchInv' /\ TargetInv' /\ FaultInv'
    BY Tuples, ConstantsAssumption
       DEF SwitchInv, TargetInv, FaultInv, QueueInv, EventInv, Faulty, Reports
  <1> QED
    BY <1>1, <1>2, <1>3, <1>4

LEMMA Keeps_TargetException ==
  ASSUME NubInv, NEW id \in {"trace", "program", "other"}, NEW atTrap \in BOOLEAN,
         TargetException(id, atTrap)
  PROVE  NubInv'
  <1> USE DEF NubInv, TargetException, loopVars, bufVars, sendVars, targetVars,
              switchVars, hostVars
  <1>a. /\ exc' = [id |-> id, atTrap |-> atTrap]
        /\ exc'.id = id /\ exc'.atTrap = atTrap
    OBVIOUS
  <1>1. DataInv'
    BY <1>a DEF DataInv, Running, Halted
  <1>2. QueueInv' /\ EventInv'
    BY DEF QueueInv, EventInv, WellFormed, EventRecord
  <1>3. SendInv' /\ BufferInv'
    BY DEF SendInv, BufferInv, QueueBuffer, SecondBuffer
  <1>4. SwitchInv' /\ TargetInv'
    BY DEF SwitchInv, TargetInv
  <1>5. FaultInv'
    <2>1. "fault" \notin unreported /\ ~inputActivated
      BY DEF FaultInv, SwitchInv
    <2>2. "fault" \in unreported' =>
            id = "other" \/ (id = "program" /\ ~atTrap)
      BY <2>1
    <2> QED
      BY <1>a, <2>1, <2>2 DEF FaultInv, Faulty
  <1> QED
    BY <1>1, <1>2, <1>3, <1>4, <1>5

LEMMA Keeps_TRKPostInterruptEvent == NubInv /\ TRKPostInterruptEvent => NubInv'
  <1> SUFFICES ASSUME NubInv, TRKPostInterruptEvent PROVE NubInv'
    OBVIOUS
  <1> USE DEF NubInv, TRKPostInterruptEvent, InterruptEventType, TRKPostEvent,
              TRKDestructEvent, TRK_ReleaseBuffer, loopVars, bufVars, sendVars,
              targetVars, switchVars, hostVars
  <1>1. DataInv'
    BY DEF DataInv, Running, Halted
  <1>2. QueueInv' /\ EventInv'
    BY Tuples, ConstantsAssumption
       DEF QueueInv, EventInv, WellFormed, EventRecord
  <1>3. SendInv' /\ BufferInv'
    BY Tuples, ConstantsAssumption
       DEF SendInv, BufferInv, QueueInv, EventInv, QueueBuffer, SecondBuffer,
           WellFormed, EventRecord
  <1>4. SwitchInv' /\ TargetInv'
    BY Tuples, ConstantsAssumption DEF SwitchInv, TargetInv, QueueInv
  <1>5. FaultInv'
    <2>1. queue = <<>>
      BY DEF QueueInv
    <2> SUFFICES ASSUME "fault" \in unreported'
                 PROVE  /\ Faulty'
                        /\ pc' = "loop" /\ queue' # <<>>
                        /\ Head(queue').type \in Reports
      BY DEF FaultInv
    <2>2. Faulty /\ ~inputActivated
      BY DEF FaultInv
    <2>3. InterruptEventType \in Reports
      BY <2>2 DEF Faulty, Reports
    <2> DEFINE e == Event(InterruptEventType, NoBuffer)
    <2>4. queue' = <<e>>
      BY <2>1, <2>2, Tuples, ConstantsAssumption
    <2>5. queue' # <<>> /\ Head(queue') = e /\ e.type \in Reports
      BY <2>3, <2>4, Tuples
    <2> QED
      BY <2>2, <2>5 DEF Faulty
  <1> QED
    BY <1>1, <1>2, <1>3, <1>4, <1>5

-----------------------------------------------------------------------------
(***************************************************************************)
(* The steps that take a buffer or look at the wire.                       *)
(***************************************************************************)

\* What there is before a request is queued.
CanQueue ==
  \/ queue = <<>>
  \/ /\ pc = "wait"
     /\ QueueLength >= 2
     /\ \E d \in EventRecord : queue = <<d>> /\ WellFormed(d) /\ d.type = "request"

\* A request is read and queued.
LEMMA RequestQueued ==
  ASSUME NubInv, RequestInv, pc \in {"loop", "wait"}, CanQueue,
         NEW b \in Buffers, TRKTestForPacket(b),
         queue' = TRKPostEvent(queue, Event("request", b)),
         isIdle' \in BOOLEAN,
         UNCHANGED <<pc, event, sendVars, targetVars, switchVars, irq,
                     unanswered, hostView, unreported>>
  PROVE  NubInv'
  <1> DEFINE e == Event("request", b)
  <1>a. e.type = "request" /\ e.buf = b /\ e \in EventRecord
    BY DEF EventRecord
  <1>b. b \notin used /\ b # NoBuffer /\ used' = used \cup {b}
    BY ConstantsAssumption DEF TRKTestForPacket, TRK_GetFreeBuffer
  <1>c. content' \in [Buffers -> Sent \cup {Blank}]
    BY WireHoldsThings DEF TRKTestForPacket, InputPending, NubInv, DataInv
  <1>d. \/ queue = <<>> /\ queue' = <<e>>
        \/ /\ pc = "wait"
           /\ \E d \in EventRecord : /\ queue = <<d>> /\ WellFormed(d) /\ d.type = "request"
                                     /\ queue' = <<d, e>>
    <2>1. CASE queue = <<>>
      BY <2>1, Tuples, ConstantsAssumption DEF TRKPostEvent
    <2>2. ASSUME NEW d \in EventRecord, queue = <<d>>, QueueLength >= 2
          PROVE  queue' = <<d, e>>
      <3>1. Len(queue) = 1 /\ Append(queue, e) = <<d, e>>
        BY <2>2, Tuples
      <3>2. Len(queue) # QueueLength
        BY <2>2, <3>1
      <3> QED
        BY <3>1, <3>2 DEF TRKPostEvent
    <2> QED
      BY <2>1, <2>2 DEF CanQueue
  <1>e. WellFormed(e)
    BY <1>a, <1>b DEF WellFormed
  <1> USE DEF sendVars, targetVars, switchVars
  <1> HIDE DEF e
  <1>1. DataInv'
    BY <1>b, <1>c DEF NubInv, DataInv, Running, Halted
  <1>2. QueueInv'
    <2>1. ASSUME queue' = <<e>> PROVE QueueInv'
      BY <1>a, <1>e, <2>1 DEF QueueInv, WellFormed
    <2>2. ASSUME pc = "wait", NEW d \in EventRecord, WellFormed(d), d.type = "request",
                 queue' = <<d, e>>
          PROVE  QueueInv'
      BY <1>a, <1>e, <2>2 DEF QueueInv, WellFormed
    <2> QED
      BY <1>d, <2>1, <2>2
  <1>3. EventInv' /\ SendInv'
    BY DEF NubInv, EventInv, SendInv, WellFormed
  <1>4. BufferInv'
    <2>1. b \notin {QueueBuffer, SecondBuffer, event.buf, sendBuf, replyBuf}
      BY <1>b DEF NubInv, BufferInv
    <2>2. CASE queue = <<>> /\ queue' = <<e>>
      <3>1. QueueBuffer = NoBuffer /\ SecondBuffer = NoBuffer
            /\ QueueBuffer' = b /\ SecondBuffer' = NoBuffer
        BY <1>a, <2>2, Tuples DEF QueueBuffer, SecondBuffer
      <3> QED
        BY <1>b, <2>1, <3>1 DEF NubInv, BufferInv
    <2>3. CASE \E d \in EventRecord : queue = <<d>> /\ queue' = <<d, e>>
      <3>1. PICK d \in EventRecord : queue = <<d>> /\ queue' = <<d, e>>
        BY <2>3
      <3>2. QueueBuffer = d.buf /\ SecondBuffer = NoBuffer
        <4>1. Head(queue) = d /\ Tail(queue) = <<>> /\ queue # <<>>
          BY <3>1, Tuples
        <4> QED
          BY <4>1 DEF QueueBuffer, SecondBuffer
      <3>3. QueueBuffer' = d.buf /\ SecondBuffer' = b
        <4>1. Head(queue') = d /\ Tail(queue') = <<e>> /\ queue' # <<>>
          BY <3>1, Tuples
        <4>2. Tail(queue') # <<>> /\ Head(Tail(queue')) = e
          BY <4>1, Tuples
        <4> QED
          BY <1>a, <4>1, <4>2 DEF QueueBuffer, SecondBuffer
      <3> QED
        BY <1>b, <2>1, <3>2, <3>3 DEF NubInv, BufferInv
    <2> QED
      BY <1>d, <2>2, <2>3
  <1>5. SwitchInv' /\ TargetInv'
    BY <1>a, <1>d, Tuples DEF NubInv, SwitchInv, TargetInv
  <1>6. FaultInv'
    BY <1>d DEF NubInv, FaultInv
  <1> QED
    BY <1>1, <1>2, <1>3, <1>4, <1>5, <1>6 DEF NubInv

\* It takes the place in the queue that it had on the wire.
LEMMA RequestMoves ==
  ASSUME NubInv, NubInv', RequestInv, pc \in {"loop", "wait"}, CanQueue,
         NEW b \in Buffers, TRKTestForPacket(b),
         pc = "wait" => Head(wire) \in Commands,
         queue' = TRKPostEvent(queue, Event("request", b)),
         UNCHANGED <<pc, event, unanswered>>
  PROVE  RequestInv'
  <1> DEFINE e == Event("request", b)
             y == Head(wire)
             w == Tail(wire)
  <1>a. e.type = "request" /\ e.buf = b /\ e \in EventRecord
    BY DEF EventRecord
  <1>b. b \notin used /\ b # NoBuffer
    BY ConstantsAssumption DEF TRKTestForPacket, TRK_GetFreeBuffer
  <1>c. /\ wire = <<y>> \o w /\ y \in Thing /\ w \in Seq(Thing) /\ w \in Seq(Sent)
        /\ wire' = w
    BY WireHoldsThings DEF TRKTestForPacket, InputPending, Thing
  <1>d. content'[b] = y /\ \A c \in Buffers \ {b} : content'[c] = content[c]
    BY DEF TRKTestForPacket, NubInv, DataInv
  <1>e. Value(e, content') = y
    BY <1>a, <1>d DEF Value
  <1>f. ~InHandler /\ ~InHandler'
    BY DEF InHandler
  <1>g. /\ unanswered' \in Seq(Commands) /\ Len(unanswered') <= MaxOutstanding
        /\ Matched(Held, unanswered)
    BY DEF RequestInv, Halted
  <1>1. CASE queue = <<>>
    <2>1. queue' = <<e>>
      BY <1>1, Tuples, ConstantsAssumption DEF TRKPostEvent
    <2>2. QueueBuffer' = b /\ SecondBuffer' = NoBuffer
      BY <1>a, <2>1, Tuples DEF QueueBuffer, SecondBuffer
    <2>3. Held = <<y>> \o w
      BY <1>1, <1>c, <1>f, NoneQueued
    <2>4. Held' = <<y>> \o w
      <3>1. Held' = <<Value(e, content')>> \o wire'
        BY <1>c, <1>e, <1>f, <2>1, OneQueuedNext
      <3> QED
        BY <1>c, <1>e, <3>1
    <2>5. Matched(Held', unanswered')
      BY <1>g, <2>3, <2>4
    <2> HIDE DEF e, y, w
    <2> QED
      BY <1>c, <1>d, <1>g, <2>2, <2>5 DEF RequestInv, y
  <1>2. ASSUME NEW d \in EventRecord, pc = "wait", QueueLength >= 2, queue = <<d>>,
               WellFormed(d), d.type = "request"
        PROVE  RequestInv'
    <2>1. queue' = <<d, e>>
      <3>1. Len(queue) = 1 /\ Append(queue, e) = <<d, e>>
        BY <1>2, Tuples
      <3>2. Len(queue) # QueueLength
        BY <1>2, <3>1
      <3> QED
        BY <3>1, <3>2 DEF TRKPostEvent
    <2>2. QueueBuffer = d.buf /\ QueueBuffer' = d.buf /\ SecondBuffer' = b
          /\ d.buf \in Buffers /\ d.buf # NoBuffer
      BY <1>2, <1>a, <2>1, Tuples DEF QueueBuffer, SecondBuffer, WellFormed, EventRecord
    <2>3. d.buf # b
      BY <1>b, <2>2 DEF NubInv, BufferInv
    <2> DEFINE x == content[d.buf]
    <2>4. Value(d, content) = x /\ Value(d, content') = x /\ x \in Thing
      BY <1>2, <1>d, <2>2, <2>3, HoldThings DEF Value
    <2>5. Held = <<x>> \o (<<y>> \o w)
      <3>1. Held = <<Value(d, content)>> \o wire
        BY <1>2, <1>f, OneQueued
      <3> QED
        BY <1>c, <2>4, <3>1
    <2>6. Held' = <<x>> \o (<<y>> \o w)
      <3>1. Held' = <<Value(d, content')>> \o (<<Value(e, content')>> \o wire')
        BY <1>c, <1>e, <1>f, <2>1, <2>4, TwoQueuedNext
      <3> QED
        BY <1>c, <1>e, <2>4, <3>1
    <2>7. Matched(Held', unanswered')
      BY <1>g, <2>5, <2>6
    <2>8. x \in Commands
      BY <1>2, <2>2 DEF RequestInv
    <2>9. content'[d.buf] \in Commands /\ content'[b] \in Commands
      BY <1>2, <1>d, <2>2, <2>3, <2>8
    <2> HIDE DEF e, y, w, x
    <2> QED
      BY <1>c, <1>g, <2>2, <2>7, <2>9 DEF RequestInv
  <1> QED
    BY <1>1, <1>2 DEF CanQueue

\* Wherever the nub takes a buffer without a request under way none is in use.
LEMMA PoolHasOne ==
  ASSUME NubInv,
         \/ pc = "loop" /\ queue = <<>>
         \/ pc = "dispatch" /\ event.type \in TargetEvents
  PROVE  ~PoolEmpty
  <1>1. used = {}
    BY DEF NubInv, QueueInv, BufferInv, EventInv, SendInv, WellFormed, QueueBuffer,
           SecondBuffer
  <1>2. 0 \in Buffers
    BY ConstantsAssumption
  <1> QED
    BY <1>1, <1>2 DEF PoolEmpty

\* The queue holds two events only while the nub waits.
LEMMA OneAtMost ==
  ASSUME NubInv, pc \notin Waiting
  PROVE  SecondBuffer = NoBuffer
  BY Tuples DEF NubInv, QueueInv, SecondBuffer

\* What TRKGetInput does: the pool has a buffer.
LEMMA InputIsRead ==
  ASSUME NubInv, TRKGetInput
  PROVE  \E b \in Buffers :
           /\ TRKTestForPacket(b)
           /\ queue' = TRKPostEvent(queue, Event("request", b))
           /\ pc = "loop" /\ queue = <<>> /\ isIdle' = TRUE
           /\ UNCHANGED <<pc, event, sendVars, targetVars, switchVars, irq, unanswered,
                          hostView, unreported>>
  <1>1. ReadRequest /\ pc = "loop" /\ queue = <<>>
    BY PoolHasOne DEF TRKGetInput, LoopPolls
  <1> QED
    BY <1>1 DEF ReadRequest

\* What TRK_RequestSend does with a packet that is no reply: the queue has room
\* for it.
LEMMA RequestIsCached ==
  ASSUME QueueSuffices, NubInv, RequestInv, TRK_RequestSend_Cache
  PROVE  \E b \in Buffers :
           /\ TRKTestForPacket(b)
           /\ Head(wire) \in Commands
           /\ queue' = TRKPostEvent(queue, Event("request", b))
           /\ pc = "wait" /\ CanQueue
           /\ UNCHANGED <<pc, isIdle, event, sendVars, targetVars, switchVars, irq,
                          unanswered, hostView, unreported>>
  <1>1. PICK b \in Buffers :
          /\ TRKTestForPacket(b)
          /\ Head(wire) \notin Replies
          /\ queue' = TRKPostEvent(queue, Event("request", b))
    BY DEF TRK_RequestSend_Cache
  <1>2. pc = "wait" /\ Head(wire) \in Commands
    BY <1>1, WireHoldsThings DEF TRK_RequestSend_Cache, TRKTestForPacket, InputPending, Sent
  <1>3. InputPending /\ ~PoolEmpty
    BY <1>1 DEF TRKTestForPacket, TRK_GetFreeBuffer, PoolEmpty
  <1>4. CanQueue
    BY <1>2, <1>3, RoomInQueue DEF CanQueue
  <1> QED
    BY <1>1, <1>2, <1>4 DEF TRK_RequestSend_Cache

LEMMA Keeps_TRKGetInput ==
  ASSUME NubInv, RequestInv, TRKGetInput
  PROVE  NubInv'
  BY InputIsRead, RequestQueued DEF CanQueue

LEMMA Keeps_TRK_RequestSend_Cache ==
  ASSUME QueueSuffices, NubInv, RequestInv, TRK_RequestSend_Cache
  PROVE  NubInv'
  <1>1. isIdle \in BOOLEAN
    BY DEF NubInv, DataInv
  <1> QED
    BY <1>1, RequestIsCached, RequestQueued

LEMMA Keeps_TRK_RequestSend_Reply ==
  ASSUME QueueSuffices, NubInv, RequestInv, ReplyInv, TRK_RequestSend_Reply
  PROVE  NubInv'
  <1>1. PICK b \in Buffers :
          /\ TRKTestForPacket(b)
          /\ replyBuf' = b
    BY DEF TRK_RequestSend_Reply
  <1>2. SecondBuffer = NoBuffer
    BY <1>1, TwoFill DEF TRK_RequestSend_Reply, TRKTestForPacket, TRK_GetFreeBuffer, PoolEmpty
  <1>3. b \notin used /\ b # NoBuffer /\ used' = used \cup {b}
    BY <1>1, ConstantsAssumption DEF TRKTestForPacket, TRK_GetFreeBuffer
  <1>4. content' \in [Buffers -> Sent \cup {Blank}]
    BY <1>1, WireHoldsThings DEF TRKTestForPacket, InputPending, NubInv, DataInv
  <1> USE DEF TRK_RequestSend_Reply, targetVars, switchVars
  <1>5. DataInv'
    BY <1>1, <1>3, <1>4 DEF NubInv, DataInv, Running, Halted
  <1>6. QueueInv' /\ EventInv'
    <2>1. ASSUME NEW d \in EventRecord, NEW e \in EventRecord, queue = <<d, e>>,
                 WellFormed(e), e.type = "request"
          PROVE  FALSE
      <3>1. SecondBuffer = e.buf
        BY <2>1, Tuples DEF SecondBuffer
      <3> QED
        BY <1>2, <2>1, <3>1 DEF WellFormed
    <2>2. \/ queue = <<>>
          \/ \E e \in EventRecord : queue = <<e>> /\ WellFormed(e) /\ e.type = "request"
      BY <2>1 DEF NubInv, QueueInv
    <2>3. QueueInv'
      BY <2>2 DEF QueueInv, WellFormed
    <2> QED
      BY <2>3 DEF NubInv, EventInv, WellFormed
  <1>7. QueueBuffer' = QueueBuffer /\ SecondBuffer' = SecondBuffer
    BY DEF QueueBuffer, SecondBuffer
  <1>8. b # sendBuf /\ b # QueueBuffer /\ b # event.buf
    BY <1>3 DEF NubInv, BufferInv
  <1>9. owed = 0
    <2>1. 1 \in DOMAIN wire /\ wire[1] \in Replies
      BY <1>1 DEF RequestInv, TRKTestForPacket, InputPending
    <2> QED
      BY <2>1 DEF ReplyInv
  <1>10. SendInv'
    BY <1>1, <1>8, <1>9 DEF NubInv, SendInv
  <1>11. BufferInv'
    <2>1. replyBuf = NoBuffer
      BY DEF NubInv, SendInv
    <2>2. used' = {QueueBuffer, SecondBuffer, event.buf, sendBuf, replyBuf'} \ {NoBuffer}
      BY <1>1, <1>3, <2>1 DEF NubInv, BufferInv
    <2> QED
      BY <1>1, <1>2, <1>7, <1>8, <2>2 DEF NubInv, BufferInv
  <1>12. SwitchInv' /\ TargetInv' /\ FaultInv'
    BY DEF NubInv, SwitchInv, TargetInv, FaultInv
  <1> QED
    BY <1>5, <1>6, <1>10, <1>11, <1>12 DEF NubInv

\* With no buffer for the packet the nub goes on in a way that is not known;
\* until then nothing was wrong.
LEMMA Keeps_TRK_RequestSend_PoolEmpty ==
  ASSUME NubInv, TRK_RequestSend_PoolEmpty
  PROVE  NubInv'
  <1> USE DEF TRK_RequestSend_PoolEmpty, Undefined, bufVars, sendVars, targetVars,
              switchVars, hostVars
  <1>1. DataInv'
    BY DEF NubInv, DataInv, Running, Halted
  <1>2. QueueInv' /\ EventInv' /\ SendInv'
    BY DEF NubInv, QueueInv, EventInv, SendInv, WellFormed
  <1>3. BufferInv'
    BY DEF NubInv, BufferInv, QueueBuffer, SecondBuffer
  <1>4. SwitchInv' /\ TargetInv' /\ FaultInv'
    BY DEF NubInv, SwitchInv, TargetInv, FaultInv
  <1> QED
    BY <1>1, <1>2, <1>3, <1>4 DEF NubInv

\* The nub takes a buffer and sends a request in it; the buffer of the request
\* that is queued stays in use.
LEMMA RequestSent ==
  ASSUME NubInv, pc \in {"dispatch", "reply"}, event.type \in TargetEvents,
         NEW b, SendRequest(b, {QueueBuffer} \ {NoBuffer}),
         stopped' \in BOOLEAN, stepping' \in BOOLEAN, chunks' \in 0 .. MaxChunks,
         hostView' \in {"stopped", "running"},
         unreported' = unreported \/ unreported' = {},
         "fault" \notin unreported',
         replyBuf' = NoBuffer, owed = 0,
         UNCHANGED <<isIdle, queue, event, switchVars, wire, irq, unanswered>>
  PROVE  NubInv'
  <1> USE DEF switchVars
  <1>a. /\ b \in Buffers /\ b # QueueBuffer /\ b # NoBuffer
        /\ used' = ({QueueBuffer} \ {NoBuffer}) \cup {b}
        /\ sendBuf' = b /\ owed' = 1 /\ pc' = "wait"
    BY ConstantsAssumption DEF SendRequest
  <1>b. content' \in [Buffers -> Sent \cup {Blank}]
    BY DEF SendRequest, NubInv, DataInv
  <1>c. event.buf = NoBuffer
    BY DEF NubInv, EventInv, WellFormed
  <1>d. QueueBuffer' = QueueBuffer /\ SecondBuffer' = NoBuffer
    BY OneAtMost DEF QueueBuffer, SecondBuffer
  <1>e. QueueBuffer \in Buffers \cup {NoBuffer}
    BY Tuples DEF NubInv, QueueInv, QueueBuffer, EventRecord
  <1>1. DataInv'
    BY <1>a, <1>b, <1>e DEF NubInv, DataInv, Running
  <1>2. QueueInv' /\ EventInv'
    BY <1>a DEF NubInv, QueueInv, EventInv, WellFormed
  <1>3. SendInv'
    BY <1>a DEF SendInv
  <1>4. BufferInv'
    BY <1>a, <1>c, <1>d, ConstantsAssumption DEF BufferInv
  <1>5. SwitchInv' /\ TargetInv' /\ FaultInv'
    BY <1>a, Tuples DEF NubInv, SwitchInv, TargetInv, FaultInv, QueueInv
  <1> QED
    BY <1>1, <1>2, <1>3, <1>4, <1>5 DEF NubInv

\* No buffer is in use when the nub turns to an event of the target, and no
\* request of the nub is under way.
LEMMA NothingInUse ==
  ASSUME NubInv, pc = "dispatch", event.type \in TargetEvents
  PROVE  used = {} /\ {QueueBuffer} \ {NoBuffer} = {} /\ replyBuf = NoBuffer
         /\ owed = 0 /\ queue = <<>>
  <1>1. queue = <<>>
    BY DEF NubInv, QueueInv
  <1>2. event.buf = NoBuffer /\ QueueBuffer = NoBuffer /\ SecondBuffer = NoBuffer
    BY <1>1 DEF NubInv, EventInv, WellFormed, QueueBuffer, SecondBuffer
  <1> QED
    BY <1>1, <1>2 DEF NubInv, BufferInv, SendInv

LEMMA Keeps_TRKTargetInterrupt ==
  ASSUME NubInv, TRKTargetInterrupt
  PROVE  NubInv'
  <1>1. pc = "dispatch" /\ event.type \in TargetEvents
    BY DEF TRKTargetInterrupt, AtTargetStop
  <1>2. TRKDoNotifyStopped
    BY <1>1, PoolHasOne DEF TRKTargetInterrupt
  <1>3. PICK b \in Buffers : SendRequest(b, used)
    BY <1>2 DEF TRKDoNotifyStopped
  <1>4. SendRequest(b, {QueueBuffer} \ {NoBuffer})
    BY <1>1, <1>3, NothingInUse
  <1>5. /\ stopped' \in BOOLEAN /\ stepping' \in BOOLEAN
        /\ chunks' \in 0 .. MaxChunks
        /\ hostView' \in {"stopped", "running"}
        /\ unreported' = {}
        /\ replyBuf' = NoBuffer
    BY <1>1, <1>2, NothingInUse
       DEF TRKTargetInterrupt, TRKDoNotifyStopped, NubInv, DataInv
  <1>6. UNCHANGED <<isIdle, queue, event, switchVars, wire, irq, unanswered>>
    BY <1>2 DEF TRKTargetInterrupt, TRKDoNotifyStopped
  <1> QED
    BY <1>1, <1>4, <1>5, <1>6, RequestSent, NothingInUse

LEMMA Keeps_TRKTargetSupportRequest ==
  ASSUME NubInv, TRKTargetSupportRequest
  PROVE  NubInv'
  <1>1. pc = "dispatch" /\ event.type = "support" /\ event.type \in TargetEvents
    BY DEF TRKTargetSupportRequest, AtSupport
  <1>2. SendFileRequest
    BY <1>1, PoolHasOne DEF TRKTargetSupportRequest
  <1>3. PICK b \in Buffers : SendRequest(b, used)
    BY <1>2 DEF SendFileRequest
  <1>4. SendRequest(b, {QueueBuffer} \ {NoBuffer})
    BY <1>1, <1>3, NothingInUse
  <1>5. chunks' \in 0 .. MaxChunks
    BY <1>2, ConstantsAssumption DEF SendFileRequest
  <1>6. "fault" \notin unreported
    BY <1>1 DEF NubInv, FaultInv, Reports
  <1>7. /\ stopped' \in BOOLEAN /\ stepping' \in BOOLEAN
        /\ hostView' \in {"stopped", "running"}
        /\ unreported' = unreported
        /\ replyBuf' = NoBuffer
    BY <1>1, <1>2, NothingInUse
       DEF SendFileRequest, targetVars, hostVars, NubInv, DataInv
  <1>8. UNCHANGED <<isIdle, queue, event, switchVars, wire, irq, unanswered>>
    BY <1>2 DEF SendFileRequest, hostVars
  <1> QED
    BY <1>1, <1>4, <1>5, <1>6, <1>7, <1>8, RequestSent, NothingInUse

LEMMA Keeps_TRK_SuppAccessFile_Next ==
  ASSUME NubInv, TRK_SuppAccessFile_Next
  PROVE  NubInv'
  <1>1. pc = "reply" /\ event.type \in TargetEvents
    BY DEF TRK_SuppAccessFile_Next, NubInv, EventInv
  <1>2. PICK b \in Buffers :
          SendRequest(b, TRK_ReleaseBuffer({replyBuf, sendBuf}))
    BY DEF TRK_SuppAccessFile_Next
  <1>3. TRK_ReleaseBuffer({replyBuf, sendBuf}) = {QueueBuffer} \ {NoBuffer}
    <2>1. event.buf = NoBuffer /\ SecondBuffer = NoBuffer
      BY <1>1, OneAtMost DEF NubInv, EventInv, WellFormed
    <2>2. QueueBuffer # NoBuffer => QueueBuffer \notin {sendBuf, replyBuf}
      BY DEF NubInv, BufferInv
    <2> QED
      BY <2>1, <2>2 DEF TRK_ReleaseBuffer, NubInv, BufferInv
  <1>4. SendRequest(b, {QueueBuffer} \ {NoBuffer})
    BY <1>2, <1>3
  <1>5. chunks' \in 0 .. MaxChunks
    BY ConstantsAssumption DEF TRK_SuppAccessFile_Next, NubInv, DataInv
  <1>6. "fault" \notin unreported /\ owed = 0
    BY <1>1 DEF NubInv, FaultInv, SendInv
  <1>7. /\ stopped' \in BOOLEAN /\ stepping' \in BOOLEAN
        /\ hostView' \in {"stopped", "running"}
        /\ unreported' = unreported
        /\ replyBuf' = NoBuffer
        /\ UNCHANGED <<isIdle, queue, event, switchVars, wire, irq, unanswered>>
    BY DEF TRK_SuppAccessFile_Next, targetVars, hostVars, NubInv, DataInv
  <1> QED
    BY <1>1, <1>4, <1>5, <1>6, <1>7, RequestSent

-----------------------------------------------------------------------------
(***************************************************************************)
(* The steps of the host.                                                  *)
(***************************************************************************)

LEMMA Keeps_HostRequest ==
  ASSUME NubInv, NEW c \in Commands, HostRequest(c)
  PROVE  NubInv'
  <1> USE DEF HostRequest, Arrives, loopVars, bufVars, sendVars, targetVars,
              switchVars
  <1>1. DataInv'
    BY DEF NubInv, DataInv, SwitchInv
  <1>2. QueueInv' /\ EventInv' /\ SendInv'
    BY DEF NubInv, QueueInv, EventInv, SendInv, WellFormed
  <1>3. BufferInv'
    BY DEF NubInv, BufferInv, QueueBuffer, SecondBuffer
  <1>4. SwitchInv' /\ TargetInv' /\ FaultInv'
    BY DEF NubInv, SwitchInv, TargetInv, FaultInv, Faulty
  <1> QED
    BY <1>1, <1>2, <1>3, <1>4 DEF NubInv

LEMMA Keeps_HostReply ==
  ASSUME NubInv, NEW r \in Replies, HostReply(r)
  PROVE  NubInv'
  <1> USE DEF HostReply, Arrives, loopVars, bufVars, targetVars, switchVars
  <1>a. owed = 1 /\ owed' = 0
    BY DEF NubInv, SendInv
  <1>1. DataInv'
    BY DEF NubInv, DataInv, SwitchInv
  <1>2. QueueInv' /\ EventInv'
    BY DEF NubInv, QueueInv, EventInv, WellFormed
  <1>3. SendInv'
    BY <1>a DEF NubInv, SendInv
  <1>4. BufferInv'
    BY DEF NubInv, BufferInv, QueueBuffer, SecondBuffer
  <1>5. SwitchInv' /\ TargetInv' /\ FaultInv'
    BY DEF NubInv, SwitchInv, TargetInv, FaultInv, Faulty
  <1> QED
    BY <1>1, <1>2, <1>3, <1>4, <1>5 DEF NubInv

-----------------------------------------------------------------------------
(***************************************************************************)
(* The reply of the host on its way to the nub.                            *)
(***************************************************************************)

\* A step that leaves the wire alone: no reply is on it unless the nub waits.
LEMMA ReplyStays ==
  ASSUME ReplyInv, wire' = wire,
         pc \in Waiting => pc' \in Waiting /\ owed' = owed
  PROVE  ReplyInv'
  BY DEF ReplyInv

\* A packet is read.
LEMMA ReplyMoves ==
  ASSUME RequestInv, ReplyInv, wire # <<>>, wire' = Tail(wire),
         (pc' = pc /\ owed' = owed) \/ Head(wire) \in Replies
  PROVE  ReplyInv'
  <1>1. wire \in Seq(Sent)
    BY DEF RequestInv
  <1>2. /\ 1 \in DOMAIN wire /\ wire[1] = Head(wire)
        /\ \A k \in DOMAIN wire' : k + 1 \in DOMAIN wire /\ wire'[k] = wire[k + 1]
                                   /\ k \in Nat /\ k + 1 # 1
    BY <1>1
  <1>3. CASE Head(wire) \in Replies
    BY <1>2, <1>3 DEF ReplyInv
  <1>4. CASE pc' = pc /\ owed' = owed
    <2> SUFFICES ASSUME NEW k \in DOMAIN wire', wire'[k] \in Replies
                 PROVE  /\ pc' \in Waiting /\ owed' = 0
                        /\ \A l \in DOMAIN wire' : wire'[l] \in Replies => l = k
      BY DEF ReplyInv
    <2>1. pc' \in Waiting /\ owed' = 0
      BY <1>2, <1>4 DEF ReplyInv
    <2>2. ASSUME NEW l \in DOMAIN wire', wire'[l] \in Replies PROVE l = k
      <3>1. l + 1 = k + 1
        BY <1>2, <2>2 DEF ReplyInv
      <3> QED
        BY <1>2, <3>1
    <2> QED
      BY <2>1, <2>2
  <1> QED
    BY <1>3, <1>4

\* A packet arrives: a request, or the one reply.
LEMMA ReplyArrives ==
  ASSUME NubInv, RequestInv, ReplyInv, NEW p \in Sent, wire' = Append(wire, p), pc' = pc,
         \/ p \in Commands /\ owed' = owed
         \/ p \in Replies /\ owed > 0 /\ owed' = owed - 1
  PROVE  ReplyInv'
  <1>1. wire \in Seq(Sent)
    BY DEF RequestInv
  <1>2. /\ \A k \in DOMAIN wire : k \in DOMAIN wire' /\ wire'[k] = wire[k]
        /\ \A k \in DOMAIN wire' : k \in DOMAIN wire \/ k = Len(wire) + 1
        /\ wire'[Len(wire) + 1] = p
    BY <1>1
  <1>3. CASE p \in Commands /\ owed' = owed
    BY <1>2, <1>3, Apart DEF ReplyInv
  <1>4. CASE p \in Replies /\ owed > 0 /\ owed' = owed - 1
    <2>1. owed = 1 /\ pc \in Waiting /\ owed' = 0
      BY <1>4 DEF NubInv, SendInv
    <2>2. \A k \in DOMAIN wire : wire[k] \notin Replies
      BY <2>1 DEF ReplyInv
    <2> QED
      BY <1>2, <2>1, <2>2 DEF ReplyInv
  <1> QED
    BY <1>3, <1>4

\* Every step keeps the reply where the nub looks for it.
LEMMA ReplyStep ==
  ASSUME NubInv, RequestInv, ReplyInv, [Next]_vars
  PROVE  ReplyInv'
  <1> USE DEF loopVars, sendVars, hostVars
  <1>1. CASE MainLoop
    <2>1. CASE TRKGetInput
      BY <2>1, InputIsRead, ReplyMoves DEF TRKTestForPacket, InputPending
    <2>2. pc \notin Waiting /\ (TRKGetInput \/ wire' = wire)
      BY <1>1 DEF MainLoop, ShutdownEvent, TRKGetNextEvent, TRKGetInput_Empty, TRK_Idle_Stopped,
         TRK_Idle_Continue, LoopIsIdle, LoopPolls, TRKGetInput
    <2> QED
      BY <2>1, <2>2, ReplyStays
  <1>2. CASE Handler
    BY <1>2, ReplyStays
       DEF Handler, DoSimpleCommand, DispatchUnknown, TRKDoDisconnect, TRKDoReset,
           TRKDoContinue, RefuseNotStopped, TRKDoStep, TRKDoStepOver, TRKDoStop,
           Dispatching, TRKStandardACK
  <1>3. CASE TargetEvent
    <2>1. TRKTargetSupportRequest => SendFileRequest
      BY PoolHasOne DEF TRKTargetSupportRequest, AtSupport
    <2>2. pc \notin Waiting /\ wire' = wire
      BY <1>3, <2>1
         DEF TargetEvent, TRKTargetCheckStep_Again, TRKTargetInterrupt, TRKDoNotifyStopped,
             NotifyFails, TRKTargetSupportRequest_Invalid, TRKTargetSupportRequest_Empty,
             TRKTargetSupportRequest, SendFileRequest, AtTargetStop, AtSupport
    <2> QED
      BY <2>2, ReplyStays
  <1>4. CASE RequestSend
    <2>1. CASE TRK_RequestSend_Cache \/ TRK_RequestSend_Reply
      <3>1. /\ wire # <<>> /\ wire' = Tail(wire)
            /\ (pc' = pc /\ owed' = owed) \/ Head(wire) \in Replies
        BY <2>1 DEF TRK_RequestSend_Cache, TRK_RequestSend_Reply, TRKTestForPacket, InputPending
      <3> QED
        BY <3>1, ReplyMoves
    <2>2. CASE TRK_RequestSend_PoolEmpty
      BY <2>2, ReplyStays DEF TRK_RequestSend_PoolEmpty, Undefined
    <2>3. CASE RequestDone \/ TRK_SuppAccessFile_Next
      BY <2>3, ReplyStays DEF RequestDone, TRK_SuppAccessFile_Next
    <2> QED
      BY <1>4, <2>1, <2>2, <2>3 DEF RequestSend
  <1>5. CASE Switch \/ TransportInterrupt \/ TargetRaises
    BY <1>5, ReplyStays
       DEF Switch, TRKSwapAndGo_Input, TRKSwapAndGo, TRKPostInterruptEvent,
           TransportInterrupt, TargetRaises, TargetException
  <1>6. CASE HostStep
    <2>1. ASSUME NEW c \in Commands, HostRequest(c) PROVE ReplyInv'
      BY <2>1, ReplyArrives DEF HostRequest, Arrives, Sent
    <2>2. ASSUME NEW r \in Replies, HostReply(r) PROVE ReplyInv'
      BY <2>2, ReplyArrives DEF HostReply, Arrives, Sent
    <2> QED
      BY <1>6, <2>1, <2>2 DEF HostStep
  <1>7. CASE UNCHANGED vars
    BY <1>7, ReplyStays DEF vars
  <1> QED
    BY <1>1, <1>2, <1>3, <1>4, <1>5, <1>6, <1>7 DEF Next, NubStep

-----------------------------------------------------------------------------
(***************************************************************************)
(* The requests of the host on their way to their handlers.                *)
(***************************************************************************)

\* What the nub holds before the packets on the wire.
Before == (IF InHandler THEN <<content[event.buf]>> ELSE <<>>) \o Pile(queue, content)

LEMMA BeforeTheWire ==
  /\ Held = Before \o wire
  /\ Held' = Before' \o wire'
  BY Zenon, HeldNow, HeldNext DEF Before

\* Each place of the queue.
LEMMA InTheQueue ==
  ASSUME NubInv, NEW i \in DOMAIN queue
  PROVE  /\ WellFormed(queue[i])
         /\ queue[i].type = "request" =>
              queue[i].buf \in {QueueBuffer, SecondBuffer} \ {NoBuffer}
  <1>1. CASE queue = <<>>
    BY <1>1
  <1>2. ASSUME NEW e, queue = <<e>>, WellFormed(e)
        PROVE  /\ WellFormed(queue[i])
               /\ queue[i].type = "request" =>
                    queue[i].buf \in {QueueBuffer, SecondBuffer} \ {NoBuffer}
    <2>1. queue[i] = e
      BY <1>2
    <2>2. QueueBuffer = e.buf
      BY <1>2, Tuples DEF QueueBuffer
    <2> QED
      BY <1>2, <2>1, <2>2 DEF WellFormed
  <1>3. ASSUME NEW e, NEW f, queue = <<e, f>>, WellFormed(e), WellFormed(f)
        PROVE  /\ WellFormed(queue[i])
               /\ queue[i].type = "request" =>
                    queue[i].buf \in {QueueBuffer, SecondBuffer} \ {NoBuffer}
    <2>1. queue[i] = e \/ queue[i] = f
      BY <1>3
    <2>2. Head(queue) = e /\ Tail(queue) = <<f>> /\ queue # <<>> /\ Tail(queue) # <<>>
          /\ Head(Tail(queue)) = f
      BY <1>3, Tuples
    <2>3. QueueBuffer = e.buf /\ SecondBuffer = f.buf
      BY <2>2 DEF QueueBuffer, SecondBuffer
    <2> QED
      BY <1>3, <2>1, <2>3 DEF WellFormed
  <1> QED
    BY <1>1, <1>2, <1>3 DEF NubInv, QueueInv

LEMMA BeforeIsThings ==
  ASSUME NubInv
  PROVE  Before \in Seq(Thing)
  <1>1. queue \in Seq(EventRecord)
    <2>1. ASSUME NEW e \in EventRecord PROVE <<e>> \in Seq(EventRecord)
      OBVIOUS
    <2>2. ASSUME NEW e \in EventRecord, NEW f \in EventRecord PROVE <<e, f>> \in Seq(EventRecord)
      OBVIOUS
    <2>3. CASE queue = <<>>
      BY <2>3
    <2>4. CASE \E e \in EventRecord : queue = <<e>>
      BY <2>1, <2>4
    <2>5. CASE \E e, f \in EventRecord : queue = <<e, f>>
      BY <2>2, <2>5
    <2> QED
      BY <2>3, <2>4, <2>5 DEF NubInv, QueueInv
  <1>2. Pile(queue, content) \in Seq(Thing)
    <2>1. \A i \in DOMAIN queue : Value(queue[i], content) \in Thing
      BY InTheQueue, HoldThings
    <2>2. DOMAIN queue = 1 .. Len(queue) /\ Len(queue) \in Nat
      BY <1>1
    <2>3. Pile(queue, content) \in [1 .. Len(queue) -> Thing]
      BY <2>1, <2>2 DEF Pile
    <2> QED
      BY <2>2, <2>3, SeqDef
  <1>3. (IF InHandler THEN <<content[event.buf]>> ELSE <<>>) \in Seq(Thing)
    <2>1. CASE InHandler
      <3> DEFINE x == content[event.buf]
      <3>1. x \in Thing
        BY <2>1, HoldThings DEF InHandler
      <3> HIDE DEF x
      <3>2. <<x>> \in Seq(Thing)
        BY <3>1
      <3> QED
        BY <2>1, <3>2 DEF x
    <2> QED
      BY <2>1
  <1> QED
    BY <1>2, <1>3, ConcatProperties DEF Before

\* The queue and the buffers of its requests are left alone.
LEMMA BeforeStays ==
  ASSUME NubInv, ~InHandler, ~InHandler', queue' = queue,
         \A b \in {QueueBuffer, SecondBuffer} \ {NoBuffer} : content'[b] = content[b]
  PROVE  Before' = Before
  <1>1. \A i \in DOMAIN queue : Value(queue'[i], content') = Value(queue[i], content)
    BY InTheQueue DEF Value
  <1>2. Pile(queue', content') = Pile(queue, content)
    BY <1>1 DEF Pile
  <1>3. Before = <<>> \o Pile(queue, content)
    BY DEF Before
  <1>4. Before' = <<>> \o Pile(queue', content')
    BY DEF Before
  <1> QED
    BY <1>2, <1>3, <1>4

\* A step that leaves the queue, the buffers of its requests and the wire alone.
LEMMA RequestsRest ==
  ASSUME NubInv, RequestInv, pc \notin Halted, ~InHandler, ~InHandler',
         UNCHANGED <<queue, wire, unanswered>>,
         \A b \in {QueueBuffer, SecondBuffer} \ {NoBuffer} : content'[b] = content[b],
         pc' \in Waiting \cup {"reply"} => pc \in Waiting \cup {"reply"}
  PROVE  RequestInv'
  <1>1. Held' = Held
    BY BeforeTheWire, BeforeStays, Zenon
  <1>2. QueueBuffer' = QueueBuffer /\ SecondBuffer' = SecondBuffer
    BY DEF QueueBuffer, SecondBuffer
  <1>3. Matched(Held', unanswered')
    BY <1>1 DEF RequestInv
  <1> QED
    BY <1>2, <1>3 DEF RequestInv

\* A step that finds the queue empty, and leaves at most an event that is no
\* request in it.
LEMMA NoRequestQueued ==
  ASSUME NubInv, RequestInv, pc \notin Halted, ~InHandler, ~InHandler',
         queue = <<>>, UNCHANGED <<wire, unanswered>>,
         \/ queue' = <<>>
         \/ /\ pc' \notin Waiting \cup {"reply"}
            /\ \E e : queue' = <<e>> /\ e.type # "request"
  PROVE  RequestInv'
  <1>1. /\ wire \in Seq(Thing) /\ Blank \in Thing /\ Blank \notin AllCommands
        /\ unanswered \in Seq(Commands)
    BY WireHoldsThings, Apart DEF Thing, RequestInv
  <1>2. Held = wire /\ Matched(wire, unanswered)
    <2>1. Held = wire
      BY NoneQueued
    <2> QED
      BY <2>1 DEF RequestInv
  <1>3. CASE queue' = <<>>
    <2>1. Held' = wire
      BY <1>1, <1>3, NoneQueuedNext
    <2>2. QueueBuffer' = NoBuffer /\ SecondBuffer' = NoBuffer
      BY <1>3 DEF QueueBuffer, SecondBuffer
    <2>3. Matched(Held', unanswered')
      BY <1>2, <2>1
    <2> QED
      BY <2>2, <2>3 DEF RequestInv
  <1>4. ASSUME NEW e, queue' = <<e>>, e.type # "request", pc' \notin Waiting \cup {"reply"}
        PROVE  RequestInv'
    <2>1. Value(e, content') = Blank
      BY <1>4 DEF Value
    <2>2. Held' = <<Blank>> \o wire
      <3>1. Held' = <<Value(e, content')>> \o wire'
        BY <1>1, <1>4, <2>1, OneQueuedNext
      <3> QED
        BY <2>1, <3>1
    <2>3. Matched(<<Blank>> \o wire, unanswered)
      BY <1>1, <1>2, BlankFirst
    <2>4. Matched(Held', unanswered')
      BY <2>2, <2>3
    <2> QED
      BY <1>4, <2>4 DEF RequestInv
  <1> QED
    BY <1>3, <1>4

\* The next event is taken: a request comes into the dispatcher's hands.
LEMMA EventTaken ==
  ASSUME NubInv, RequestInv, TRKGetNextEvent
  PROVE  RequestInv'
  <1> USE DEF TRKGetNextEvent, bufVars, hostVars
  <1>1. PICK e \in EventRecord : queue = <<e>> /\ WellFormed(e)
    BY DEF NubInv, QueueInv
  <1>2. queue' = <<>> /\ event' = e
    BY <1>1, Tuples
  <1> DEFINE x == Value(e, content)
  <1>3. wire \in Seq(Thing) /\ x \in Thing /\ unanswered \in Seq(Commands)
    BY <1>1, WireHoldsThings, HoldThings DEF RequestInv
  <1>4. Matched(<<x>> \o wire, unanswered)
    <2>1. Held = <<x>> \o wire
      BY <1>1, OneQueued DEF InHandler
    <2> QED
      BY <2>1 DEF RequestInv, Halted
  <1>5. CASE e.type = "request"
    <2>1. Held' = <<content'[event'.buf]>> \o <<>> \o wire'
      BY <1>2, <1>5, HeldNext, Piles DEF InHandler
    <2>2. content'[event'.buf] = x
      BY <1>2, <1>5 DEF Value
    <2>3. Held' = <<x>> \o <<>> \o wire
      BY <2>1, <2>2
    <2> HIDE DEF x
    <2>4. Held' = <<x>> \o wire
      BY <1>3, <2>3, BeforeOne
    <2>5. Matched(Held', unanswered')
      BY <1>4, <2>4
    <2> QED
      BY <2>5 DEF RequestInv
  <1>6. CASE e.type # "request"
    <2>1. Held' = wire
      BY <1>2, <1>3, <1>6, NoneQueuedNext DEF InHandler
    <2>2. x = Blank /\ Blank \notin AllCommands
      BY <1>6, Apart DEF Value
    <2> HIDE DEF x
    <2>3. Matched(wire, unanswered)
      BY <1>3, <1>4, <2>2, BlankFirst
    <2>4. Matched(Held', unanswered')
      BY <2>1, <2>3
    <2> QED
      BY <2>4 DEF RequestInv
  <1> QED
    BY <1>5, <1>6

\* What is left of the requests when the one in hand is done with.
LEMMA RestIsHeld ==
  ASSUME NubInv, RequestInv, InHandler, ~InHandler', wire' = wire,
         pc' \notin Waiting \cup {"reply"},
         unanswered' \in Seq(Commands), Len(unanswered') <= MaxOutstanding,
         Matched(wire, unanswered'),
         queue' = queue \/ \E e : queue' = <<e>> /\ e.type # "request"
  PROVE  RequestInv'
  <1>1. /\ wire \in Seq(Thing) /\ Blank \in Thing /\ Blank \notin AllCommands
    BY WireHoldsThings, Apart DEF Thing
  <1>2. queue = <<>>
    BY DEF InHandler, NubInv, QueueInv
  <1>3. CASE queue' = <<>>
    <2>1. Held' = wire
      BY <1>1, <1>3, NoneQueuedNext
    <2>2. Matched(Held', unanswered')
      BY <2>1
    <2> QED
      BY <2>2 DEF RequestInv
  <1>4. ASSUME NEW e, queue' = <<e>>, e.type # "request"
        PROVE  RequestInv'
    <2>1. Value(e, content') = Blank
      BY <1>4 DEF Value
    <2>2. Held' = <<Value(e, content')>> \o wire'
      BY <1>1, <1>4, <2>1, OneQueuedNext
    <2>3. Held' = <<Blank>> \o wire
      BY <2>1, <2>2
    <2>4. Matched(<<Blank>> \o wire, unanswered')
      BY <1>1, BlankFirst
    <2>5. Matched(Held', unanswered')
      BY <2>3, <2>4
    <2> QED
      BY <2>5 DEF RequestInv
  <1> QED
    BY <1>2, <1>3, <1>4

\* A request is answered, and it was the first.
LEMMA RequestAnsweredFirst ==
  ASSUME NubInv, RequestInv, InHandler, content[event.buf] \in AllCommands,
         ~InHandler', wire' = wire, pc' \notin Waiting \cup {"reply"},
         unanswered' = Tail(unanswered),
         queue' = queue \/ \E e : queue' = <<e>> /\ e.type # "request"
  PROVE  RequestInv'
  <1> DEFINE c == content[event.buf]
  <1>1. /\ wire \in Seq(Thing) /\ c \in Thing
        /\ unanswered \in Seq(Commands) /\ Len(unanswered) <= MaxOutstanding
    BY WireHoldsThings, HoldThings DEF InHandler, RequestInv
  <1>2. Held = <<c>> \o wire
    BY OneInHand
  <1>3. Matched(<<c>> \o wire, unanswered)
    BY <1>2 DEF RequestInv, InHandler, Halted
  <1> HIDE DEF c
  <1>4. c \in AllCommands
    BY DEF c
  <1>5. unanswered # <<>> /\ Matched(wire, Tail(unanswered))
    BY <1>1, <1>3, <1>4, FirstAnswered
  <1>6. Tail(unanswered) \in Seq(Commands) /\ Len(Tail(unanswered)) = Len(unanswered) - 1
    BY <1>1, <1>5
  <1>7. Len(unanswered) \in Nat /\ MaxOutstanding \in Nat
    BY <1>1, ConstantsAssumption
  <1>8. Len(unanswered') <= MaxOutstanding
    BY <1>1, <1>6, <1>7
  <1> QED
    BY <1>5, <1>6, <1>8, RestIsHeld

\* A command without a handler: its request stays without an answer.
LEMMA RequestUnknown ==
  ASSUME NubInv, RequestInv, DispatchUnknown
  PROVE  RequestInv'
  <1> DEFINE c == content[event.buf]
  <1>1. InHandler /\ ~InHandler' /\ c = "unknown" /\ pc' = "loop"
        /\ UNCHANGED <<queue, wire, unanswered>>
    BY DEF DispatchUnknown, Dispatching, InHandler, TRKDestructEvent, hostVars
  <1>2. /\ wire \in Seq(Thing) /\ c \in Thing
        /\ unanswered \in Seq(Commands) /\ Len(unanswered) <= MaxOutstanding
    BY <1>1, WireHoldsThings, HoldThings DEF InHandler, RequestInv
  <1>3. ~OnlyKnownCommands
    BY <1>1, <1>2 DEF OnlyKnownCommands, Thing, Sent, Replies, Blank
  <1>4. Held = <<c>> \o wire
    BY <1>1, OneInHand
  <1>5. Matched(<<c>> \o wire, unanswered)
    BY <1>1, <1>4 DEF RequestInv, InHandler, Halted
  <1> HIDE DEF c
  <1>6. Matched(wire, unanswered)
    BY <1>2, <1>3, <1>5, RequestDiscarded
  <1> QED
    BY <1>1, <1>2, <1>6, RestIsHeld

\* The reply is taken out from among the requests.
LEMMA ReplyTaken ==
  ASSUME NubInv, RequestInv, TRK_RequestSend_Reply
  PROVE  RequestInv'
  <1>1. PICK b \in Buffers : TRKTestForPacket(b) /\ Head(wire) \in Replies
    BY DEF TRK_RequestSend_Reply
  <1>2. b \notin used /\ b # NoBuffer
    BY <1>1, ConstantsAssumption DEF TRKTestForPacket, TRK_GetFreeBuffer
  <1>3. pc = "wait" /\ pc' = "reply" /\ queue' = queue /\ unanswered' = unanswered
    BY DEF TRK_RequestSend_Reply
  <1>4. \A c \in {QueueBuffer, SecondBuffer} \ {NoBuffer} : content'[c] = content[c]
    <2>1. \A c \in {QueueBuffer, SecondBuffer} \ {NoBuffer} : c \in used /\ c \in Buffers
      BY DEF NubInv, BufferInv, DataInv
    <2>2. \A c \in Buffers \ {b} : content'[c] = content[c]
      BY <1>1 DEF TRKTestForPacket, NubInv, DataInv
    <2> QED
      BY <1>2, <2>1, <2>2
  <1>5. Before' = Before /\ Before \in Seq(Thing)
    BY <1>3, <1>4, BeforeStays, BeforeIsThings DEF InHandler
  <1> DEFINE x == Head(wire)
             w == Tail(wire)
             g == Before
  <1>6. /\ x \in Thing /\ w \in Seq(Thing) /\ w \in Seq(Sent)
        /\ wire = <<x>> \o w /\ wire' = w
    BY <1>1, WireHoldsThings DEF TRKTestForPacket, InputPending, Thing
  <1>7. Held = g \o (<<x>> \o w) /\ Held' = g \o w
    BY <1>5, <1>6, BeforeTheWire
  <1>8. Matched(g \o (<<x>> \o w), unanswered) /\ unanswered \in Seq(Commands)
    BY <1>3, <1>7 DEF RequestInv, Halted
  <1>9. x \notin AllCommands
    BY <1>1, Apart
  <1>10. g \in Seq(Thing)
    BY <1>5
  <1>11. QueueBuffer' = QueueBuffer /\ SecondBuffer' = SecondBuffer
    BY <1>3 DEF QueueBuffer, SecondBuffer
  <1> HIDE DEF x, w, g
  <1>12. Matched(g \o w, unanswered)
    BY <1>6, <1>8, <1>9, <1>10, SomethingRemoved
  <1>13. Matched(Held', unanswered')
    BY <1>3, <1>7, <1>12
  <1> QED
    BY <1>3, <1>4, <1>6, <1>11, <1>13 DEF RequestInv

\* The host sends a request: it is the last of those it waits for.
LEMMA RequestArrives ==
  ASSUME NubInv, RequestInv, NEW c \in Commands, HostRequest(c)
  PROVE  RequestInv'
  <1> USE DEF HostRequest, Arrives, loopVars, bufVars
  <1>1. /\ wire \in Seq(Sent) /\ wire \in Seq(Thing) /\ c \in Sent /\ c \in Thing
        /\ c \in AllCommands /\ unanswered \in Seq(Commands)
    BY WireHoldsThings, Apart DEF RequestInv, Sent, Thing
  <1>2. /\ Append(wire, c) \in Seq(Sent)
        /\ Append(unanswered, c) \in Seq(Commands)
        /\ Len(Append(unanswered, c)) = Len(unanswered) + 1 /\ Len(unanswered) \in Nat
    BY <1>1
  <1>3. Len(unanswered') <= MaxOutstanding
    BY <1>2, ConstantsAssumption
  <1>4. Before' = Before /\ Before \in Seq(Thing)
    <2>1. InHandler' = InHandler
      BY DEF InHandler
    <2> QED
      BY <2>1, BeforeIsThings DEF Before
  <1>5. QueueBuffer' = QueueBuffer /\ SecondBuffer' = SecondBuffer
    BY DEF QueueBuffer, SecondBuffer
  <1>6. pc \notin Halted => Matched(Held', unanswered')
    <2> SUFFICES ASSUME pc \notin Halted PROVE Matched(Held', unanswered')
      OBVIOUS
    <2> DEFINE g == Before
    <2>1. g \in Seq(Thing) /\ Held = g \o wire /\ Held' = g \o Append(wire, c)
      BY <1>4, BeforeTheWire
    <2>2. Matched(g \o wire, unanswered)
      BY <2>1 DEF RequestInv
    <2> HIDE DEF g
    <2>3. g \o wire \in Seq(Thing)
      BY <1>1, <2>1, ConcatProperties
    <2>4. Matched(Append(g \o wire, c), Append(unanswered, c))
      BY <1>1, <2>2, <2>3, RequestAdded
    <2>5. g \o Append(wire, c) = Append(g \o wire, c)
      BY <1>1, <2>1, AppendedLast
    <2> QED
      BY <2>1, <2>4, <2>5
  <1> QED
    BY <1>2, <1>3, <1>5, <1>6 DEF RequestInv

\* The host sends its reply: no request is disturbed.
LEMMA ReplyArrivesLast ==
  ASSUME NubInv, RequestInv, NEW r \in Replies, HostReply(r)
  PROVE  RequestInv'
  <1> USE DEF HostReply, Arrives, loopVars, bufVars
  <1>1. /\ wire \in Seq(Sent) /\ wire \in Seq(Thing) /\ r \in Sent /\ r \in Thing
        /\ r \notin AllCommands /\ unanswered \in Seq(Commands)
    BY WireHoldsThings, Apart DEF RequestInv, Sent, Thing
  <1>2. Append(wire, r) \in Seq(Sent)
    BY <1>1
  <1>3. Before' = Before /\ Before \in Seq(Thing)
    <2>1. InHandler' = InHandler
      BY DEF InHandler
    <2> QED
      BY <2>1, BeforeIsThings DEF Before
  <1>4. QueueBuffer' = QueueBuffer /\ SecondBuffer' = SecondBuffer
    BY DEF QueueBuffer, SecondBuffer
  <1>5. pc \notin Halted => Matched(Held', unanswered')
    <2> SUFFICES ASSUME pc \notin Halted PROVE Matched(Held', unanswered')
      OBVIOUS
    <2> DEFINE g == Before
               h == g \o wire
    <2>1. g \in Seq(Thing) /\ Held = h /\ Held' = g \o Append(wire, r)
      BY <1>3, BeforeTheWire
    <2>2. Matched(h, unanswered)
      BY <2>1 DEF RequestInv
    <2>3. h \in Seq(Thing)
      BY <1>1, <2>1, ConcatProperties
    <2>4. g \o Append(wire, r) = Append(h, r)
      BY <1>1, <2>1, AppendedLast
    <2> HIDE DEF g, h
    <2>5. <<>> \in Seq(Thing) /\ h \o <<>> = h /\ <<r>> \o <<>> = <<r>>
      BY <1>1, <2>3, ConcatEmptySeq
    <2>6. Matched(h \o <<>>, unanswered)
      BY <2>2, <2>5
    <2>7. Matched(h \o (<<r>> \o <<>>), unanswered)
      BY <1>1, <2>3, <2>5, <2>6, SomethingAdded
    <2>8. Append(h, r) = h \o (<<r>> \o <<>>)
      BY <1>1, <2>3, <2>5
    <2> QED
      BY <2>1, <2>4, <2>7, <2>8
  <1> QED
    BY <1>2, <1>4, <1>5 DEF RequestInv

\* Every step keeps the requests in their order.
LEMMA RequestStep ==
  ASSUME QueueSuffices, NubInv, NubInv', RequestInv, [Next]_vars
  PROVE  RequestInv'
  <1> USE DEF loopVars, bufVars, hostVars
  <1>1. CASE MainLoop
    <2>1. CASE TRKGetInput
      BY <2>1, InputIsRead, RequestMoves DEF CanQueue
    <2>2. CASE TRKGetInput_Empty \/ TRK_Idle_Stopped \/ TRK_Idle_Continue \/ ShutdownEvent
      BY <2>2, RequestsRest
         DEF TRKGetInput_Empty, TRK_Idle_Stopped, TRK_Idle_Continue, TRKTargetContinue,
             ShutdownEvent, LoopPolls, LoopIsIdle, InHandler, Halted
    <2> QED
      BY <1>1, <2>1, <2>2, EventTaken DEF MainLoop
  <1>2. CASE Handler
    <2>1. ASSUME NEW cmds \in SUBSET AllCommands, Dispatching(cmds)
          PROVE  InHandler /\ content[event.buf] \in AllCommands /\ queue = <<>>
      BY <2>1 DEF Dispatching, InHandler, NubInv, QueueInv
    <2>2. CASE TRKDoDisconnect
      <3>1. queue' = <<Event("shutdown", NoBuffer)>>
        <4>1. queue = <<>>
          BY <2>1, <2>2 DEF TRKDoDisconnect, AllCommands
        <4> QED
          BY <2>2, <4>1, Tuples, ConstantsAssumption DEF TRKDoDisconnect, TRKPostEvent
      <3>2. Event("shutdown", NoBuffer).type # "request"
        OBVIOUS
      <3>3. InHandler /\ content[event.buf] \in AllCommands
        BY <2>1, <2>2 DEF TRKDoDisconnect, AllCommands
      <3> QED
        BY <2>2, <3>1, <3>2, <3>3, RequestAnsweredFirst
           DEF TRKDoDisconnect, TRKStandardACK, TRKDestructEvent, InHandler
    <2>3. CASE DoSimpleCommand \/ TRKDoReset \/ TRKDoContinue \/ RefuseNotStopped
               \/ TRKDoStep \/ TRKDoStepOver \/ TRKDoStop
      <3>1. InHandler /\ content[event.buf] \in AllCommands
        BY <2>1, <2>3
           DEF DoSimpleCommand, TRKDoReset, TRKDoContinue, RefuseNotStopped, TRKDoStep,
               TRKDoStepOver, TRKDoStop, AllCommands
      <3>2. /\ wire' = wire /\ unanswered' = Tail(unanswered) /\ queue' = queue
            /\ pc' \in {"loop", "reset", "swap"}
        BY <2>3
           DEF DoSimpleCommand, TRKDoReset, TRKDoContinue, RefuseNotStopped, TRKDoStep,
               TRKDoStepOver, TRKDoStop, TRKStandardACK, TRKDestructEvent, TRKTargetContinue
      <3> QED
        BY <3>1, <3>2, RequestAnsweredFirst DEF InHandler
    <2> QED
      BY <1>2, <2>2, <2>3, RequestUnknown DEF Handler
  <1>3. CASE TargetEvent
    <2>1. /\ pc = "dispatch" /\ event.type \in TargetEvents /\ ~InHandler
          /\ pc' # "dispatch" /\ UNCHANGED <<wire, unanswered>>
          /\ \/ queue' = queue
             \/ queue' = TRKPostEvent(queue, Event("exception", NoBuffer)) /\ pc' = "loop"
      <3>1. TRKTargetSupportRequest => SendFileRequest
        BY PoolHasOne DEF TRKTargetSupportRequest, AtSupport
      <3> QED
        BY <1>3, <3>1
           DEF TargetEvent, TRKTargetCheckStep_Again, TRKTargetInterrupt, TRKDoNotifyStopped,
               NotifyFails, TRKTargetSupportRequest_Invalid, TRKTargetSupportRequest_Empty,
               TRKTargetSupportRequest, SendFileRequest, SendRequest, TRKDestructEvent,
               AtTargetStop, AtSupport, InHandler
    <2>2. queue = <<>>
      BY <2>1, NothingInUse
    <2>3. \/ queue' = <<>>
          \/ pc' = "loop" /\ \E e : queue' = <<e>> /\ e.type # "request"
      <3>1. CASE queue' = TRKPostEvent(queue, Event("exception", NoBuffer)) /\ pc' = "loop"
        <4>1. queue' = <<Event("exception", NoBuffer)>>
          BY <2>2, <3>1, Tuples, ConstantsAssumption DEF TRKPostEvent
        <4>2. Event("exception", NoBuffer).type # "request"
          OBVIOUS
        <4> QED
          BY <3>1, <4>1, <4>2
      <3> QED
        BY <2>1, <2>2, <3>1
    <2> QED
      BY <2>1, <2>2, <2>3, NoRequestQueued DEF InHandler, Halted
  <1>4. CASE RequestSend
    <2>1. CASE TRK_RequestSend_Cache
      BY <2>1, RequestIsCached, RequestMoves
    <2>2. CASE TRK_RequestSend_PoolEmpty \/ RequestDone
      BY <2>2, RequestsRest
         DEF TRK_RequestSend_PoolEmpty, Undefined, RequestDone, TRKDestructEvent, InHandler,
             Halted
    <2>3. CASE TRK_SuppAccessFile_Next
      <3>1. pc = "reply" /\ pc' = "wait" /\ UNCHANGED <<queue, wire, unanswered>>
        BY <2>3 DEF TRK_SuppAccessFile_Next, SendRequest
      <3>2. \A c \in {QueueBuffer, SecondBuffer} \ {NoBuffer} : content'[c] = content[c]
        <4>1. PICK b \in Buffers : SendRequest(b, TRK_ReleaseBuffer({replyBuf, sendBuf}))
          BY <2>3 DEF TRK_SuppAccessFile_Next
        <4>2. \A c \in Buffers \ {b} : content'[c] = content[c]
          BY <4>1 DEF SendRequest, NubInv, DataInv
        <4>3. \A c \in {QueueBuffer, SecondBuffer} \ {NoBuffer} :
                c \in used /\ c \in Buffers /\ c \notin {replyBuf, sendBuf}
          BY DEF NubInv, BufferInv, DataInv
        <4>4. event.buf = NoBuffer
          BY <3>1 DEF NubInv, EventInv, WellFormed
        <4>5. b \notin TRK_ReleaseBuffer({replyBuf, sendBuf})
          BY <4>1 DEF SendRequest
        <4> QED
          BY <4>2, <4>3, <4>4, <4>5 DEF TRK_ReleaseBuffer
      <3> QED
        BY <3>1, <3>2, RequestsRest DEF InHandler, Halted
    <2> QED
      BY <1>4, <2>1, <2>2, <2>3, ReplyTaken DEF RequestSend
  <1>5. CASE TRKPostInterruptEvent
    <2>1. queue = <<>> /\ pc = "post"
      BY <1>5 DEF TRKPostInterruptEvent, NubInv, QueueInv
    <2>2. InterruptEventType # "request"
      BY DEF InterruptEventType
    <2>3. \/ queue' = <<>>
          \/ \E e : queue' = <<e>> /\ e.type # "request"
      <3>1. CASE inputActivated
        BY <1>5, <2>1, <3>1 DEF TRKPostInterruptEvent
      <3>2. CASE ~inputActivated
        <4>1. queue' = <<Event(InterruptEventType, NoBuffer)>>
          BY <1>5, <2>1, <3>2, Tuples, ConstantsAssumption
             DEF TRKPostInterruptEvent, TRKPostEvent
        <4>2. Event(InterruptEventType, NoBuffer).type # "request"
          BY <2>2
        <4> QED
          BY <4>1, <4>2
      <3> QED
        BY <3>1, <3>2
    <2>4. pc' = "loop" /\ UNCHANGED <<wire, unanswered>>
      BY <1>5 DEF TRKPostInterruptEvent, TRKDestructEvent
    <2> QED
      BY <2>1, <2>3, <2>4, NoRequestQueued DEF InHandler, Halted
  <1>6. CASE TRKSwapAndGo_Input \/ TRKSwapAndGo \/ TransportInterrupt \/ TargetRaises
    BY <1>6, RequestsRest
       DEF TRKSwapAndGo_Input, TRKSwapAndGo, TransportInterrupt, TargetRaises,
           TargetException, InHandler, Halted
  <1>7. CASE HostStep
    BY <1>7, RequestArrives, ReplyArrivesLast DEF HostStep
  <1>8. CASE UNCHANGED vars
    <2>1. Held' = Held
      BY <1>8 DEF vars, Held, InHand, Queued
    <2>2. QueueBuffer' = QueueBuffer /\ SecondBuffer' = SecondBuffer
      BY <1>8 DEF vars, QueueBuffer, SecondBuffer
    <2> QED
      BY <1>8, <2>1, <2>2 DEF vars, RequestInv
  <1> QED
    BY <1>1, <1>2, <1>3, <1>4, <1>5, <1>6, <1>7, <1>8 DEF Next, NubStep, Switch

-----------------------------------------------------------------------------
\* Every step keeps the nub in order, if the queue has room for the requests
\* that come during a wait.
LEMMA NubStepKeeps ==
  ASSUME QueueSuffices, IInv, [Next]_vars
  PROVE  NubInv'
  <1> USE DEF IInv
  <1>1. CASE MainLoop
    BY <1>1, Keeps_TRKGetNextEvent, Keeps_ShutdownEvent,
       Keeps_TRKGetInput_Empty, Keeps_TRKGetInput, Keeps_TRK_Idle_Stopped,
       Keeps_TRK_Idle_Continue
       DEF MainLoop
  <1>2. CASE Handler
    BY <1>2, Keeps_DoSimpleCommand, Keeps_DispatchUnknown,
       Keeps_TRKDoDisconnect, Keeps_TRKDoReset, Keeps_TRKDoContinue,
       Keeps_RefuseNotStopped, Keeps_TRKDoStep, Keeps_TRKDoStepOver,
       Keeps_TRKDoStop
       DEF Handler
  <1>3. CASE TargetEvent
    BY <1>3, Keeps_TRKTargetCheckStep_Again, Keeps_TRKTargetInterrupt,
       Keeps_TRKTargetSupportRequest_Invalid,
       Keeps_TRKTargetSupportRequest_Empty, Keeps_TRKTargetSupportRequest
       DEF TargetEvent
  <1>4. CASE RequestSend
    BY <1>4, Keeps_TRK_RequestSend_Cache, Keeps_TRK_RequestSend_Reply,
       Keeps_TRK_RequestSend_PoolEmpty, Keeps_RequestDone,
       Keeps_TRK_SuppAccessFile_Next
       DEF RequestSend
  <1>5. CASE Switch
    BY <1>5, Keeps_TRKSwapAndGo_Input, Keeps_TRKSwapAndGo,
       Keeps_TRKPostInterruptEvent
       DEF Switch
  <1>6. CASE TransportInterrupt
    BY <1>6, Keeps_TransportInterrupt
  <1>7. CASE TargetRaises
    BY <1>7, Keeps_TargetException DEF TargetRaises
  <1>8. CASE HostStep
    BY <1>8, Keeps_HostRequest, Keeps_HostReply DEF HostStep
  <1>9. CASE UNCHANGED vars
    <2> USE <1>9 DEF vars, loopVars, bufVars, sendVars, targetVars, switchVars, hostVars
    <2>1. DataInv'
      BY DEF NubInv, DataInv
    <2>2. QueueInv' /\ EventInv' /\ SendInv'
      BY DEF NubInv, QueueInv, EventInv, SendInv, WellFormed
    <2>3. BufferInv'
      BY DEF NubInv, BufferInv, QueueBuffer, SecondBuffer
    <2>4. SwitchInv' /\ TargetInv' /\ FaultInv'
      BY DEF NubInv, SwitchInv, TargetInv, FaultInv, Faulty
    <2> QED
      BY <2>1, <2>2, <2>3, <2>4 DEF NubInv
  <1> QED
    BY <1>1, <1>2, <1>3, <1>4, <1>5, <1>6, <1>7, <1>8, <1>9 DEF Next, NubStep

\* The parts of IInv say together where the requests, the buffers, the events
\* and the target are in each place of the nub; they hold in every reachable
\* state for any set of commands, any length of file accesses, and any number
\* of requests that the host sends ahead, if the queue has room for those the
\* pool has buffers for.
THEOREM Invariant == ASSUME QueueSuffices PROVE Spec => []IInv
  <1>1. Init => IInv
    <2> SUFFICES ASSUME Init PROVE IInv
      OBVIOUS
    <2>1. NubInv
      BY InitKeeps
    <2>2. Held = <<>>
      <3>1. queue = <<>> /\ wire = <<>> /\ ~InHandler
        BY DEF Init, InHandler
      <3>2. Held = <<>> \o <<>> \o <<>>
        BY <3>1, HeldNow, Piles
      <3>3. <<>> \o <<>> = <<>>
        OBVIOUS
      <3> QED
        BY <3>2, <3>3
    <2>3. RequestInv
      <3>1. /\ wire \in Seq(Sent) /\ unanswered \in Seq(Commands)
            /\ Len(unanswered) <= MaxOutstanding
        <4>1. wire = <<>> /\ unanswered = <<>>
          BY DEF Init
        <4>2. 0 <= MaxOutstanding
          BY ConstantsAssumption
        <4> QED
          BY <4>1, <4>2, Tuples
      <3>2. Matched(Held, unanswered) /\ pc = "loop"
        BY <2>2, NoneMatched DEF Init
      <3> QED
        BY <3>1, <3>2 DEF RequestInv
    <2>4. ReplyInv
      BY DEF Init, ReplyInv
    <2> QED
      BY <2>1, <2>3, <2>4 DEF IInv
  <1>2. IInv /\ [Next]_vars => IInv'
    BY NubStepKeeps, RequestStep, ReplyStep DEF IInv
  <1> QED
    BY <1>1, <1>2, PTL DEF Spec

-----------------------------------------------------------------------------
(***************************************************************************)
(* What follows from it.                                                   *)
(***************************************************************************)

\* The queue as a sequence, and the buffers of its events.
LEMMA QueueShape ==
  ASSUME NubInv
  PROVE  /\ queue \in Seq(EventRecord)
         /\ QueueBuffers \ {NoBuffer} = {QueueBuffer, SecondBuffer} \ {NoBuffer}
         /\ \A i, j \in DOMAIN queue :
              queue[i].buf = queue[j].buf /\ queue[i].buf # NoBuffer => i = j
  <1>1. CASE queue = <<>>
    BY <1>1 DEF QueueBuffers, QueueBuffer, SecondBuffer
  <1>2. ASSUME NEW e \in EventRecord, queue = <<e>>
        PROVE  /\ queue \in Seq(EventRecord)
               /\ QueueBuffers \ {NoBuffer} = {QueueBuffer, SecondBuffer} \ {NoBuffer}
               /\ \A i, j \in DOMAIN queue :
                    queue[i].buf = queue[j].buf /\ queue[i].buf # NoBuffer => i = j
    <2>1. DOMAIN queue = {1} /\ queue[1] = e
      BY <1>2
    <2>2. QueueBuffer = e.buf /\ SecondBuffer = NoBuffer
      BY <1>2, Tuples DEF QueueBuffer, SecondBuffer
    <2> QED
      BY <1>2, <2>1, <2>2 DEF QueueBuffers
  <1>3. ASSUME NEW e \in EventRecord, NEW f \in EventRecord, queue = <<e, f>>
        PROVE  /\ queue \in Seq(EventRecord)
               /\ QueueBuffers \ {NoBuffer} = {QueueBuffer, SecondBuffer} \ {NoBuffer}
               /\ \A i, j \in DOMAIN queue :
                    queue[i].buf = queue[j].buf /\ queue[i].buf # NoBuffer => i = j
    <2>1. DOMAIN queue = {1, 2} /\ queue[1] = e /\ queue[2] = f
      BY <1>3
    <2>2. Head(queue) = e /\ Tail(queue) = <<f>> /\ queue # <<>> /\ Tail(queue) # <<>>
          /\ Head(Tail(queue)) = f
      BY <1>3, Tuples
    <2>3. QueueBuffer = e.buf /\ SecondBuffer = f.buf
      BY <2>2 DEF QueueBuffer, SecondBuffer
    <2>4. QueueBuffers = {e.buf, f.buf}
      BY <2>1 DEF QueueBuffers
    <2>5. e.buf = f.buf => e.buf = NoBuffer
      BY <2>3 DEF NubInv, BufferInv
    <2>6. queue \in Seq(EventRecord)
      BY <1>3
    <2>7. \A i, j \in DOMAIN queue :
            queue[i].buf = queue[j].buf /\ queue[i].buf # NoBuffer => i = j
      BY <2>1, <2>5
    <2> QED
      BY <2>3, <2>4, <2>6, <2>7
  <1> QED
    BY <1>1, <1>2, <1>3 DEF NubInv, QueueInv

\* Every variable has its type: no event, packet or buffer id is made up.
THEOREM TypeCorrect == ASSUME QueueSuffices PROVE Spec => []TypeOK
  <1>1. IInv => TypeOK
    <2> SUFFICES ASSUME IInv PROVE TypeOK
      OBVIOUS
    <2> USE DEF IInv
    <2>1. queue \in Seq(EventRecord)
      BY QueueShape
    <2>2. Sent \subseteq Packet /\ Commands \subseteq AllCommands
      BY ConstantsAssumption DEF Sent, Packet
    <2>3. wire \in Seq(Packet) /\ unanswered \in Seq(AllCommands)
      BY <2>2 DEF RequestInv
    <2>4. event \in EventRecord
      BY DEF NubInv, EventInv, WellFormed
    <2>5. content \in [Buffers -> Packet \cup {Blank}]
      BY <2>2 DEF NubInv, DataInv
    <2>6. /\ sendBuf \in Buffers \cup {NoBuffer}
          /\ replyBuf \in Buffers \cup {NoBuffer}
          /\ owed \in Nat
          /\ inTRK \in BOOLEAN /\ inputActivated \in BOOLEAN
      BY DEF NubInv, DataInv, SendInv, SwitchInv
    <2>7. /\ pc \in Running \cup Halted
          /\ isIdle \in BOOLEAN /\ used \subseteq Buffers
          /\ chunks \in 0 .. MaxChunks
          /\ stopped \in BOOLEAN /\ stepping \in BOOLEAN
          /\ exc \in [id : {"trace", "program", "other", "external"},
                      atTrap : BOOLEAN]
          /\ irq \in BOOLEAN
          /\ hostView \in {"stopped", "running"}
          /\ unreported \subseteq {"fault", "badSupport"}
      BY DEF NubInv, DataInv
    <2> QED
      BY <2>1, <2>3, <2>4, <2>5, <2>6, <2>7 DEF TypeOK, EventRecord
  <1> QED
    BY <1>1, Invariant, PTL

\* Every buffer in use has one owner, on every path through the handlers, and
\* whatever the host sends ahead.
THEOREM BuffersAreAccounted ==
  ASSUME QueueSuffices PROVE Spec => []BufferAccounting
  <1>1. IInv => BufferAccounting
    <2> SUFFICES ASSUME IInv PROVE BufferAccounting
      OBVIOUS
    <2> USE DEF IInv
    <2>1. /\ QueueBuffers \ {NoBuffer} = {QueueBuffer, SecondBuffer} \ {NoBuffer}
          /\ \A i, j \in DOMAIN queue :
               queue[i].buf = queue[j].buf /\ queue[i].buf # NoBuffer => i = j
      BY QueueShape
    <2>2. used = {QueueBuffer, SecondBuffer, event.buf, sendBuf, replyBuf} \ {NoBuffer}
      BY DEF NubInv, BufferInv
    <2>3. used = (QueueBuffers \cup {event.buf, sendBuf, replyBuf}) \ {NoBuffer}
      BY <2>1, <2>2
    <2>4. {event.buf, sendBuf, replyBuf} \cap QueueBuffers \subseteq {NoBuffer}
      BY <2>1 DEF NubInv, BufferInv
    <2>5. /\ event.buf \in {sendBuf, replyBuf} => event.buf = NoBuffer
          /\ sendBuf = replyBuf => sendBuf = NoBuffer
      <3>1. CASE pc \in Waiting \cup {"reply"}
        BY <3>1, ConstantsAssumption
           DEF NubInv, EventInv, SendInv, WellFormed
      <3>2. CASE pc \notin Waiting \cup {"reply"}
        BY <3>2 DEF NubInv, SendInv
      <3> QED
        BY <3>1, <3>2
    <2> QED
      BY <2>1, <2>3, <2>4, <2>5 DEF BufferAccounting
  <1> QED
    BY <1>1, Invariant, PTL

\* A host that waits for each answer leaves the pool a buffer for the reply.
LEMMA PoolLasts ==
  ASSUME SynchronousHost, IInv, pc = "wait"
  PROVE  ~PoolEmpty
  <1> USE DEF IInv
  <1>1. SecondBuffer = NoBuffer /\ NumBuffers >= 3
    BY OneRequestOnly DEF SynchronousHost
  <1>2. event.buf = NoBuffer /\ replyBuf = NoBuffer
    BY DEF NubInv, EventInv, SendInv, WellFormed
  <1>3. used \subseteq {QueueBuffer, sendBuf}
    BY <1>1, <1>2 DEF NubInv, BufferInv
  <1>4. 0 \in Buffers /\ 1 \in Buffers /\ 2 \in Buffers
    BY <1>1, ConstantsAssumption
  <1>5. \E b \in {0, 1, 2} : b # QueueBuffer /\ b # sendBuf
    OBVIOUS
  <1> QED
    BY <1>3, <1>4, <1>5 DEF PoolEmpty

\* No packet was read into the NULL buffer.
Defined == pc # "undefined"

\* So the nub never reads a packet into the NULL buffer.
LEMMA StaysDefined ==
  ASSUME SynchronousHost, IInv, Defined, [Next]_vars
  PROVE  Defined'
  <1> USE DEF loopVars, Defined
  <1>1. CASE MainLoop
    <2>1. TRKGetInput => pc' = "loop"
      BY InputIsRead DEF IInv
    <2> QED
      BY <1>1, <2>1
         DEF MainLoop, TRKGetNextEvent, ShutdownEvent, TRKGetInput_Empty, TRK_Idle_Stopped,
             TRK_Idle_Continue, TRKTargetContinue
  <1>2. CASE Handler
    BY <1>2
       DEF Handler, DoSimpleCommand, DispatchUnknown, TRKDoDisconnect, TRKDoReset,
           TRKDoContinue, RefuseNotStopped, TRKDoStep, TRKDoStepOver, TRKDoStop,
           TRKDestructEvent, TRKTargetContinue
  <1>3. CASE TargetEvent
    <2>1. TRKTargetSupportRequest => SendFileRequest
      BY PoolHasOne DEF TRKTargetSupportRequest, AtSupport, IInv
    <2> QED
      BY <1>3, <2>1
         DEF TargetEvent, TRKTargetCheckStep_Again, TRKTargetInterrupt, TRKDoNotifyStopped,
             NotifyFails, TRKTargetSupportRequest_Invalid, TRKTargetSupportRequest_Empty,
             SendFileRequest, SendRequest, TRKDestructEvent
  <1>4. CASE RequestSend
    <2>1. ~TRK_RequestSend_PoolEmpty
      BY PoolLasts DEF TRK_RequestSend_PoolEmpty
    <2> QED
      BY <1>4, <2>1
         DEF RequestSend, TRK_RequestSend_Cache, TRK_RequestSend_Reply, RequestDone,
             TRK_SuppAccessFile_Next, SendRequest, TRKDestructEvent
  <1>5. CASE Switch
    BY <1>5
       DEF Switch, TRKSwapAndGo_Input, TRKSwapAndGo, TRKPostInterruptEvent, TRKDestructEvent
  <1>6. CASE TransportInterrupt \/ TargetRaises
    BY <1>6 DEF TransportInterrupt, TargetRaises, TargetException
  <1>7. CASE HostStep
    BY <1>7 DEF HostStep, HostRequest, HostReply
  <1>8. CASE UNCHANGED vars
    BY <1>8 DEF vars
  <1> QED
    BY <1>1, <1>2, <1>3, <1>4, <1>5, <1>6, <1>7, <1>8 DEF Next, NubStep

\* Three buffers are enough wherever the code takes one without looking at
\* the error, for a host that waits for each answer.
THEOREM ThePoolSuffices ==
  ASSUME SynchronousHost PROVE Spec => []PoolSuffices
  <1>1. Init => Defined
    BY DEF Init, Defined
  <1>2. IInv /\ Defined /\ [Next]_vars => Defined'
    BY StaysDefined
  <1>3. IInv /\ Defined => PoolSuffices
    BY PoolHasOne DEF PoolSuffices, AtTargetStop, IInv, Defined
  <1>4. QueueSuffices
    BY DEF SynchronousHost, QueueSuffices
  <1>5. Spec => []IInv
    BY <1>4, Invariant
  <1> QED
    BY <1>1, <1>2, <1>3, <1>5, PTL DEF Spec

\* The queue has room wherever the code posts an event without looking at the
\* error, however many requests the host sends ahead.
THEOREM TheQueueHasRoom ==
  ASSUME QueueSuffices PROVE Spec => []QueueHasRoom
  <1>1. IInv => QueueHasRoom
    <2> SUFFICES ASSUME IInv, Posting
                 PROVE  Len(queue) < QueueLength
      BY DEF QueueHasRoom
    <2>1. queue = <<>> => Len(queue) < QueueLength
      BY ConstantsAssumption, Tuples
    <2>2. CASE pc \in {"dispatch", "post"} \/ LoopPolls
      BY <2>1, <2>2 DEF LoopPolls, IInv, NubInv, QueueInv
    <2>3. CASE pc = "wait" /\ InputPending /\ ~PoolEmpty /\ Head(wire) \notin Replies
      <3>1. Head(wire) \in Commands
        BY <2>3, WireHoldsThings DEF IInv, InputPending, Sent
      <3>2. \/ queue = <<>>
            \/ QueueLength >= 2 /\ \E d \in EventRecord : queue = <<d>>
        BY <2>3, <3>1, RoomInQueue DEF IInv
      <3>3. ASSUME QueueLength >= 2, NEW d \in EventRecord, queue = <<d>>
            PROVE  Len(queue) < QueueLength
        BY <3>3, ConstantsAssumption, Tuples
      <3> QED
        BY <2>1, <3>2, <3>3
    <2> QED
      BY <2>2, <2>3 DEF Posting, Dispatching, AtSupport
  <1> QED
    BY <1>1, Invariant, PTL

\* A target that faulted does not execute again before the host is told.
THEOREM FaultsAreNotPassedOver ==
  ASSUME QueueSuffices PROVE Spec => []NoSilentResume
  <1>1. IInv => NoSilentResume
    BY DEF IInv, NubInv, FaultInv, NoSilentResume
  <1> QED
    BY <1>1, Invariant, PTL

\* That input activated the nub is never taken for the reason of a later
\* exception.
THEOREM ActivationIsFresh ==
  ASSUME QueueSuffices PROVE Spec => []NoStaleActivation
  <1>1. IInv => NoStaleActivation
    BY DEF IInv, NubInv, SwitchInv, NoStaleActivation
  <1> QED
    BY <1>1, Invariant, PTL

\* What the nub holds is a sequence.
LEMMA HeldIsSeq ==
  ASSUME IInv
  PROVE  DOMAIN Held \subseteq Nat
  <1>1. wire \in Seq(Thing) /\ Before \in Seq(Thing)
    BY WireHoldsThings, BeforeIsThings DEF IInv
  <1>2. Before \o wire \in Seq(Thing)
    BY <1>1, ConcatProperties
  <1>3. Held \in Seq(Thing)
    BY <1>2, BeforeTheWire
  <1> QED
    BY <1>3

\* No request of the host is dropped, repeated, overtaken or overwritten on its
\* way from the wire through a buffer and the queue to its handler, however many
\* the host sends ahead.
THEOREM NoRequestIsLost ==
  ASSUME QueueSuffices, OnlyKnownCommands PROVE Spec => []RequestsIntact
  <1>1. IInv => RequestsIntact
    <2> SUFFICES ASSUME IInv, pc \notin Halted
                 PROVE  RequestsIntact
      BY DEF RequestsIntact
    <2> DEFINE h == Held
               u == unanswered
    <2>1. Matched(h, u) /\ u \in Seq(Commands)
      BY DEF IInv, RequestInv
    <2>2. DOMAIN u = 1 .. Len(u) /\ Len(u) \in Nat
      BY <2>1
    <2> HIDE DEF h, u
    <2>3. PICK at \in [DOMAIN h -> 0 .. Len(u)] :
            /\ \A k \in DOMAIN h : h[k] \in AllCommands => at[k] \in 1 .. Len(u)
            /\ \A k, l \in DOMAIN h :
                 h[k] \in AllCommands /\ h[l] \in AllCommands /\ k < l => at[k] < at[l]
            /\ \A k \in DOMAIN h : h[k] \in AllCommands => h[k] = u[at[k]]
            /\ \A i \in 1 .. Len(u) :
                 \E k \in DOMAIN h : h[k] \in AllCommands /\ at[k] = i
      BY <2>1 DEF Matched
    <2> DEFINE Is(k, i) == k \in DOMAIN h /\ h[k] \in AllCommands /\ at[k] = i
               place == [i \in DOMAIN u |-> CHOOSE k \in DOMAIN h : Is(k, i)]
    <2>4. \A i \in DOMAIN u : Is(place[i], i)
      BY <2>2, <2>3
    <2>5. place \in [DOMAIN u -> DOMAIN h]
      BY <2>4
    <2>6. \A i \in DOMAIN u : h[place[i]] = u[i]
      BY <2>3, <2>4
    <2>7. DOMAIN h \subseteq Nat
      BY HeldIsSeq DEF h
    <2>8. \A i, j \in DOMAIN u : i < j => place[i] < place[j]
      <3> SUFFICES ASSUME NEW i \in DOMAIN u, NEW j \in DOMAIN u, i < j
                   PROVE  place[i] < place[j]
        OBVIOUS
      <3> DEFINE k == place[i]
                 l == place[j]
      <3>1. Is(k, i) /\ Is(l, j)
        BY <2>4
      <3> HIDE DEF place
      <3>2. k \in Nat /\ l \in Nat /\ i \in Nat /\ j \in Nat
        BY <3>1, <2>2, <2>7
      <3>3. k # l
        BY <3>1, <3>2
      <3>4. ~(l < k)
        BY <3>1, <3>2, <2>3
      <3> QED
        BY <3>2, <3>3, <3>4
    <2>9. \A k \in DOMAIN h : h[k] \in AllCommands => \E i \in DOMAIN u : place[i] = k
      <3> SUFFICES ASSUME NEW k \in DOMAIN h, h[k] \in AllCommands
                   PROVE  place[at[k]] = k /\ at[k] \in DOMAIN u
        OBVIOUS
      <3> DEFINE l == place[at[k]]
      <3>1. at[k] \in DOMAIN u
        BY <2>2, <2>3
      <3>2. Is(l, at[k])
        BY <2>4, <3>1
      <3> HIDE DEF place
      <3>3. k \in Nat /\ l \in Nat /\ at[k] \in Nat
        BY <2>2, <2>7, <3>1, <3>2
      <3>4. ~(k < l) /\ ~(l < k)
        BY <2>3, <3>2, <3>3
      <3> QED
        BY <3>1, <3>3, <3>4
    <2> HIDE DEF place
    <2>10. pc \notin Halted =>
             \E p \in [DOMAIN u -> DOMAIN h] :
               /\ \A i \in DOMAIN u : h[p[i]] = u[i]
               /\ \A i, j \in DOMAIN u : i < j => p[i] < p[j]
               /\ \A k \in DOMAIN h :
                    h[k] \in AllCommands => \E i \in DOMAIN u : p[i] = k
      BY <2>5, <2>6, <2>8, <2>9
    <2> QED
      BY <2>10 DEF RequestsIntact, h, u
  <1> QED
    BY <1>1, Invariant, PTL

-----------------------------------------------------------------------------
\* A step that ends the stop of the target answers a Continue or a Step.
LEMMA ResumeStep ==
  ASSUME IInv, [Next]_vars, stopped, ~stopped'
  PROVE  TRKDoContinue \/ TRKDoStep
  <1> USE DEF targetVars
  <1>1. ~UNCHANGED stopped
    OBVIOUS
  <1>2. ~TRK_Idle_Continue /\ ~TRKTargetCheckStep_Again
    BY DEF TRK_Idle_Continue, TRKTargetCheckStep_Again, AtTargetStop, IInv, NubInv,
           TargetInv
  <1>3. CASE MainLoop
    BY <1>1, <1>2, <1>3
       DEF MainLoop, TRKGetNextEvent, ShutdownEvent, TRKGetInput_Empty,
           TRKGetInput, ReadRequest, Undefined, TRK_Idle_Stopped
  <1>4. CASE Handler
    BY <1>1, <1>4
       DEF Handler, DoSimpleCommand, DispatchUnknown, TRKDoDisconnect,
           TRKDoReset, RefuseNotStopped, TRKDoStepOver, TRKDoStop
  <1>5. CASE TargetEvent
    BY <1>1, <1>2, <1>5
       DEF TargetEvent, TRKTargetInterrupt, TRKTargetSupportRequest_Invalid,
           TRKTargetSupportRequest_Empty, TRKTargetSupportRequest,
           SendFileRequest, Undefined
  <1>6. CASE RequestSend
    BY <1>1, <1>6
       DEF RequestSend, TRK_RequestSend_Cache, TRK_RequestSend_Reply,
           TRK_RequestSend_PoolEmpty, RequestDone, TRK_SuppAccessFile_Next,
           Undefined
  <1>7. CASE Switch
    BY <1>1, <1>7
       DEF Switch, TRKSwapAndGo_Input, TRKSwapAndGo, TRKPostInterruptEvent
  <1>8. CASE TransportInterrupt \/ TargetRaises
    BY <1>1, <1>8 DEF TransportInterrupt, TargetRaises, TargetException
  <1>9. CASE HostStep
    BY <1>1, <1>9 DEF HostStep, HostRequest, HostReply
  <1>10. CASE UNCHANGED vars
    BY <1>1, <1>10 DEF vars
  <1> QED
    BY <1>3, <1>4, <1>5, <1>6, <1>7, <1>8, <1>9, <1>10 DEF Next, NubStep

\* The target is set going by the host's Continue or Step and by nothing else:
\* not by idling, by a step that goes on, or by the reply to a notification.
THEOREM OnlyTheHostSetsItGoing ==
  ASSUME QueueSuffices PROVE Spec => OnlyTheHostResumes
  <1>1. IInv /\ [Next]_vars =>
          [stopped /\ ~stopped' => Dispatching({"continue", "step"})]_vars
    BY ResumeStep DEF TRKDoContinue, TRKDoStep, Dispatching
  <1> QED
    BY <1>1, Invariant, PTL DEF Spec, OnlyTheHostResumes

-----------------------------------------------------------------------------
(***************************************************************************)
(* What the host knows, and the refinement of TargetControl.  A host that  *)
(* steps over is told that the target runs when it does not (the run       *)
(* nub_stepover), so both are stated for hosts that do not.                *)
(***************************************************************************)

NoStepOver == "stepOver" \notin Commands

\* No request of such a host is a step over.
LEMMA NeverStepsOver == ASSUME NoStepOver, IInv PROVE ~TRKDoStepOver
  <1>1. "stepOver" \notin Sent \cup {Blank}
    BY DEF NoStepOver, Sent, Replies, Blank
  <1>2. event.type = "request" => event.buf \in Buffers
    BY DEF IInv, NubInv, EventInv, WellFormed, EventRecord
  <1> QED
    BY <1>1, <1>2 DEF TRKDoStepOver, Dispatching, IInv, NubInv, DataInv

\* What one step does to the view of the host, and to the target.
LEMMA ViewStep ==
  ASSUME QueueSuffices, NoStepOver, IInv, ViewInv, [Next]_vars
  PROVE  ViewInv'
  <1>1. CASE MainLoop
    BY <1>1
       DEF MainLoop, TRKGetNextEvent, ShutdownEvent, TRKGetInput_Empty,
           TRKGetInput, ReadRequest, Undefined, TRK_Idle_Stopped,
           TRK_Idle_Continue, TRKTargetContinue, targetVars, hostVars, ViewInv
  <1>2. CASE Handler
    BY <1>2, NeverStepsOver
       DEF Handler, DoSimpleCommand, DispatchUnknown, TRKDoDisconnect,
           TRKDoReset, TRKDoContinue, RefuseNotStopped, TRKDoStep, TRKDoStop,
           TRKStandardACK, TRKTargetContinue, targetVars, hostVars, ViewInv
  <1>3. CASE TargetEvent
    <2>1. AtTargetStop \/ AtSupport => ~stopped
      BY DEF AtTargetStop, AtSupport, IInv, NubInv, TargetInv
    <2>2. AtTargetStop => ~PoolEmpty
      BY PoolHasOne DEF AtTargetStop, IInv
    <2> QED
      BY <1>3, <2>1, <2>2
         DEF TargetEvent, TRKTargetCheckStep_Again, TRKTargetInterrupt,
             TRKDoNotifyStopped, TRKTargetSupportRequest_Invalid,
             TRKTargetSupportRequest_Empty, TRKTargetSupportRequest,
             SendFileRequest, Undefined, targetVars, hostVars, ViewInv
  <1>4. CASE RequestSend
    BY <1>4
       DEF RequestSend, TRK_RequestSend_Cache, TRK_RequestSend_Reply,
           TRK_RequestSend_PoolEmpty, RequestDone, TRK_SuppAccessFile_Next,
           Undefined, targetVars, hostVars, ViewInv
  <1>5. CASE Switch
    BY <1>5
       DEF Switch, TRKSwapAndGo_Input, TRKSwapAndGo, TRKPostInterruptEvent,
           targetVars, hostVars, ViewInv
  <1>6. CASE TransportInterrupt \/ TargetRaises
    BY <1>6
       DEF TransportInterrupt, TargetRaises, TargetException, targetVars,
           ViewInv
  <1>7. CASE HostStep
    BY <1>7 DEF HostStep, HostRequest, HostReply, targetVars, ViewInv
  <1>8. CASE UNCHANGED vars
    BY <1>8 DEF vars, targetVars, hostVars, ViewInv
  <1> QED
    BY <1>1, <1>2, <1>3, <1>4, <1>5, <1>6, <1>7, <1>8 DEF Next, NubStep

\* The host knows at every moment whether the target is stopped.
LEMMA HostKnows ==
  ASSUME QueueSuffices, NoStepOver PROVE Spec => []ViewInv
  <1>1. Init => ViewInv
    BY DEF Init, ViewInv
  <1>2. IInv /\ ViewInv /\ [Next]_vars => ViewInv'
    BY ViewStep
  <1> QED
    BY <1>1, <1>2, Invariant, PTL DEF Spec

\* Whenever the main loop looks for work, the host knows the state of the
\* target: no reply and no notification is wrong about it or missing.
THEOREM TheHostKnows ==
  ASSUME QueueSuffices, NoStepOver PROVE Spec => []HostViewAgrees
  <1>1. ViewInv => HostViewAgrees
    BY DEF ViewInv, HostViewAgrees
  <1> QED
    BY <1>1, HostKnows, PTL

\* A step of the nub is a step of TargetControl, or changes nothing it sees.
LEMMA ControlStep ==
  ASSUME QueueSuffices, NoStepOver, IInv, ViewInv, [Next]_vars
  PROVE  [Control!Next]_(Control!vars)
  <1> USE DEF Control!Next, Control!Resume, Control!Run, Control!Suspend,
              Control!Stop, Control!vars
  <1>1. CASE MainLoop
    BY <1>1
       DEF MainLoop, TRKGetNextEvent, ShutdownEvent, TRKGetInput_Empty,
           TRKGetInput, ReadRequest, Undefined, TRK_Idle_Stopped, LoopPolls,
           TRK_Idle_Continue, LoopIsIdle, TRKTargetContinue, hostVars
  <1>2. CASE Handler
    <2>1. Dispatching({"continue"}) \/ Dispatching({"step"}) => pc # "target"
      BY DEF Dispatching
    <2> QED
      BY <1>2, <2>1, NeverStepsOver
         DEF Handler, DoSimpleCommand, DispatchUnknown, TRKDoDisconnect,
             TRKDoReset, TRKDoContinue, RefuseNotStopped, TRKDoStep, TRKDoStop,
             TRKStandardACK, TRKTargetContinue, TRKDestructEvent, Dispatching,
             hostVars, ViewInv, IInv, NubInv, DataInv
  <1>3. CASE TargetEvent
    BY <1>3
       DEF TargetEvent, TRKTargetCheckStep_Again, TRKTargetInterrupt,
           TRKDoNotifyStopped, NotifyFails, TRKTargetSupportRequest_Invalid,
           TRKTargetSupportRequest_Empty, TRKTargetSupportRequest,
           SendFileRequest, SendRequest, Undefined, TRKDestructEvent,
           AtTargetStop, AtSupport, hostVars, IInv, NubInv, DataInv
  <1>4. CASE RequestSend
    BY <1>4
       DEF RequestSend, TRK_RequestSend_Cache, TRK_RequestSend_Reply,
           TRK_RequestSend_PoolEmpty, RequestDone, TRK_SuppAccessFile_Next,
           SendRequest, TRKDestructEvent, Undefined, hostVars
  <1>5. CASE Switch
    <2>1. pc = "swap" => hostView = "running"
      BY DEF IInv, NubInv, TargetInv, ViewInv, DataInv
    <2> QED
      BY <1>5, <2>1
         DEF Switch, TRKSwapAndGo_Input, TRKSwapAndGo, TRKPostInterruptEvent,
             TRKDestructEvent, hostVars
  <1>6. CASE TransportInterrupt \/ TargetRaises
    BY <1>6 DEF TransportInterrupt, TargetRaises, TargetException
  <1>7. CASE HostStep
    BY <1>7 DEF HostStep, HostRequest, HostReply, loopVars
  <1>8. CASE UNCHANGED vars
    BY <1>8 DEF vars, loopVars, hostVars
  <1> QED
    BY <1>1, <1>2, <1>3, <1>4, <1>5, <1>6, <1>7, <1>8 DEF Next, NubStep

\* The nub implements TargetControl: the target executes only while the host
\* has been told that it may, and what the host is told alternates.
THEOREM TheNubControls ==
  ASSUME QueueSuffices, NoStepOver PROVE Spec => ControlSpec
  <1>1. Init => Control!Init
    BY DEF Init, Control!Init
  <1>2. IInv /\ ViewInv /\ [Next]_vars => [Control!Next]_(Control!vars)
    BY ControlStep
  <1> QED
    BY <1>1, <1>2, Invariant, HostKnows, PTL DEF Spec, ControlSpec, Control!Spec
=============================================================================
