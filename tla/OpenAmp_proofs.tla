--------------------------- MODULE OpenAmp_proofs ---------------------------
(***************************************************************************)
(* What is proved of the OpenAMP variant, for every size of the packet     *)
(* buffer, every number of buffers, ticks and messages.                    *)
(*                                                                         *)
(* The argument about the data is one line of messages: those T0's handler *)
(* got, then those in the packet buffer, then the one that a task holds in *)
(* its hands.  Most steps move a message along the line and leave the line *)
(* as it is; taking a message off the ring adds it at the end, and         *)
(* dropping one takes the last away.                                       *)
(***************************************************************************)
EXTENDS OpenAmp, FiniteSetTheorems, TLAPS

S == PACKET_BUFFER_SIZE

(* The packets in the buffer whose first is at b and whose end is e; past  *)
(* is 1 when a task has moved the end, and has not marked it as full yet.  *)
CountOf(b, e, past) == IF e = S /\ past = 0 THEN S
                       ELSE IF e > b \/ (e = b /\ past = 0) THEN e - b ELSE e - b + S

(* The place of packet k of the buffer whose first is at b. *)
Slot(b, k) == IF b + k < S THEN b + k ELSE b + k - S

(* The line of H, the c packets of p from b on, and the n messages held,   *)
(* none or the message m.                                                  *)
LineOf(H, p, b, c, n, m) ==
    [i \in 1 .. Len(H) + c + n |->
        IF i <= Len(H) THEN H[i]
        ELSE IF i <= Len(H) + c THEN p[Slot(b, i - Len(H) - 1)] ELSE m]

-----------------------------------------------------------------------------
(* The line, for whatever the variables hold.                              *)

Numbers == 0 .. MaxMessages

\* The number of packets is between zero and the size, and the place of each
\* is in the buffer.
LEMMA CountRange ==
    ASSUME NEW b \in 0 .. S - 1, NEW e \in 0 .. S, NEW past \in 0 .. 1
    PROVE  /\ CountOf(b, e, past) \in 0 .. S
           /\ \A k \in 0 .. S - 1 : Slot(b, k) \in 0 .. S - 1
BY OpenAmpAssumption DEF CountOf, Slot, S

\* The end of a buffer that is not full is the place after its last packet.
LEMMA FreePlace ==
    ASSUME NEW b \in 0 .. S - 1, NEW e \in 0 .. S - 1
    PROVE  /\ CountOf(b, e, 0) \in 0 .. S - 1
           /\ Slot(b, CountOf(b, e, 0)) = e
           /\ \A k \in 0 .. CountOf(b, e, 0) - 1 : Slot(b, k) \in (0 .. S - 1) \ {e}
           /\ e + 1 \in 0 .. S
           /\ CountOf(b, e + 1, 1) = CountOf(b, e, 0) + 1
BY OpenAmpAssumption DEF CountOf, Slot, S

\* The line is a sequence as long as its three parts together.
LEMMA LineLen ==
    ASSUME NEW H \in Seq(Numbers), NEW p \in [0 .. S - 1 -> Numbers], NEW b \in 0 .. S - 1,
           NEW c \in 0 .. S, NEW n \in 0 .. 1, NEW m \in Numbers
    PROVE  /\ Len(LineOf(H, p, b, c, n, m)) = Len(H) + c + n
           /\ DOMAIN LineOf(H, p, b, c, n, m) = 1 .. Len(H) + c + n
           /\ Len(H) \in Nat /\ c \in Nat /\ n \in Nat
           /\ \A i \in 1 .. Len(H) : LineOf(H, p, b, c, n, m)[i] = H[i]
           /\ \A i \in Len(H) + 1 .. Len(H) + c :
                 LineOf(H, p, b, c, n, m)[i] = p[Slot(b, i - Len(H) - 1)]
           /\ \A i \in Len(H) + c + 1 .. Len(H) + c + n : LineOf(H, p, b, c, n, m)[i] = m
<1>1. PICK h \in Nat : h = Len(H)
  OBVIOUS
<1>2. c \in Nat /\ n \in Nat
  BY OpenAmpAssumption DEF S
<1>3. h + c + n \in Nat
  BY <1>2
<1> DEFINE L == LineOf(H, p, b, c, n, m)
<1>4. L = [i \in 1 .. h + c + n |-> IF i <= h THEN H[i]
                                    ELSE IF i <= h + c THEN p[Slot(b, i - h - 1)] ELSE m]
  BY <1>1 DEF LineOf
<1> HIDE DEF L
<1>5. Len(L) = h + c + n /\ DOMAIN L = 1 .. h + c + n
  BY <1>3, <1>4
<1>6. \A i \in 1 .. h : L[i] = H[i]
  BY <1>2, <1>4
<1>7. \A i \in h + 1 .. h + c : L[i] = p[Slot(b, i - h - 1)]
  BY <1>2, <1>4
<1>8. \A i \in h + c + 1 .. h + c + n : L[i] = m
  BY <1>2, <1>4
<1> QED
  BY <1>1, <1>2, <1>5, <1>6, <1>7, <1>8 DEF L

(* The end that Drain leaves when f is the new begin. *)
EndAfter(f, e) == IF e = S THEN NotFull(f) ELSE e

\* Drain leaves both ends of the buffer in it, and the buffer not full.
LEMMA DrainEnds ==
    ASSUME NEW b \in 0 .. S - 1, NEW e \in 0 .. S
    PROVE  NextIndex(b) \in 0 .. S - 1 /\ EndAfter(NextIndex(b), e) \in 0 .. S - 1
<1>1. PICK f \in 0 .. S - 1 : f = NextIndex(b)
  BY OpenAmpAssumption DEF NextIndex, S
<1>2. EndAfter(f, e) \in 0 .. S - 1
  BY OpenAmpAssumption DEF NotFull, EndAfter, S
<1> QED
  BY <1>1, <1>2, Zenon

\* Handing the oldest packet to T0's handler leaves the line as it is, be the
\* buffer marked as full or not.
LEMMA DrainLine ==
    ASSUME NEW H \in Seq(Numbers), NEW p \in [0 .. S - 1 -> Numbers], NEW b \in 0 .. S - 1,
           NEW e \in 0 .. S, b # e, NEW n \in 0 .. 1, NEW m \in Numbers
    PROVE  LineOf(Append(H, p[b]), p, NextIndex(b),
                  CountOf(NextIndex(b), EndAfter(NextIndex(b), e), 0), n, m)
             = LineOf(H, p, b, CountOf(b, e, 0), n, m)
<1>0. PICK f \in 0 .. S - 1, g \in 0 .. S - 1 : f = NextIndex(b) /\ g = EndAfter(f, e)
  BY DrainEnds
<1>2. PICK c \in 0 .. S : c = CountOf(b, e, 0)
  BY CountRange
<1>3. c \in Nat /\ c >= 1 /\ CountOf(f, g, 0) = c - 1
  BY <1>0, <1>2, OpenAmpAssumption DEF CountOf, NextIndex, NotFull, EndAfter, S
<1>4. \A k \in 0 .. c - 2 : Slot(f, k) = Slot(b, k + 1)
  <2> TAKE k \in 0 .. c - 2
  <2>1. k \in Nat /\ k + 1 < S
    BY OpenAmpAssumption DEF S
  <2>2. S \in Nat /\ b \in Nat /\ b < S
    BY OpenAmpAssumption DEF S
  <2>3. f = IF b + 1 = S THEN 0 ELSE b + 1
    BY <1>0 DEF NextIndex, S
  <2> HIDE DEF S
  <2>4. CASE b + 1 = S
    BY <2>1, <2>2, <2>3, <2>4 DEF Slot
  <2>5. CASE b + 1 # S
    BY <2>1, <2>2, <2>3, <2>5 DEF Slot
  <2> QED
    BY <2>4, <2>5
<1>5. Slot(b, 0) = b
  BY OpenAmpAssumption DEF Slot, S
<1>6. PICK h \in Nat : h = Len(H)
  OBVIOUS
<1>7. p[b] \in Numbers
  OBVIOUS
<1> DEFINE I == Append(H, p[b])
           L == LineOf(H, p, b, c, n, m)
           M == LineOf(I, p, f, c - 1, n, m)
<1>8. /\ I \in Seq(Numbers) /\ Len(I) = h + 1 /\ I[h + 1] = p[b]
      /\ \A i \in 1 .. h : I[i] = H[i]
  BY <1>6, <1>7
<1>9. L = [i \in 1 .. h + c + n |-> IF i <= h THEN H[i]
                                    ELSE IF i <= h + c THEN p[Slot(b, i - h - 1)] ELSE m]
  BY <1>6 DEF LineOf
<1>10. M = [i \in 1 .. (h + 1) + (c - 1) + n |->
                IF i <= h + 1 THEN I[i]
                ELSE IF i <= (h + 1) + (c - 1) THEN p[Slot(f, i - (h + 1) - 1)] ELSE m]
  BY <1>8 DEF LineOf
<1> HIDE DEF I, L, M
<1>11. (h + 1) + (c - 1) = h + c
  BY <1>3
<1>12. ASSUME NEW i \in 1 .. h + c + n PROVE M[i] = L[i]
  <2>1. CASE i \in 1 .. h
    BY <2>1, <1>3, <1>8, <1>9, <1>10
  <2>2. CASE i = h + 1
    BY <2>2, <1>3, <1>5, <1>8, <1>9, <1>10
  <2>3. CASE i \in h + 2 .. h + c
    <3>1. Slot(f, i - (h + 1) - 1) = Slot(b, i - h - 1)
      <4>1. PICK k \in 0 .. c - 2 : k = i - (h + 1) - 1
        BY <2>3, <1>3
      <4>2. k + 1 = i - h - 1
        BY <4>1, <2>3, <1>3
      <4> QED
        BY <4>1, <4>2, <1>4
    <3>2. M[i] = p[Slot(f, i - (h + 1) - 1)]
      BY <2>3, <1>3, <1>10
    <3>3. L[i] = p[Slot(b, i - h - 1)]
      BY <2>3, <1>3, <1>9
    <3> QED
      BY <3>1, <3>2, <3>3
  <2>4. CASE i > h + c
    BY <2>4, <1>3, <1>9, <1>10
  <2> QED
    BY <2>1, <2>2, <2>3, <2>4, <1>3
<1>13. M = L
  BY <1>9, <1>10, <1>11, <1>12
<1> QED
  BY <1>0, <1>2, <1>3, <1>13, Zenon DEF I, L, M

\* A message given straight to T0's handler, with the buffer empty, leaves the
\* line as it is.
LEMMA DirectLine ==
    ASSUME NEW H \in Seq(Numbers), NEW p \in [0 .. S - 1 -> Numbers], NEW b \in 0 .. S - 1,
           NEW m \in Numbers, NEW x
    PROVE  LineOf(Append(H, m), p, b, 0, 0, x) = LineOf(H, p, b, 0, 1, m)
<1>1. PICK h \in Nat : h = Len(H)
  OBVIOUS
<1> DEFINE I == Append(H, m)
           L == LineOf(H, p, b, 0, 1, m)
           M == LineOf(I, p, b, 0, 0, x)
<1>2. /\ I \in Seq(Numbers) /\ Len(I) = h + 1 /\ I[h + 1] = m
      /\ \A i \in 1 .. h : I[i] = H[i]
  BY <1>1
<1>3. L = [i \in 1 .. h + 0 + 1 |-> IF i <= h THEN H[i]
                                    ELSE IF i <= h + 0 THEN p[Slot(b, i - h - 1)] ELSE m]
  BY <1>1 DEF LineOf
<1>4. M = [i \in 1 .. (h + 1) + 0 + 0 |->
                IF i <= h + 1 THEN I[i]
                ELSE IF i <= (h + 1) + 0 THEN p[Slot(b, i - (h + 1) - 1)] ELSE x]
  BY <1>2 DEF LineOf
<1> HIDE DEF I, L, M
<1>5. L = [i \in 1 .. h + 1 |-> IF i <= h THEN H[i] ELSE m]
  BY <1>3
<1>6. M = [i \in 1 .. h + 1 |-> I[i]]
  BY <1>4
<1>7. ASSUME NEW i \in 1 .. h + 1 PROVE M[i] = L[i]
  BY <1>2, <1>5, <1>6
<1>8. M = L
  BY <1>5, <1>6, <1>7
<1> QED
  BY <1>8 DEF I, L, M

\* Copying a message to the end of the buffer, which is not full, leaves the
\* line as it is.
LEMMA CopyLine ==
    ASSUME NEW H \in Seq(Numbers), NEW p \in [0 .. S - 1 -> Numbers], NEW b \in 0 .. S - 1,
           NEW e \in 0 .. S - 1, NEW m \in Numbers
    PROVE  LineOf(H, [p EXCEPT ![e] = m], b, CountOf(b, e, 0), 1, m)
             = LineOf(H, p, b, CountOf(b, e, 0), 1, m)
<1>1. PICK h \in Nat : h = Len(H)
  OBVIOUS
<1>2. PICK c \in 0 .. S - 1 : c = CountOf(b, e, 0)
  BY FreePlace
<1>3. c \in Nat /\ \A k \in 0 .. c - 1 : Slot(b, k) \in (0 .. S - 1) \ {e}
  <2>1. c \in Nat
    BY OpenAmpAssumption DEF S
  <2> QED
    BY <2>1, <1>2, FreePlace
<1> DEFINE q == [p EXCEPT ![e] = m]
           L == LineOf(H, p, b, c, 1, m)
           M == LineOf(H, q, b, c, 1, m)
<1>4. \A k \in 0 .. c - 1 : q[Slot(b, k)] = p[Slot(b, k)]
  BY <1>3
<1>5. L = [i \in 1 .. h + c + 1 |-> IF i <= h THEN H[i]
                                    ELSE IF i <= h + c THEN p[Slot(b, i - h - 1)] ELSE m]
  BY <1>1 DEF LineOf
<1>6. M = [i \in 1 .. h + c + 1 |-> IF i <= h THEN H[i]
                                    ELSE IF i <= h + c THEN q[Slot(b, i - h - 1)] ELSE m]
  BY <1>1 DEF LineOf
<1> HIDE DEF q, L, M
<1>7. ASSUME NEW i \in 1 .. h + c + 1 PROVE M[i] = L[i]
  <2>1. CASE i \in h + 1 .. h + c
    <3>1. i - h - 1 \in 0 .. c - 1
      BY <2>1, <1>3
    <3>2. q[Slot(b, i - h - 1)] = p[Slot(b, i - h - 1)]
      BY <3>1, <1>4
    <3>3. M[i] = q[Slot(b, i - h - 1)] /\ L[i] = p[Slot(b, i - h - 1)]
      BY <2>1, <1>3, <1>5, <1>6
    <3> QED
      BY <3>2, <3>3
  <2>2. CASE ~ (i \in h + 1 .. h + c)
    BY <2>2, <1>3, <1>5, <1>6
  <2> QED
    BY <2>1, <2>2
<1>8. M = L
  BY <1>5, <1>6, <1>7
<1> QED
  BY <1>2, <1>8 DEF q, L, M

\* Moving the end past the copy leaves the line as it is.
LEMMA IncrementLine ==
    ASSUME NEW H \in Seq(Numbers), NEW p \in [0 .. S - 1 -> Numbers], NEW b \in 0 .. S - 1,
           NEW e \in 0 .. S - 1, NEW x
    PROVE  LineOf(H, p, b, CountOf(b, e + 1, 1), 0, x)
             = LineOf(H, p, b, CountOf(b, e, 0), 1, p[e])
<1>1. PICK h \in Nat : h = Len(H)
  OBVIOUS
<1>2. PICK c \in 0 .. S - 1 : c = CountOf(b, e, 0)
  BY FreePlace
<1>3. c \in Nat /\ Slot(b, c) = e /\ CountOf(b, e + 1, 1) = c + 1
  <2>1. c \in Nat
    BY OpenAmpAssumption DEF S
  <2> QED
    BY <2>1, <1>2, FreePlace
<1> DEFINE L == LineOf(H, p, b, c, 1, p[e])
           M == LineOf(H, p, b, c + 1, 0, x)
<1>5. L = [i \in 1 .. h + c + 1 |-> IF i <= h THEN H[i]
                                    ELSE IF i <= h + c THEN p[Slot(b, i - h - 1)] ELSE p[e]]
  BY <1>1 DEF LineOf
<1>6. M = [i \in 1 .. h + (c + 1) + 0 |-> IF i <= h THEN H[i]
                                    ELSE IF i <= h + (c + 1) THEN p[Slot(b, i - h - 1)] ELSE x]
  BY <1>1 DEF LineOf
<1> HIDE DEF L, M
<1>7. ASSUME NEW i \in 1 .. h + c + 1 PROVE M[i] = L[i]
  <2>1. CASE i = h + c + 1
    <3>1. i - h - 1 = c
      BY <2>1, <1>3
    <3>2. M[i] = p[Slot(b, i - h - 1)] /\ L[i] = p[e]
      BY <2>1, <1>3, <1>5, <1>6
    <3> QED
      BY <3>1, <3>2, <1>3
  <2>2. CASE i # h + c + 1
    BY <2>2, <1>3, <1>5, <1>6
  <2> QED
    BY <2>1, <2>2
<1>8. h + (c + 1) + 0 = h + c + 1
  BY <1>3
<1>9. M = L
  BY <1>5, <1>6, <1>7, <1>8
<1> QED
  BY <1>2, <1>3, <1>9 DEF L, M

\* So do the step that wraps the end, the test that finds the buffer not full
\* and the one that marks it as full: the number of packets stays the same.
LEMMA CountKept ==
    ASSUME NEW b \in 0 .. S - 1, NEW e \in 0 .. S
    PROVE  /\ e > 0 => CountOf(b, IF e = S THEN 0 ELSE e, 1) = CountOf(b, e, 1)
           /\ e # S /\ b # e => CountOf(b, e, 0) = CountOf(b, e, 1)
           /\ b = e => CountOf(b, S, 0) = CountOf(b, e, 1)
BY OpenAmpAssumption DEF S, CountOf

-----------------------------------------------------------------------------
(* Sequences that list a set of message numbers.                           *)

(* L, a sequence of N messages, lists the set X. *)
ListedAt(L, N, X) == /\ \A i \in 1 .. N : L[i] \in X
                     /\ \A x \in X : \E i \in 1 .. N : L[i] = x
                     /\ \A j, k \in 1 .. N : j < k => L[j] < L[k]

\* What Lists says, place by place.
LEMMA ListsByPlace ==
    ASSUME NEW L, NEW N \in Nat, Len(L) = N, DOMAIN L = 1 .. N, NEW X
    PROVE  Lists(L, X) <=> ListedAt(L, N, X)
<1>1. ToSet(L) = {L[i] : i \in 1 .. N}
  BY DEF ToSet
<1>2. ToSet(L) = X <=> /\ \A i \in 1 .. N : L[i] \in X
                       /\ \A x \in X : \E i \in 1 .. N : L[i] = x
  BY <1>1, Zenon
<1> QED
  BY <1>2, Zenon DEF Lists, ListedAt

\* Message T + 1, taken off the ring, goes to the end of the line.
LEMMA ListsAppend ==
    ASSUME NEW N \in Nat, NEW T \in Nat, NEW D, D \subseteq 1 .. T,
           NEW L, Len(L) = N, DOMAIN L = 1 .. N,
           NEW M, Len(M) = N + 1, DOMAIN M = 1 .. N + 1,
           \A i \in 1 .. N : M[i] = L[i], M[N + 1] = T + 1,
           Lists(L, (1 .. T) \ D)
    PROVE  Lists(M, (1 .. T + 1) \ D)
<1>1. /\ \A i \in 1 .. N : L[i] \in (1 .. T) \ D
      /\ \A x \in (1 .. T) \ D : \E i \in 1 .. N : L[i] = x
      /\ \A j, k \in 1 .. N : j < k => L[j] < L[k]
  <2>1. ListedAt(L, N, (1 .. T) \ D)
    BY ListsByPlace, Zenon
  <2> QED
    BY <2>1, Zenon DEF ListedAt
<1>2. N + 1 \in Nat /\ \A i \in 1 .. N + 1 : i \in 1 .. N \/ i = N + 1
  OBVIOUS
<1>3. T + 1 \in (1 .. T + 1) \ D /\ (1 .. T) \ D \subseteq (1 .. T + 1) \ D
  OBVIOUS
<1>4. \A i \in 1 .. N + 1 : M[i] \in (1 .. T + 1) \ D
  BY <1>1, <1>2, <1>3
<1>5. \A x \in (1 .. T + 1) \ D : \E i \in 1 .. N + 1 : M[i] = x
  <2> TAKE x \in (1 .. T + 1) \ D
  <2>1. CASE x = T + 1
    <3>1. N + 1 \in 1 .. N + 1
      OBVIOUS
    <3> QED
      BY <2>1, <3>1
  <2>2. CASE x \in (1 .. T) \ D
    <3>1. PICK i \in 1 .. N : L[i] = x
      BY <2>2, <1>1
    <3>2. i \in 1 .. N + 1 /\ M[i] = x
      BY <3>1
    <3> QED
      BY <3>2
  <2>3. x = T + 1 \/ x \in (1 .. T) \ D
    OBVIOUS
  <2> QED
    BY <2>1, <2>2, <2>3
<1>6. ASSUME NEW j \in 1 .. N + 1, NEW k \in 1 .. N + 1, j < k
      PROVE  M[j] < M[k]
  <2>1. j \in 1 .. N
    BY <1>6
  <2>2. M[j] = L[j] /\ L[j] \in 1 .. T
    BY <2>1, <1>1
  <2>3. CASE k = N + 1
    BY <2>2, <2>3
  <2>4. CASE k \in 1 .. N
    BY <2>1, <2>2, <2>4, <1>1, <1>6
  <2> QED
    BY <2>3, <2>4, <1>2
<1>7. ListedAt(M, N + 1, (1 .. T + 1) \ D)
  BY <1>4, <1>5, <1>6, Zenon DEF ListedAt
<1> QED
  BY <1>2, <1>7, ListsByPlace, Zenon

\* Taking the last message from the line leaves the others.
LEMMA ListsFront ==
    ASSUME NEW N \in Nat, NEW X, X \subseteq Nat,
           NEW L, Len(L) = N, DOMAIN L = 1 .. N,
           NEW M, Len(M) = N + 1, DOMAIN M = 1 .. N + 1,
           \A i \in 1 .. N : M[i] = L[i],
           Lists(M, X)
    PROVE  M[N + 1] \in X /\ Lists(L, X \ {M[N + 1]})
<1>1. N + 1 \in Nat /\ N + 1 \in 1 .. N + 1 /\ 1 .. N \subseteq 1 .. N + 1
  OBVIOUS
<1>2. /\ \A i \in 1 .. N + 1 : M[i] \in X
      /\ \A x \in X : \E i \in 1 .. N + 1 : M[i] = x
      /\ \A j, k \in 1 .. N + 1 : j < k => M[j] < M[k]
  <2>1. ListedAt(M, N + 1, X)
    BY <1>1, ListsByPlace, Zenon
  <2> QED
    BY <2>1, Zenon DEF ListedAt
<1>3. PICK m \in Nat : m = M[N + 1]
  BY <1>1, <1>2
<1>4. \A i \in 1 .. N : L[i] \in X /\ L[i] \in Nat
  BY <1>1, <1>2
<1>5. \A i \in 1 .. N : M[i] < M[N + 1]
  BY <1>1, <1>2
<1>6. \A i \in 1 .. N : L[i] < m
  BY <1>3, <1>5
<1>7. \A i \in 1 .. N : L[i] \in X \ {m}
  BY <1>4, <1>6
<1>8. \A x \in X \ {m} : \E i \in 1 .. N : L[i] = x
  <2> TAKE x \in X \ {m}
  <2>1. PICK i \in 1 .. N + 1 : M[i] = x
    BY <1>2
  <2>2. i \in 1 .. N
    BY <2>1, <1>3
  <2> QED
    BY <2>1, <2>2
<1>9. \A j, k \in 1 .. N : j < k => L[j] < L[k]
  BY <1>1, <1>2
<1>10. ListedAt(L, N, X \ {m})
  BY <1>7, <1>8, <1>9, Zenon DEF ListedAt
<1>11. Lists(L, X \ {m})
  BY <1>10, ListsByPlace, Zenon
<1> QED
  BY <1>1, <1>2, <1>3, <1>11, Zenon

(* H is the first h messages of the line L. *)
StartOf(H, h, L) == \A i \in 1 .. h : H[i] = L[i]

\* The first messages of the line list every message up to the last of them
\* that was not dropped.
LEMMA ListsPrefix ==
    ASSUME NEW N \in Nat, NEW T \in Nat, NEW D, NEW L, Len(L) = N, DOMAIN L = 1 .. N,
           Lists(L, (1 .. T) \ D), NEW h \in 1 .. N,
           NEW H, Len(H) = h, DOMAIN H = 1 .. h, StartOf(H, h, L)
    PROVE  Lists(H, (1 .. H[h]) \ D)
<1>0. \A i \in 1 .. h : H[i] = L[i]
  BY Zenon DEF StartOf
<1>1. /\ \A i \in 1 .. N : L[i] \in (1 .. T) \ D
      /\ \A x \in (1 .. T) \ D : \E i \in 1 .. N : L[i] = x
      /\ \A j, k \in 1 .. N : j < k => L[j] < L[k]
  <2>1. ListedAt(L, N, (1 .. T) \ D)
    BY ListsByPlace, Zenon
  <2> QED
    BY <2>1, Zenon DEF ListedAt
<1>2. h \in Nat /\ h \in 1 .. h /\ 1 .. h \subseteq 1 .. N
  OBVIOUS
<1>3. PICK m \in 1 .. T : m = H[h] /\ m = L[h]
  BY <1>0, <1>1, <1>2
<1>4. ASSUME NEW i \in 1 .. h PROVE H[i] \in (1 .. m) \ D
  <2>1. H[i] = L[i] /\ L[i] \in 1 .. T /\ L[i] \notin D
    BY <1>0, <1>1, <1>2
  <2>2. CASE i = h
    BY <2>1, <2>2, <1>3
  <2>3. CASE i # h
    <3>1. L[i] < L[h]
      BY <2>3, <1>1, <1>2
    <3> QED
      BY <2>1, <3>1, <1>3
  <2> QED
    BY <2>2, <2>3
<1>5. ASSUME NEW x \in (1 .. m) \ D PROVE \E i \in 1 .. h : H[i] = x
  <2>1. x \in (1 .. T) \ D
    OBVIOUS
  <2>2. PICK i \in 1 .. N : L[i] = x
    BY <2>1, <1>1
  <2>3. ~ (h < i)
    <3> SUFFICES ASSUME h < i PROVE FALSE
      OBVIOUS
    <3>1. L[h] < L[i]
      BY <1>1, <1>2
    <3> QED
      BY <3>1, <2>2, <1>3
  <2>4. i \in 1 .. h
    BY <2>3
  <2> QED
    BY <2>2, <2>4, <1>0
<1>6. \A j, k \in 1 .. h : j < k => H[j] < H[k]
  BY <1>0, <1>1, <1>2
<1>7. ListedAt(H, h, (1 .. m) \ D)
  BY <1>4, <1>5, <1>6, Zenon DEF ListedAt
<1> QED
  BY <1>2, <1>3, <1>7, ListsByPlace, Zenon

(* The messages of the line L that are in A are those at the places from   *)
(* lo to hi; C is the part of it that follows the first h.                 *)
AreAt(X, A, L, lo, hi) == \A x \in X : x \in A <=> \E i \in lo .. hi : L[i] = x
PartOf(C, c, L, h) == \A k \in 1 .. c : C[k] = L[h + k]
AllBefore(C, c, L, lo, hi) == \A k \in 1 .. c : \A i \in lo .. hi : C[k] < L[i]

\* The messages of the line after the first h and before the last n list what
\* the line lists, without those.
LEMMA ListsMiddle ==
    ASSUME NEW h \in Nat, NEW c \in Nat, NEW q \in Nat, q = h + c,
           NEW N \in Nat, q <= N, NEW X, X \subseteq Nat,
           NEW L, Len(L) = N, DOMAIN L = 1 .. N, Lists(L, X),
           NEW A, AreAt(X, A, L, 1, h), NEW B, AreAt(X, B, L, q + 1, N),
           NEW C, Len(C) = c, DOMAIN C = 1 .. c, PartOf(C, c, L, h)
    PROVE  Lists(C, X \ (A \cup B)) /\ AllBefore(C, c, L, q + 1, N)
<1>0. /\ \A x \in X : x \in A <=> \E i \in 1 .. h : L[i] = x
      /\ \A x \in X : x \in B <=> \E i \in q + 1 .. N : L[i] = x
      /\ \A k \in 1 .. c : C[k] = L[h + k]
  BY Zenon DEF AreAt, PartOf
<1>1. /\ \A i \in 1 .. N : L[i] \in X
      /\ \A x \in X : \E i \in 1 .. N : L[i] = x
      /\ \A j, k \in 1 .. N : j < k => L[j] < L[k]
  <2>1. ListedAt(L, N, X)
    BY ListsByPlace, Zenon
  <2> QED
    BY <2>1, Zenon DEF ListedAt
<1>2. ASSUME NEW j \in 1 .. N, NEW k \in 1 .. N, L[j] = L[k] PROVE j = k
  <2>1. L[j] \in Nat
    BY <1>1
  <2>2. ~ (j < k) /\ ~ (k < j)
    BY <2>1, <1>1, <1>2
  <2> QED
    BY <2>2
<1>3. \A k \in 1 .. c : h + k \in 1 .. N /\ h + k \notin 1 .. h /\ h + k \notin q + 1 .. N
  OBVIOUS
<1>4. 1 .. h \subseteq 1 .. N /\ q + 1 .. N \subseteq 1 .. N
  OBVIOUS
<1>5. ASSUME NEW k \in 1 .. c PROVE C[k] \in X \ (A \cup B)
  <2>1. C[k] = L[h + k] /\ L[h + k] \in X
    BY <1>0, <1>1, <1>3
  <2>2. L[h + k] \notin A
    <3>1. ASSUME NEW i \in 1 .. h PROVE L[i] # L[h + k]
      <4>1. i \in 1 .. N /\ h + k \in 1 .. N /\ i # h + k
        BY <1>3, <1>4
      <4> QED
        BY <4>1, <1>2
    <3> QED
      BY <3>1, <2>1, <1>0
  <2>3. L[h + k] \notin B
    <3>1. ASSUME NEW i \in q + 1 .. N PROVE L[i] # L[h + k]
      BY <1>2, <1>3, <1>4
    <3> QED
      BY <3>1, <2>1, <1>0
  <2> QED
    BY <2>1, <2>2, <2>3
<1>6. ASSUME NEW x \in X \ (A \cup B) PROVE \E k \in 1 .. c : C[k] = x
  <2>1. PICK i \in 1 .. N : L[i] = x
    BY <1>1
  <2>2. i \notin 1 .. h
    BY <2>1, <1>0
  <2>3. i \notin q + 1 .. N
    BY <2>1, <1>0
  <2>4. PICK k \in 1 .. c : i = h + k
    <3>1. i - h \in 1 .. c /\ i = h + (i - h)
      BY <2>2, <2>3
    <3> QED
      BY <3>1
  <2> QED
    BY <2>1, <2>4, <1>0
<1>7. ASSUME NEW j \in 1 .. c, NEW k \in 1 .. c, j < k PROVE C[j] < C[k]
  <2>1. h + j \in 1 .. N /\ h + k \in 1 .. N
    BY <1>3
  <2>2. h + j < h + k
    BY <1>7
  <2>3. L[h + j] < L[h + k]
    BY <2>1, <2>2, <1>1
  <2> QED
    BY <2>3, <1>0
<1>8. ListedAt(C, c, X \ (A \cup B))
  BY <1>5, <1>6, <1>7, Zenon DEF ListedAt
<1>9. Lists(C, X \ (A \cup B))
  BY <1>8, ListsByPlace, Zenon
<1>10. ASSUME NEW k \in 1 .. c, NEW i \in q + 1 .. N PROVE C[k] < L[i]
  <2>1. h + k \in 1 .. N /\ i \in 1 .. N /\ h + k < i
    BY <1>3, <1>4
  <2>2. L[h + k] < L[i]
    BY <2>1, <1>1
  <2> QED
    BY <2>2, <1>0
<1> QED
  BY <1>9, <1>10, Zenon DEF AllBefore

\* A sequence of c messages that lists a set of numbers lists c of them.
LEMMA ListsCardinality ==
    ASSUME NEW c \in Nat, NEW X, X \subseteq Nat,
           NEW C, Len(C) = c, DOMAIN C = 1 .. c, Lists(C, X)
    PROVE  Cardinality(X) = c
<1>1. /\ \A i \in 1 .. c : C[i] \in X
      /\ \A x \in X : \E i \in 1 .. c : C[i] = x
      /\ \A j, k \in 1 .. c : j < k => C[j] < C[k]
  <2>1. ListedAt(C, c, X)
    BY ListsByPlace, Zenon
  <2> QED
    BY <2>1, Zenon DEF ListedAt
<1>2. ASSUME NEW j \in 1 .. c, NEW k \in 1 .. c, C[j] = C[k] PROVE j = k
  <2>1. C[j] \in Nat
    BY <1>1
  <2>2. ~ (j < k) /\ ~ (k < j)
    BY <2>1, <1>1, <1>2
  <2> QED
    BY <2>2
<1> DEFINE F == [i \in 1 .. c |-> C[i]]
<1>3. F \in [1 .. c -> X] /\ DOMAIN F = 1 .. c
  BY <1>1
<1>4. F \in Injection(1 .. c, X)
  BY <1>2, <1>3 DEF Injection, IsInjective
<1>5. F \in Surjection(1 .. c, X)
  BY <1>1, <1>3 DEF Surjection
<1>6. ExistsBijection(1 .. c, X)
  BY <1>4, <1>5, Zenon DEF ExistsBijection, Bijection
<1>7. IsFiniteSet(1 .. c) /\ Cardinality(1 .. c) = c
  <2>1. 1 \in Int /\ c \in Int
    OBVIOUS
  <2>2. IsFiniteSet(1 .. c) /\ Cardinality(1 .. c) = IF 1 > c THEN 0 ELSE c - 1 + 1
    BY <2>1, FS_Interval, Zenon
  <2> QED
    BY <2>2
<1> QED
  BY <1>6, <1>7, FS_Bijection, Zenon

-----------------------------------------------------------------------------
(* The inductive invariant.                                                *)

Types == /\ vring \in Seq(Messages) /\ sgi \in BOOLEAN /\ nokick \in BOOLEAN
         /\ cb \in BOOLEAN /\ raced \in BOOLEAN
         /\ lock \in Tasks \cup {"free"}
         /\ packets \in [0 .. S - 1 -> Numbers]
         /\ packetsBegin \in 0 .. S - 1 /\ packetsEnd \in 0 .. S
         /\ pc \in [Tasks -> Places] /\ rp_hdr \in [Tasks -> Numbers]
         /\ sent \in Numbers /\ dropped \subseteq Messages
         /\ handled \in Seq(Numbers)

(* The stack of tasks, the most urgent one first. *)
Stack == /\ active \in Seq(Tasks)
         /\ \A t \in Tasks : pc[t] # "idle" <=> \E j \in 1 .. Len(active) : active[j] = t
         /\ \A j, k \in 1 .. Len(active) : j < k => Priority[active[j]] < Priority[active[k]]

(* Between platform_poll_noblock and the end of the ring; in ReadChannel   *)
(* with the callback set; where the end of the packet buffer moves.        *)
Receiving == {"get", "lookup", "call", "copy", "inc", "wrap", "full", "mark", "return"}
Reading == {"poll", "get", "lookup", "call", "return", "done"}
MovingEnd == {"inc", "wrap", "full", "mark"}

(* One task at a time takes messages off the ring: it has taken the kick,  *)
(* and no other kick is taken while a task is active.  T0 never buffers,   *)
(* because its callback is set, and it alone sends.                        *)
Control == /\ \A t \in Tasks : pc[t] \in Receiving => nokick = TRUE
           /\ \A t, u \in Tasks : pc[t] \in Receiving /\ pc[u] \in Receiving => t = u
           /\ pc["T0"] # "copy" /\ pc["T0"] \notin MovingEnd
           /\ \A t \in Tasks : t # "T0" => pc[t] \notin {"drain", "tx", "enqueue"}
           /\ cb = TRUE <=> pc["T0"] \in Reading
           /\ \A t \in Tasks : pc[t] \in {"copy", "inc"} => packetsEnd # S

(* While T0 has not raced, no task moves the end of the buffer with T0     *)
(* active, and each finds the end where it left it.                        *)
Apart == ~ raced =>
           /\ pc["T0"] # "idle" => \A t \in Tasks : pc[t] \notin MovingEnd
           /\ pc["T0"] \in Reading => packetsBegin = packetsEnd
           /\ \A t \in Tasks : /\ pc[t] = "inc" => packets[packetsEnd] = rp_hdr[t]
                               /\ pc[t] = "wrap" => packetsEnd # 0
                               /\ pc[t] \in {"full", "mark"} => packetsEnd # S
                               /\ pc[t] = "mark" => packetsBegin = packetsEnd

Enqueuing == IF pc["T0"] = "enqueue" THEN 1 ELSE 0

(* Every buffer for Linux is free, filled, or being filled by T0. *)
Sending == /\ txavail \in Nat /\ txfilled \in Nat /\ tick_count \in 0 .. Ticks
           /\ txavail + txfilled + Enqueuing = TxBuffers

(* The ring holds the messages that follow those taken off it. *)
Taken == sent - Len(vring)
OnRing == Taken \in Nat /\ \A k \in 1 .. Len(vring) : vring[k] = Taken + k

PastIncrement == {"wrap", "full", "mark"}
Past == IF \E t \in Tasks : pc[t] \in PastIncrement THEN 1 ELSE 0
Holding == {"lookup", "call", "copy", "inc"}
Held == IF \E t \in Tasks : pc[t] \in Holding THEN 1 ELSE 0
HandFull == \A t \in Tasks : pc[t] \in Holding => rp_hdr[t] # 0
HeldMessage == IF Held = 1 THEN rp_hdr[CHOOSE t \in Tasks : pc[t] \in Holding] ELSE 0

(* The messages taken off the ring and not dropped, in order. *)
Line == LineOf(handled, packets, packetsBegin, CountOf(packetsBegin, packetsEnd, Past),
               Held, HeldMessage)
Lined == ~ raced => dropped \subseteq 1 .. Taken /\ Lists(Line, (1 .. Taken) \ dropped)

IInv == Types /\ Stack /\ Control /\ Apart /\ Sending /\ OnRing /\ HandFull /\ Lined

-----------------------------------------------------------------------------
(* Facts of one state.                                                     *)

\* The task that runs is on the stack, and while it is not T0, T0 is not.
LEMMA RunningFacts ==
    ASSUME Types, Stack, NEW t \in Tasks, Running(t)
    PROVE  /\ pc[t] # "idle" /\ active \in Seq(Tasks) /\ Len(active) \in Nat /\ Len(active) > 0
           /\ active[1] = t
           /\ t # "T0" => pc["T0"] = "idle"
<1>1. /\ active \in Seq(Tasks) /\ Len(active) \in Nat /\ Len(active) > 0 /\ active[1] = t
  BY DEF Stack, Running
<1>2. pc[t] # "idle"
  BY <1>1 DEF Stack
<1>3. ASSUME t # "T0", pc["T0"] # "idle" PROVE FALSE
  <2>1. PICK j \in 1 .. Len(active) : active[j] = "T0"
    BY <1>3 DEF Stack, Tasks
  <2>2. 1 < j /\ 1 \in 1 .. Len(active)
    BY <1>1, <1>3, <2>1
  <2>3. Priority[t] < Priority["T0"]
    BY <1>1, <2>1, <2>2 DEF Stack
  <2> QED
    BY <2>3, <1>3 DEF Priority, Tasks
<1> QED
  BY <1>1, <1>2, <1>3

\* No task is active exactly when all are idle.
LEMMA AllIdle ==
    ASSUME Types, Stack, active = << >>, NEW t \in Tasks
    PROVE  pc[t] = "idle"
BY DEF Stack

\* The message in a task's hands is the one of the task that is at one of the
\* places where it has one.
LEMMA HeldIs ==
    ASSUME Control, NEW t \in Tasks, pc[t] \in Holding
    PROVE  Held = 1 /\ HeldMessage = rp_hdr[t]
<1>1. Holding \subseteq Receiving
  BY DEF Holding, Receiving
<1>2. \A u \in Tasks : pc[u] \in Holding => u = t
  BY <1>1 DEF Control
<1>3. (CHOOSE u \in Tasks : pc[u] \in Holding) = t
  BY <1>2, Zenon
<1>4. Held = 1
  BY DEF Held
<1> QED
  BY <1>3, <1>4, Zenon DEF HeldMessage

\* What the line is made of has its types.
LEMMA LineTypes ==
    ASSUME Types
    PROVE  /\ handled \in Seq(Numbers) /\ packets \in [0 .. S - 1 -> Numbers]
           /\ packetsBegin \in 0 .. S - 1 /\ packetsEnd \in 0 .. S
           /\ CountOf(packetsBegin, packetsEnd, Past) \in 0 .. S
           /\ Held \in 0 .. 1 /\ HeldMessage \in Numbers
<1>1. /\ handled \in Seq(Numbers) /\ packets \in [0 .. S - 1 -> Numbers]
      /\ packetsBegin \in 0 .. S - 1 /\ packetsEnd \in 0 .. S
  BY DEF Types
<1>2. CountOf(packetsBegin, packetsEnd, Past) \in 0 .. S
  <2>1. Past \in 0 .. 1
    BY DEF Past
  <2> QED
    BY <2>1, <1>1, CountRange
<1>3. Held \in 0 .. 1
  BY DEF Held
<1>4. 0 \in Numbers
  BY OpenAmpAssumption DEF Numbers
<1>5. CASE Held = 1
  <2>1. \E t \in Tasks : pc[t] \in Holding
    BY <1>5 DEF Held
  <2>2. (CHOOSE t \in Tasks : pc[t] \in Holding) \in Tasks
    BY <2>1, Zenon
  <2> QED
    BY <2>2, <1>1, <1>2, <1>3, <1>5 DEF HeldMessage, Types
<1>6. CASE Held # 1
  BY <1>1, <1>2, <1>3, <1>4, <1>6 DEF HeldMessage
<1> QED
  BY <1>5, <1>6

-----------------------------------------------------------------------------
(* Facts of a step.                                                        *)

\* A task that goes on and does not end leaves the stack as it is.
LEMMA GoStack ==
    ASSUME Types, Stack, NEW t \in Tasks, NEW to, pc[t] # "idle", to # "idle",
           Go(t, to), active' = active
    PROVE  Stack'
BY DEF Types, Stack, Go

\* A task that ends was the first of the stack.
LEMMA EndStack ==
    ASSUME Types, Stack, NEW t \in Tasks, Running(t), Go(t, "idle"), active' = Tail(active)
    PROVE  Stack'
<1>1. PICK n \in Nat : n = Len(active) /\ n > 0
  BY RunningFacts
<1>2. active \in Seq(Tasks) /\ active[1] = t
  BY RunningFacts
<1>3. /\ active' \in Seq(Tasks) /\ Len(active') = n - 1
      /\ \A j \in 1 .. n - 1 : active'[j] = active[j + 1] /\ j + 1 \in 1 .. n
  BY <1>1, <1>2
<1>4. \A j, k \in 1 .. n : j < k => Priority[active[j]] < Priority[active[k]]
  BY <1>1 DEF Stack
<1>5. ASSUME NEW j \in 1 .. n - 1, NEW k \in 1 .. n - 1, j < k
      PROVE  Priority[active'[j]] < Priority[active'[k]]
  <2>1. j + 1 < k + 1 /\ j + 1 \in 1 .. n /\ k + 1 \in 1 .. n
    BY <1>3, <1>5
  <2>2. Priority[active[j + 1]] < Priority[active[k + 1]]
    BY <2>1, <1>4
  <2> QED
    BY <2>2, <1>3
<1>6. \A u \in Tasks : Priority[u] \in Int
  BY DEF Priority, Tasks
<1>7. ASSUME NEW j \in 1 .. n - 1 PROVE active'[j] # t
  <2>1. 1 < j + 1 /\ j + 1 \in 1 .. n /\ 1 \in 1 .. n
    BY <1>1, <1>3
  <2>2. Priority[t] < Priority[active[j + 1]]
    BY <2>1, <1>2, <1>4
  <2> QED
    BY <2>2, <1>3, <1>6
<1>8. ASSUME NEW u \in Tasks
      PROVE  pc'[u] # "idle" <=> \E j \in 1 .. n - 1 : active'[j] = u
  <2>1. CASE u = t
    BY <2>1, <1>7 DEF Go, Types
  <2>2. CASE u # t
    <3>1. pc'[u] = pc[u]
      BY <2>2 DEF Go, Types
    <3>2. pc[u] # "idle" <=> \E j \in 1 .. n : active[j] = u
      BY <1>1 DEF Stack
    <3>3. ASSUME NEW j \in 1 .. n, active[j] = u PROVE \E k \in 1 .. n - 1 : active'[k] = u
      <4>1. j # 1
        BY <3>3, <2>2, <1>2
      <4>2. j - 1 \in 1 .. n - 1 /\ (j - 1) + 1 = j
        BY <4>1, <1>1
      <4>3. active'[j - 1] = active[j]
        BY <4>2, <1>3
      <4> QED
        BY <4>2, <4>3, <3>3
    <3>4. ASSUME NEW k \in 1 .. n - 1, active'[k] = u PROVE \E j \in 1 .. n : active[j] = u
      BY <3>4, <1>3
    <3> QED
      BY <3>1, <3>2, <3>3, <3>4
  <2> QED
    BY <2>1, <2>2
<1> QED
  BY <1>3, <1>5, <1>8 DEF Stack

\* The message in a task's hands after a step.
LEMMA HeldNext ==
    ASSUME Control', NEW t \in Tasks, pc'[t] \in Holding
    PROVE  Held' = 1 /\ HeldMessage' = rp_hdr'[t]
<1>1. Holding \subseteq Receiving
  BY DEF Holding, Receiving
<1>2. \A u \in Tasks : pc'[u] \in Holding => u = t
  BY <1>1 DEF Control
<1>3. (CHOOSE u \in Tasks : pc'[u] \in Holding) = t
  BY <1>2, Zenon
<1>4. Held' = 1
  BY DEF Held
<1> QED
  BY <1>3, <1>4, Zenon DEF HeldMessage

\* A step that touches neither the buffer nor the ring, takes no message in
\* hand and puts none down, leaves the line as it is.
LEMMA QuietLined ==
    ASSUME Types, Control, Control', Lined,
           UNCHANGED <<buffer, handled, dropped, sent, vring, rp_hdr>>,
           raced => raced',
           \A u \in Tasks : /\ pc'[u] \in Holding <=> pc[u] \in Holding
                            /\ pc'[u] \in PastIncrement <=> pc[u] \in PastIncrement
    PROVE  Lined'
<1>1. Past' = Past
  BY DEF Past
<1>2. Held' = Held
  BY DEF Held
<1>3. HeldMessage' = HeldMessage
  <2>1. CASE Held = 1
    <3>1. PICK t \in Tasks : pc[t] \in Holding
      BY <2>1 DEF Held
    <3>2. HeldMessage = rp_hdr[t]
      BY <3>1, HeldIs
    <3>3. HeldMessage' = rp_hdr'[t]
      BY <3>1, HeldNext
    <3> QED
      BY <3>2, <3>3
  <2>2. CASE Held # 1
    BY <2>2, <1>2 DEF HeldMessage
  <2> QED
    BY <2>1, <2>2
<1>4. /\ packets' = packets /\ packetsBegin' = packetsBegin /\ packetsEnd' = packetsEnd
      /\ handled' = handled /\ dropped' = dropped /\ Taken' = Taken
  BY DEF buffer, Taken
<1>5. Line' = Line
  BY <1>1, <1>2, <1>3, <1>4, Zenon DEF Line
<1> QED
  BY <1>4, <1>5, Zenon DEF Lined

-----------------------------------------------------------------------------
(* The invariant holds at the start, and every step keeps it.              *)

\* The ring, the buffer and the line are empty when the scheduler starts.
LEMMA InitIInv == Init => IInv
<1> SUFFICES ASSUME Init PROVE IInv
  OBVIOUS
<1>0. S \in Nat \ {0} /\ MaxMessages \in Nat /\ TxBuffers \in Nat /\ Ticks \in Nat /\ 0 \in Numbers
  BY OpenAmpAssumption DEF S, Numbers
<1>1. Types
  BY <1>0 DEF Init, Types, Places, S, Numbers
<1>2. \A t \in Tasks : pc[t] = "idle"
  BY DEF Init
<1>3. Stack
  BY <1>2 DEF Init, Stack
<1>4. Control
  BY <1>2 DEF Init, Control, Receiving, Reading, MovingEnd, Tasks
<1>5. Apart
  BY <1>2 DEF Apart, MovingEnd, Reading, Tasks
<1>6. Sending
  BY <1>0, <1>2 DEF Init, Sending, Enqueuing, Tasks
<1>7. OnRing /\ Taken = 0
  <2>1. sent = 0 /\ Len(vring) = 0
    BY DEF Init
  <2>2. Taken = 0
    BY <2>1 DEF Taken
  <2> QED
    BY <2>1, <2>2 DEF OnRing
<1>8. Lined
  <2>1. Past = 0 /\ Held = 0
    BY <1>2 DEF Past, Held, PastIncrement, Holding
  <2>2. CountOf(packetsBegin, packetsEnd, Past) = 0
    BY <1>0, <2>1 DEF CountOf, Init
  <2>3. Line = LineOf(handled, packets, packetsBegin, 0, 0, HeldMessage)
    BY <2>1, <2>2, Zenon DEF Line
  <2>4. Len(Line) = 0 /\ DOMAIN Line = 1 .. 0
    <3>1. Len(handled) = 0 /\ 0 \in 0 .. S /\ 0 \in 0 .. 1
      BY <1>0 DEF Init
    <3>2. /\ packets \in [0 .. S - 1 -> Numbers] /\ packetsBegin \in 0 .. S - 1
          /\ HeldMessage \in Numbers /\ handled \in Seq(Numbers)
      BY <1>1, LineTypes, Zenon
    <3>3. PICK c \in 0 .. S, n \in 0 .. 1 : c = 0 /\ n = 0
      BY <3>1
    <3>4. Line = LineOf(handled, packets, packetsBegin, c, n, HeldMessage)
      BY <3>3, <2>3, Zenon
    <3>5. Len(Line) = Len(handled) + c + n /\ DOMAIN Line = 1 .. Len(handled) + c + n
      BY <3>2, <3>4, LineLen
    <3> QED
      BY <3>1, <3>3, <3>5
  <2>5. ListedAt(Line, 0, (1 .. Taken) \ dropped)
    BY <1>7 DEF ListedAt
  <2>6. Lists(Line, (1 .. Taken) \ dropped)
    BY <2>4, <2>5, ListsByPlace
  <2> QED
    BY <2>6 DEF Lined, Init
<1>9. HandFull
  BY <1>2 DEF HandFull, Holding
<1> QED
  BY <1>9, <1>1, <1>3, <1>4, <1>5, <1>6, <1>7, <1>8 DEF IInv

\* Linux puts the next message at the end of the ring.
LEMMA LinuxSendIInv ==
    ASSUME IInv, LinuxSend
    PROVE  IInv'
<1> USE DEF LinuxSend
<1>0. Types /\ Stack /\ Control /\ Apart /\ Sending /\ OnRing /\ HandFull /\ Lined
  BY DEF IInv
<1>1. MaxMessages \in Nat /\ sent \in Nat /\ sent' = sent + 1 /\ sent + 1 \in Messages
  BY <1>0, OpenAmpAssumption DEF Types, Numbers, Messages
<1>2. vring \in Seq(Messages) /\ vring' = Append(vring, sent + 1)
  BY <1>0 DEF Types
<1>3. /\ vring' \in Seq(Messages) /\ Len(vring) \in Nat /\ Len(vring') = Len(vring) + 1
      /\ \A k \in 1 .. Len(vring) : vring'[k] = vring[k]
      /\ vring'[Len(vring) + 1] = sent + 1
  BY <1>1, <1>2
<1>4. Types'
  BY <1>0, <1>1, <1>3 DEF Types, Numbers, Messages, buffer
<1>5. Taken' = Taken
  BY <1>1, <1>3 DEF Taken
<1>6. OnRing'
  <2>1. Taken \in Nat /\ \A k \in 1 .. Len(vring) : vring[k] = Taken + k
    BY <1>0 DEF OnRing
  <2>2. Taken + (Len(vring) + 1) = sent + 1
    BY <1>1, <1>3 DEF Taken
  <2>3. ASSUME NEW k \in 1 .. Len(vring) + 1 PROVE vring'[k] = Taken + k
    BY <2>1, <2>2, <1>3
  <2> QED
    BY <2>1, <2>3, <1>3, <1>5 DEF OnRing
<1>7. Stack' /\ Control' /\ Apart' /\ HandFull'
  BY <1>0 DEF HandFull, Stack, Control, Apart, buffer
<1>8. Sending'
  BY <1>0 DEF Sending, Enqueuing, tx
<1>9. Past' = Past /\ Held' = Held /\ HeldMessage' = HeldMessage
  BY DEF Past, Held, HeldMessage
<1>10. Line' = Line
  BY <1>9 DEF Line, buffer
<1>11. Lined'
  BY <1>0, <1>5, <1>10 DEF Lined
<1> QED
  BY <1>4, <1>6, <1>7, <1>8, <1>11 DEF IInv

\* Linux gives a buffer back.
LEMMA LinuxReceiveIInv ==
    ASSUME IInv, LinuxReceive
    PROVE  IInv'
<1> USE DEF LinuxReceive
<1>0. Types /\ Stack /\ Control /\ Apart /\ Sending /\ OnRing /\ HandFull /\ Lined
  BY DEF IInv
<1>1. Sending'
  BY <1>0, OpenAmpAssumption DEF Sending, Enqueuing
<1>2. Types' /\ Stack' /\ Control' /\ Apart' /\ OnRing' /\ HandFull'
  BY <1>0 DEF HandFull, Types, Stack, Control, Apart, OnRing, Taken, ring, buffer, history
<1>3. Lined'
  BY <1>0, <1>2, QuietLined DEF ring, buffer, history
<1> QED
  BY <1>1, <1>2, <1>3 DEF IInv

\* The kick is taken while no task is active.
LEMMA KickIInv ==
    ASSUME IInv, zynq_a9_proc_irq_handler
    PROVE  IInv'
<1> USE DEF zynq_a9_proc_irq_handler
<1>0. Types /\ Stack /\ Control /\ Apart /\ Sending /\ OnRing /\ HandFull /\ Lined
  BY DEF IInv
<1>1. \A t \in Tasks : pc[t] = "idle"
  BY <1>0, AllIdle
<1>2. Control'
  BY <1>0, <1>1 DEF Control, Receiving, buffer
<1>3. Types' /\ Stack' /\ Apart' /\ Sending' /\ OnRing' /\ HandFull'
  BY <1>0 DEF HandFull, Types, Stack, Apart, Sending, Enqueuing, OnRing, Taken, buffer, history, tx
<1>4. Lined'
  BY <1>0, <1>2, QuietLined DEF buffer, history
<1> QED
  BY <1>2, <1>3, <1>4 DEF IInv

\* A task starts only over less urgent ones, so it was idle.
LEMMA StartStack ==
    ASSUME Types, Stack, NEW t \in Tasks, StartTask(t)
    PROVE  Stack' /\ pc[t] = "idle"
<1>1. PICK n \in Nat : n = Len(active)
  BY DEF Stack
<1>2. active \in Seq(Tasks) /\ active' = <<t>> \o active
  BY DEF Stack, StartTask
<1>3. /\ active' \in Seq(Tasks) /\ Len(active') = n + 1 /\ active'[1] = t
      /\ \A j \in 1 .. n : active'[j + 1] = active[j]
  BY <1>1, <1>2
<1>4. \A u \in Tasks : Priority[u] \in Int
  BY DEF Priority, Tasks
<1>5. \A j \in 1 .. n : active[j] \in Tasks
  BY <1>1, <1>2
<1>6. \A j, k \in 1 .. n : j < k => Priority[active[j]] < Priority[active[k]]
  BY <1>1 DEF Stack
<1>7. ASSUME NEW j \in 1 .. n PROVE Priority[t] < Priority[active[j]]
  <2>1. n > 0 /\ 1 \in 1 .. n
    OBVIOUS
  <2>2. active # << >> /\ Head(active) = active[1]
    BY <2>1, <1>1, <1>2
  <2>3. Priority[t] < Priority[active[1]]
    BY <2>2 DEF StartTask
  <2>4. CASE j = 1
    BY <2>3, <2>4
  <2>5. CASE j # 1
    <3>1. Priority[active[1]] < Priority[active[j]]
      BY <2>1, <2>5, <1>6
    <3> QED
      BY <3>1, <2>1, <2>3, <1>4, <1>5
  <2> QED
    BY <2>4, <2>5
<1>8. \A j \in 1 .. n : active[j] # t
  BY <1>4, <1>5, <1>7
<1>9. pc[t] = "idle"
  BY <1>1, <1>8 DEF Stack
<1>10. \A u \in Tasks : pc'[u] # "idle" <=> u = t \/ pc[u] # "idle"
  BY DEF StartTask, Types
<1>11. ASSUME NEW u \in Tasks
       PROVE  pc'[u] # "idle" <=> \E j \in 1 .. n + 1 : active'[j] = u
  <2>1. pc[u] # "idle" <=> \E j \in 1 .. n : active[j] = u
    BY <1>1 DEF Stack
  <2>2. CASE u = t
    <3>1. 1 \in 1 .. n + 1
      OBVIOUS
    <3> QED
      BY <2>2, <3>1, <1>3, <1>10
  <2>3. CASE u # t
    <3>1. ASSUME NEW j \in 1 .. n, active[j] = u PROVE \E k \in 1 .. n + 1 : active'[k] = u
      <4>1. j + 1 \in 1 .. n + 1 /\ active'[j + 1] = u
        BY <3>1, <1>3
      <4> QED
        BY <4>1
    <3>2. ASSUME NEW k \in 1 .. n + 1, active'[k] = u PROVE \E j \in 1 .. n : active[j] = u
      <4>1. k # 1
        BY <3>2, <2>3, <1>3
      <4>2. PICK j \in 1 .. n : k = j + 1
        <5>1. k - 1 \in 1 .. n /\ k = (k - 1) + 1
          BY <4>1
        <5> QED
          BY <5>1
      <4>3. active[j] = u
        BY <4>2, <3>2, <1>3
      <4> QED
        BY <4>3
    <3> QED
      BY <3>1, <3>2, <2>1, <2>3, <1>10
  <2> QED
    BY <2>2, <2>3
<1>12. ASSUME NEW j \in 1 .. n + 1, NEW k \in 1 .. n + 1, j < k
       PROVE  Priority[active'[j]] < Priority[active'[k]]
  <2>1. PICK m \in 1 .. n : k = m + 1
    <3>1. k - 1 \in 1 .. n /\ k = (k - 1) + 1
      BY <1>12
    <3> QED
      BY <3>1
  <2>2. active'[k] = active[m]
    BY <2>1, <1>3
  <2>3. CASE j = 1
    BY <2>2, <2>3, <1>3, <1>7
  <2>4. CASE j # 1
    <3>1. PICK l \in 1 .. n : j = l + 1
      <4>1. j - 1 \in 1 .. n /\ j = (j - 1) + 1
        BY <2>4
      <4> QED
        BY <4>1
    <3>2. l < m /\ active'[j] = active[l]
      BY <3>1, <2>1, <1>3, <1>12
    <3> QED
      BY <3>2, <2>2, <1>6
  <2> QED
    BY <2>3, <2>4
<1> QED
  BY <1>3, <1>9, <1>11, <1>12 DEF Stack

\* A task starts; when T0 does, no task is at a delicate place, or it races.
LEMMA StartTaskIInv ==
    ASSUME IInv, NEW t \in Tasks, StartTask(t)
    PROVE  IInv'
<1>0. Types /\ Stack /\ Control /\ Apart /\ Sending /\ OnRing /\ HandFull /\ Lined
  BY DEF IInv
<1>1. Stack' /\ pc[t] = "idle"
  BY <1>0, StartStack
<1>2. /\ UNCHANGED <<ring, lock, tx, buffer, cb, rp_hdr, sent, handled, dropped>>
      /\ raced' = (raced \/ (t = "T0" /\ \E u \in Tasks : Delicate(u)))
      /\ pc' = [pc EXCEPT ![t] = IF t = "T0" THEN "drain" ELSE "poll"]
  BY DEF StartTask
<1>3. /\ \A u \in Tasks : u # t => pc'[u] = pc[u]
      /\ pc'[t] = IF t = "T0" THEN "drain" ELSE "poll"
      /\ pc' \in [Tasks -> Places]
  BY <1>0, <1>2 DEF Types, Places
<1>4. Types'
  BY <1>0, <1>2, <1>3 DEF Types, ring, buffer
<1>5. Control'
  BY <1>0, <1>1, <1>2, <1>3 DEF Control, Receiving, Reading, MovingEnd, ring, buffer, Tasks
<1>6. raced => raced'
  BY <1>2
<1>7. Apart'
  <2> SUFFICES ASSUME ~ raced' PROVE Apart'
    BY DEF Apart
  <2>1. ~ raced /\ (t = "T0" => \A u \in Tasks : ~ Delicate(u))
    BY <1>2
  <2>2. t = "T0" => \A u \in Tasks : pc[u] \notin MovingEnd
    BY <2>1 DEF Delicate, MovingEnd
  <2> QED
    BY <2>1, <2>2, <1>0, <1>2, <1>3 DEF Apart, Reading, MovingEnd, buffer, Tasks
<1>8. Sending' /\ OnRing'
  BY <1>0, <1>1, <1>2, <1>3 DEF Sending, Enqueuing, OnRing, Taken, tx, ring, Tasks
<1>9. Lined'
  <2>1. \A u \in Tasks : /\ pc'[u] \in Holding <=> pc[u] \in Holding
                         /\ pc'[u] \in PastIncrement <=> pc[u] \in PastIncrement
    BY <1>1, <1>3 DEF Holding, PastIncrement
  <2> QED
    BY <2>1, <1>0, <1>2, <1>5, <1>6, QuietLined DEF ring
<1>10. HandFull'
  BY <1>0, <1>2, <1>3 DEF HandFull, Holding
<1> QED
  BY <1>10, <1>1, <1>4, <1>5, <1>7, <1>8, <1>9 DEF IInv

\* What is left to show of a step that touches neither the buffer nor the ring
\* and neither takes a message in hand nor puts one down.
LEMMA QuietIInv ==
    ASSUME IInv, Stack', Control', Apart', Sending', pc' \in [Tasks -> Places],
           lock' \in Tasks \cup {"free"}, nokick' \in BOOLEAN, cb' \in BOOLEAN,
           UNCHANGED <<vring, sgi, buffer, rp_hdr, history>>,
           \A u \in Tasks : /\ pc'[u] \in Holding <=> pc[u] \in Holding
                            /\ pc'[u] \in PastIncrement <=> pc[u] \in PastIncrement
    PROVE  IInv'
<1>0. Types /\ Control /\ OnRing /\ HandFull /\ Lined
  BY DEF IInv
<1>1. Types'
  BY <1>0 DEF Types, buffer, history
<1>2. OnRing'
  BY <1>0 DEF OnRing, Taken, history
<1>3. Lined'
  BY <1>0, QuietLined DEF history
<1>4. HandFull'
  BY <1>0 DEF HandFull
<1> QED
  BY <1>1, <1>2, <1>3, <1>4 DEF IInv

\* What a step from one place of a task to another does to the places.
LEMMA GoFacts ==
    ASSUME Types, NEW t \in Tasks, NEW to \in Places, Go(t, to)
    PROVE  /\ pc' \in [Tasks -> Places] /\ pc'[t] = to
           /\ \A u \in Tasks : u # t => pc'[u] = pc[u]
BY DEF Types, Go

\* A task takes the lock of the device.
LEMMA AcquireIInv ==
    ASSUME IInv, NEW t \in Tasks, metal_mutex_acquire(t)
    PROVE  IInv'
<1>0. Types /\ Stack /\ Control /\ Apart /\ Sending
  BY DEF IInv
<1>1. UNCHANGED <<ring, tx, buffer, cb, active, pc, rp_hdr, history>> /\ lock' \in Tasks
  BY DEF metal_mutex_acquire
<1>2. Stack' /\ Control' /\ Apart' /\ Sending'
  BY <1>0, <1>1 DEF Stack, Control, Apart, Sending, Enqueuing, ring, tx, buffer, history
<1>3. pc' \in [Tasks -> Places] /\ nokick' \in BOOLEAN /\ cb' \in BOOLEAN
  BY <1>0, <1>1 DEF Types, ring
<1> QED
  BY <1>1, <1>2, <1>3, QuietIInv DEF ring

\* T0 has emptied the buffer and polls, with its callback set.
LEMMA DrainedIInv ==
    ASSUME IInv, Drained
    PROVE  IInv'
<1>0. Types /\ Stack /\ Control /\ Apart /\ Sending
  BY DEF IInv
<1>1. /\ At("T0", "drain") /\ packetsBegin = packetsEnd /\ cb' = TRUE /\ Go("T0", "poll")
      /\ UNCHANGED <<ring, lock, tx, buffer, active, rp_hdr, history>>
  BY DEF Drained
<1>2. "T0" \in Tasks /\ "poll" \in Places /\ pc["T0"] = "drain" /\ Running("T0")
  BY <1>1 DEF Tasks, Places, At
<1>3. /\ pc' \in [Tasks -> Places] /\ pc'["T0"] = "poll"
      /\ \A u \in Tasks : u # "T0" => pc'[u] = pc[u]
  BY <1>0, <1>1, <1>2, GoFacts
<1>4. Stack'
  BY <1>0, <1>1, <1>2, GoStack
<1>5. Control'
  BY <1>0, <1>1, <1>2, <1>3 DEF Control, Receiving, Reading, MovingEnd, ring, buffer
<1>6. Apart'
  BY <1>0, <1>1, <1>2, <1>3 DEF Apart, Reading, MovingEnd, buffer, history
<1>7. Sending'
  BY <1>0, <1>1, <1>2, <1>3 DEF Sending, Enqueuing, tx
<1>8. \A u \in Tasks : /\ pc'[u] \in Holding <=> pc[u] \in Holding
                       /\ pc'[u] \in PastIncrement <=> pc[u] \in PastIncrement
  BY <1>2, <1>3 DEF Holding, PastIncrement
<1>9. lock' \in Tasks \cup {"free"} /\ nokick' \in BOOLEAN
  BY <1>0, <1>1 DEF Types, ring
<1> QED
  BY <1>1, <1>3, <1>4, <1>5, <1>6, <1>7, <1>8, <1>9, QuietIInv DEF ring

\* A poll that finds a kick makes its task the one that takes messages off the
\* ring: no other was, or the kick would have been taken already.
LEMMA PollIInv ==
    ASSUME IInv, NEW t \in Tasks, platform_poll_noblock(t)
    PROVE  IInv'
<1>0. Types /\ Stack /\ Control /\ Apart /\ Sending
  BY DEF IInv
<1>1. /\ At(t, "poll") /\ nokick' = TRUE
      /\ UNCHANGED <<vring, sgi, lock, tx, buffer, cb, active, rp_hdr, history>>
  BY DEF platform_poll_noblock
<1>2. PICK to \in {"done", "get"} : Go(t, to) /\ (to = "get" => nokick = FALSE)
  BY <1>0 DEF platform_poll_noblock, Types
<1>3. to \in Places /\ to # "idle" /\ pc[t] = "poll" /\ Running(t)
  BY <1>1 DEF Places, At
<1>4. /\ pc' \in [Tasks -> Places] /\ pc'[t] = to
      /\ \A u \in Tasks : u # t => pc'[u] = pc[u]
  BY <1>0, <1>2, <1>3, GoFacts
<1>5. Stack'
  BY <1>0, <1>1, <1>2, <1>3, GoStack
<1>6. Control'
  <2>1. to = "get" => \A u \in Tasks : pc[u] \notin Receiving
    BY <1>0, <1>2 DEF Control
  <2> QED
    BY <2>1, <1>0, <1>1, <1>2, <1>3, <1>4 DEF Control, Receiving, Reading, MovingEnd, buffer, Tasks
<1>7. Apart'
  BY <1>0, <1>1, <1>2, <1>3, <1>4 DEF Apart, Reading, MovingEnd, buffer, history, Tasks
<1>8. Sending'
  BY <1>0, <1>1, <1>2, <1>3, <1>4 DEF Sending, Enqueuing, tx, Tasks
<1>9. \A u \in Tasks : /\ pc'[u] \in Holding <=> pc[u] \in Holding
                       /\ pc'[u] \in PastIncrement <=> pc[u] \in PastIncrement
  BY <1>2, <1>3, <1>4 DEF Holding, PastIncrement
<1>10. lock' \in Tasks \cup {"free"} /\ nokick' \in BOOLEAN /\ cb' \in BOOLEAN
  BY <1>0, <1>1 DEF Types
<1> QED
  BY <1>1, <1>4, <1>5, <1>6, <1>7, <1>8, <1>9, <1>10, QuietIInv

\* The end of ReadChannel: T0 takes its callback back and goes on to send; the
\* other tasks end.
LEMMA ReadDoneIInv ==
    ASSUME IInv, NEW t \in Tasks, ReadDone(t)
    PROVE  IInv'
<1>0. Types /\ Stack /\ Control /\ Apart /\ Sending
  BY DEF IInv
<1>1. /\ At(t, "done")
      /\ UNCHANGED <<ring, lock, txavail, txfilled, buffer, rp_hdr, history>>
  BY DEF ReadDone
<1>2. pc[t] = "done" /\ Running(t)
  BY <1>1 DEF At
<1>3. lock' \in Tasks \cup {"free"} /\ nokick' \in BOOLEAN
  BY <1>0, <1>1 DEF Types, ring
<1>4. CASE t = "T0"
  <2>1. cb' = FALSE /\ tick_count' = Ticks /\ Go(t, "tx") /\ active' = active
    BY <1>4 DEF ReadDone
  <2>2. /\ pc' \in [Tasks -> Places] /\ pc'[t] = "tx"
        /\ \A u \in Tasks : u # t => pc'[u] = pc[u]
    BY <2>1, <1>0, GoFacts DEF Places
  <2>3. Stack'
    BY <2>1, <1>0, <1>2, GoStack
  <2>4. Control'
    BY <2>1, <2>2, <1>0, <1>1, <1>2, <1>4
       DEF Control, Receiving, Reading, MovingEnd, ring, buffer
  <2>5. Apart'
    BY <2>2, <1>0, <1>1, <1>2, <1>4 DEF Apart, Reading, MovingEnd, buffer, history
  <2>6. Sending'
    <3>1. Enqueuing' = Enqueuing
      BY <2>2, <1>2, <1>4 DEF Enqueuing
    <3>2. tick_count' \in 0 .. Ticks
      BY <2>1, OpenAmpAssumption
    <3> QED
      BY <3>1, <3>2, <1>0, <1>1 DEF Sending
  <2>7. \A u \in Tasks : /\ pc'[u] \in Holding <=> pc[u] \in Holding
                         /\ pc'[u] \in PastIncrement <=> pc[u] \in PastIncrement
    BY <2>2, <1>2 DEF Holding, PastIncrement
  <2>8. cb' \in BOOLEAN
    BY <2>1
  <2> QED
    BY <2>2, <2>3, <2>4, <2>5, <2>6, <2>7, <2>8, <1>1, <1>3, QuietIInv DEF ring
<1>5. CASE t # "T0"
  <2>1. cb' = cb /\ tick_count' = tick_count /\ Go(t, "idle") /\ active' = Tail(active)
    BY <1>5 DEF ReadDone
  <2>2. /\ pc' \in [Tasks -> Places] /\ pc'[t] = "idle"
        /\ \A u \in Tasks : u # t => pc'[u] = pc[u]
    BY <2>1, <1>0, GoFacts DEF Places
  <2>3. Stack'
    BY <2>1, <1>0, <1>2, EndStack
  <2>4. Control'
    BY <2>1, <2>2, <1>0, <1>1, <1>2, <1>5
       DEF Control, Receiving, Reading, MovingEnd, ring, buffer, Tasks
  <2>5. Apart'
    BY <2>2, <1>0, <1>1, <1>2, <1>5 DEF Apart, Reading, MovingEnd, buffer, history, Tasks
  <2>6. Sending'
    <3>1. Enqueuing' = Enqueuing
      BY <2>2, <1>5 DEF Enqueuing, Tasks
    <3> QED
      BY <3>1, <2>1, <1>0, <1>1 DEF Sending
  <2>7. \A u \in Tasks : /\ pc'[u] \in Holding <=> pc[u] \in Holding
                         /\ pc'[u] \in PastIncrement <=> pc[u] \in PastIncrement
    BY <2>2, <1>2 DEF Holding, PastIncrement
  <2>8. cb' \in BOOLEAN
    BY <2>1, <1>0 DEF Types
  <2> QED
    BY <2>2, <2>3, <2>4, <2>5, <2>6, <2>7, <2>8, <1>1, <1>3, QuietIInv DEF ring
<1> QED
  BY <1>4, <1>5

\* The endpoint of the message is found.
LEMMA LookupIInv ==
    ASSUME IInv, NEW t \in Tasks, rpmsg_get_ept_from_addr(t)
    PROVE  IInv'
<1>0. Types /\ Stack /\ Control /\ Apart /\ Sending
  BY DEF IInv
<1>1. /\ At(t, "lookup") /\ lock' = "free" /\ Go(t, "call")
      /\ UNCHANGED <<ring, tx, buffer, cb, active, rp_hdr, history>>
  BY DEF rpmsg_get_ept_from_addr, Locked
<1>2. pc[t] = "lookup" /\ Running(t)
  BY <1>1 DEF At
<1>3. /\ pc' \in [Tasks -> Places] /\ pc'[t] = "call"
      /\ \A u \in Tasks : u # t => pc'[u] = pc[u]
  BY <1>0, <1>1, GoFacts DEF Places
<1>4. Stack'
  BY <1>0, <1>1, <1>2, GoStack
<1>5. Control'
  BY <1>0, <1>1, <1>2, <1>3 DEF Control, Receiving, Reading, MovingEnd, ring, buffer, Tasks
<1>6. Apart'
  BY <1>0, <1>1, <1>2, <1>3 DEF Apart, Reading, MovingEnd, buffer, history, Tasks
<1>7. Sending'
  BY <1>0, <1>1, <1>2, <1>3 DEF Sending, Enqueuing, tx, Tasks
<1>8. \A u \in Tasks : /\ pc'[u] \in Holding <=> pc[u] \in Holding
                       /\ pc'[u] \in PastIncrement <=> pc[u] \in PastIncrement
  BY <1>2, <1>3 DEF Holding, PastIncrement
<1>9. lock' \in Tasks \cup {"free"} /\ nokick' \in BOOLEAN /\ cb' \in BOOLEAN
  BY <1>0, <1>1 DEF Types, ring
<1> QED
  BY <1>1, <1>3, <1>4, <1>5, <1>6, <1>7, <1>8, <1>9, QuietIInv DEF ring

\* A message for which there is no callback and a free place is to be
\* buffered, by a task other than T0.
LEMMA CallBufferIInv ==
    ASSUME IInv, NEW t \in Tasks, CallBuffer(t)
    PROVE  IInv'
<1>0. Types /\ Stack /\ Control /\ Apart /\ Sending
  BY DEF IInv
<1>1. /\ At(t, "call") /\ ~ cb /\ packetsEnd # S /\ Go(t, "copy")
      /\ UNCHANGED <<ring, lock, tx, buffer, cb, active, rp_hdr, history>>
  BY DEF CallBuffer, IsFull, S
<1>2. pc[t] = "call" /\ Running(t)
  BY <1>1 DEF At
<1>3. /\ pc' \in [Tasks -> Places] /\ pc'[t] = "copy"
      /\ \A u \in Tasks : u # t => pc'[u] = pc[u]
  BY <1>0, <1>1, GoFacts DEF Places
<1>4. Stack'
  BY <1>0, <1>1, <1>2, GoStack
<1>5. t # "T0"
  BY <1>0, <1>1, <1>2 DEF Control, Reading, Types
<1>6. Control'
  BY <1>0, <1>1, <1>2, <1>3, <1>5 DEF Control, Receiving, Reading, MovingEnd, ring, buffer, Tasks
<1>7. Apart'
  BY <1>0, <1>1, <1>2, <1>3, <1>5 DEF Apart, Reading, MovingEnd, buffer, history, Tasks
<1>8. Sending'
  BY <1>0, <1>1, <1>2, <1>3, <1>5 DEF Sending, Enqueuing, tx, Tasks
<1>9. \A u \in Tasks : /\ pc'[u] \in Holding <=> pc[u] \in Holding
                       /\ pc'[u] \in PastIncrement <=> pc[u] \in PastIncrement
  BY <1>2, <1>3 DEF Holding, PastIncrement
<1>10. lock' \in Tasks \cup {"free"} /\ nokick' \in BOOLEAN /\ cb' \in BOOLEAN
  BY <1>0, <1>1 DEF Types, ring
<1> QED
  BY <1>1, <1>3, <1>4, <1>6, <1>7, <1>8, <1>9, <1>10, QuietIInv DEF ring

\* What is left to show of a step of T0's rpmsg_send: the stack and the buffers
\* for Linux.
LEMMA SendIInv ==
    ASSUME IInv, Running("T0"), pc["T0"] \in {"tx", "enqueue"},
           NEW to \in {"tx", "enqueue", "idle"}, Go("T0", to), lock' = "free",
           UNCHANGED <<ring, buffer, cb, rp_hdr, history>>, Stack', Sending'
    PROVE  IInv'
<1>0. Types /\ Stack /\ Control /\ Apart
  BY DEF IInv
<1>1. to \in Places /\ "T0" \in Tasks
  BY DEF Places, Tasks
<1>2. /\ pc' \in [Tasks -> Places] /\ pc'["T0"] = to
      /\ \A u \in Tasks : u # "T0" => pc'[u] = pc[u]
  BY <1>0, <1>1, GoFacts
<1>3. Control'
  BY <1>0, <1>2 DEF Control, Receiving, Reading, MovingEnd, ring, buffer
<1>4. Apart'
  BY <1>0, <1>2 DEF Apart, Reading, MovingEnd, buffer, history
<1>5. \A u \in Tasks : /\ pc'[u] \in Holding <=> pc[u] \in Holding
                       /\ pc'[u] \in PastIncrement <=> pc[u] \in PastIncrement
  BY <1>2 DEF Holding, PastIncrement
<1>6. nokick' \in BOOLEAN /\ cb' \in BOOLEAN
  BY <1>0 DEF Types, ring
<1> QED
  BY <1>2, <1>3, <1>4, <1>5, <1>6, QuietIInv DEF ring

\* T0 takes a buffer, waits a tick, gives up, or hands the buffer to Linux.
LEMMA TxIInv ==
    ASSUME IInv,
           \/ rpmsg_virtio_get_tx_buffer \/ metal_sleep_usec \/ NoBuffer
           \/ rpmsg_virtio_enqueue_buffer
    PROVE  IInv'
<1>0. Types /\ Stack /\ Sending /\ "T0" \in Tasks
  BY DEF IInv, Tasks
<1>1. /\ txavail \in Nat /\ txfilled \in Nat /\ tick_count \in 0 .. Ticks
      /\ txavail + txfilled + Enqueuing = TxBuffers /\ Ticks \in Nat
  BY <1>0, OpenAmpAssumption DEF Sending
<1>2. CASE rpmsg_virtio_get_tx_buffer
  <2>1. /\ At("T0", "tx") /\ lock' = "free" /\ txavail > 0 /\ txavail' = txavail - 1
        /\ Go("T0", "enqueue")
        /\ UNCHANGED <<ring, txfilled, tick_count, buffer, cb, active, rp_hdr, history>>
    BY <1>2 DEF rpmsg_virtio_get_tx_buffer, Locked
  <2>2. pc["T0"] = "tx" /\ Running("T0")
    BY <2>1 DEF At
  <2>3. pc'["T0"] = "enqueue"
    BY <2>1, <1>0 DEF Go, Types
  <2>4. Enqueuing = 0 /\ Enqueuing' = 1
    BY <2>2, <2>3 DEF Enqueuing
  <2>5. Sending'
    BY <2>1, <2>4, <1>1 DEF Sending
  <2>6. Stack'
    BY <2>1, <2>2, <1>0, GoStack
  <2> QED
    BY <2>1, <2>2, <2>5, <2>6, SendIInv
<1>3. CASE metal_sleep_usec
  <2>1. /\ At("T0", "tx") /\ lock' = "free" /\ tick_count > 0 /\ tick_count' = tick_count - 1
        /\ UNCHANGED <<ring, txavail, txfilled, buffer, cb, active, pc, rp_hdr, history>>
    BY <1>3 DEF metal_sleep_usec, Locked, NextTick
  <2>2. pc["T0"] = "tx" /\ Running("T0")
    BY <2>1 DEF At
  <2>3. Go("T0", "tx")
    BY <2>1, <2>2, <1>0 DEF Go, Types
  <2>4. Enqueuing' = Enqueuing
    BY <2>1 DEF Enqueuing
  <2>5. Sending'
    BY <2>1, <2>4, <1>1 DEF Sending
  <2>6. Stack'
    BY <2>1, <2>2, <2>3, <1>0, GoStack
  <2> QED
    BY <2>1, <2>2, <2>3, <2>5, <2>6, SendIInv
<1>4. CASE NoBuffer
  <2>1. /\ At("T0", "tx") /\ lock' = "free" /\ Go("T0", "idle") /\ active' = Tail(active)
        /\ UNCHANGED <<ring, tx, buffer, cb, rp_hdr, history>>
    BY <1>4 DEF NoBuffer, Locked, FinishT0
  <2>2. pc["T0"] = "tx" /\ Running("T0")
    BY <2>1 DEF At
  <2>3. pc'["T0"] = "idle"
    BY <2>1, <1>0 DEF Go, Types
  <2>4. Enqueuing' = Enqueuing
    BY <2>2, <2>3 DEF Enqueuing
  <2>5. Sending'
    BY <2>1, <2>4, <1>1 DEF Sending, tx
  <2>6. Stack'
    BY <2>1, <2>2, <1>0, EndStack
  <2> QED
    BY <2>1, <2>2, <2>5, <2>6, SendIInv
<1>5. CASE rpmsg_virtio_enqueue_buffer
  <2>1. /\ At("T0", "enqueue") /\ lock' = "free" /\ Go("T0", "idle") /\ active' = Tail(active)
        /\ txfilled' = txfilled + 1
        /\ UNCHANGED <<ring, txavail, tick_count, buffer, cb, rp_hdr, history>>
    BY <1>5 DEF rpmsg_virtio_enqueue_buffer, Locked, FinishT0
  <2>2. pc["T0"] = "enqueue" /\ Running("T0")
    BY <2>1 DEF At
  <2>3. pc'["T0"] = "idle"
    BY <2>1, <1>0 DEF Go, Types
  <2>4. Enqueuing = 1 /\ Enqueuing' = 0
    BY <2>2, <2>3 DEF Enqueuing
  <2>5. Sending'
    BY <2>1, <2>4, <1>1 DEF Sending
  <2>6. Stack'
    BY <2>1, <2>2, <1>0, EndStack
  <2> QED
    BY <2>1, <2>2, <2>5, <2>6, SendIInv
<1> QED
  BY <1>2, <1>3, <1>4, <1>5

\* A step that leaves the line as it is keeps it listed.
LEMMA SameLined ==
    ASSUME Lined, raced => raced', ~ raced => Line' = Line, Taken' = Taken, dropped' = dropped
    PROVE  Lined'
BY Zenon DEF Lined

\* T0 hands the oldest packet to its handler.
LEMMA DrainIInv ==
    ASSUME IInv, Drain
    PROVE  IInv'
<1>0. Types /\ Stack /\ Control /\ Apart /\ Sending /\ OnRing /\ HandFull /\ Lined
  BY DEF IInv
<1>1. /\ At("T0", "drain") /\ packetsBegin # packetsEnd
      /\ handled' = Append(handled, packets[packetsBegin])
      /\ packetsBegin' = NextIndex(packetsBegin)
      /\ packetsEnd' = EndAfter(packetsBegin', packetsEnd)
      /\ UNCHANGED <<ring, lock, tx, packets, cb, active, pc, rp_hdr, raced, sent, dropped>>
  BY DEF Drain, EndAfter, S
<1>2. pc["T0"] = "drain" /\ "T0" \in Tasks
  BY <1>1 DEF At, Tasks
<1>3. /\ handled \in Seq(Numbers) /\ packets \in [0 .. S - 1 -> Numbers]
      /\ packetsBegin \in 0 .. S - 1 /\ packetsEnd \in 0 .. S
      /\ Held \in 0 .. 1 /\ HeldMessage \in Numbers
  BY <1>0, LineTypes, Zenon
<1>4. /\ packetsBegin' \in 0 .. S - 1 /\ packetsEnd' \in 0 .. S - 1
      /\ LineOf(handled', packets, packetsBegin', CountOf(packetsBegin', packetsEnd', 0),
                Held, HeldMessage)
           = LineOf(handled, packets, packetsBegin, CountOf(packetsBegin, packetsEnd, 0),
                    Held, HeldMessage)
  <2>1. packetsBegin' \in 0 .. S - 1 /\ packetsEnd' \in 0 .. S - 1
    BY <1>1, <1>3, DrainEnds
  <2>2. LineOf(Append(handled, packets[packetsBegin]), packets, NextIndex(packetsBegin),
               CountOf(NextIndex(packetsBegin), EndAfter(NextIndex(packetsBegin), packetsEnd), 0),
               Held, HeldMessage)
          = LineOf(handled, packets, packetsBegin, CountOf(packetsBegin, packetsEnd, 0),
                   Held, HeldMessage)
    BY <1>1, <1>3, DrainLine
  <2> QED
    BY <2>1, <2>2, <1>1, Zenon
<1>5. packetsEnd' \in 0 .. S /\ packetsEnd' # S
  BY <1>4, OpenAmpAssumption DEF S
<1>6. handled' \in Seq(Numbers)
  BY <1>1, <1>3
<1>7. Types'
  BY <1>0, <1>1, <1>4, <1>5, <1>6 DEF Types, ring
<1>8. Stack' /\ Control' /\ HandFull'
  BY <1>0, <1>1, <1>5 DEF HandFull, Stack, Control, ring
<1>9. ~ raced => \A t \in Tasks : pc[t] \notin MovingEnd
  BY <1>0, <1>2 DEF Apart
<1>10. Apart'
  BY <1>1, <1>2, <1>9 DEF Apart, MovingEnd, Reading
<1>11. Sending' /\ OnRing' /\ Taken' = Taken
  BY <1>0, <1>1 DEF Sending, Enqueuing, OnRing, Taken, ring, tx
<1>12. Lined'
  <2>1. Held' = Held /\ HeldMessage' = HeldMessage /\ Past' = Past
    BY <1>1 DEF Held, HeldMessage, Past
  <2>2. ~ raced => Past = 0
    BY <1>9 DEF Past, MovingEnd, PastIncrement
  <2>3. ASSUME ~ raced PROVE Line' = Line
    <3>1. Past' = 0 /\ Past = 0 /\ packets' = packets
      BY <2>1, <2>2, <2>3, <1>1
    <3> QED
      BY <2>1, <3>1, <1>4, Zenon DEF Line
  <2> QED
    BY <2>3, <1>0, <1>1, <1>11, SameLined
<1> QED
  BY <1>7, <1>8, <1>10, <1>11, <1>12 DEF IInv

\* A task that takes messages off the ring, and it alone, decides whether a
\* message is in hand and whether the end has moved, before a step and after.
LEMMA ReceiverGo ==
    ASSUME Types, Control, NEW t \in Tasks, pc[t] \in Receiving, NEW to \in Places, Go(t, to)
    PROVE  /\ Past = IF pc[t] \in PastIncrement THEN 1 ELSE 0
           /\ Past' = IF to \in PastIncrement THEN 1 ELSE 0
           /\ Held = IF pc[t] \in Holding THEN 1 ELSE 0
           /\ Held' = IF to \in Holding THEN 1 ELSE 0
           /\ pc[t] \in Holding => HeldMessage = rp_hdr[t]
           /\ to \in Holding => HeldMessage' = rp_hdr'[t]
<1>1. Holding \subseteq Receiving /\ PastIncrement \subseteq Receiving
  BY DEF Holding, PastIncrement, Receiving
<1>2. \A u \in Tasks : u # t => pc[u] \notin Holding /\ pc[u] \notin PastIncrement
  BY <1>1 DEF Control
<1>3. pc'[t] = to /\ \A u \in Tasks : u # t => pc'[u] = pc[u]
  BY GoFacts
<1>4. \A u \in Tasks : u # t => pc'[u] \notin Holding /\ pc'[u] \notin PastIncrement
  BY <1>2, <1>3
<1>5. Past = IF pc[t] \in PastIncrement THEN 1 ELSE 0
  BY <1>2 DEF Past
<1>6. Past' = IF to \in PastIncrement THEN 1 ELSE 0
  BY <1>3, <1>4 DEF Past
<1>7. Held = IF pc[t] \in Holding THEN 1 ELSE 0
  BY <1>2 DEF Held
<1>8. Held' = IF to \in Holding THEN 1 ELSE 0
  BY <1>3, <1>4 DEF Held
<1>9. pc[t] \in Holding => HeldMessage = rp_hdr[t]
  BY HeldIs
<1>10. ASSUME to \in Holding PROVE HeldMessage' = rp_hdr'[t]
  <2>1. (CHOOSE u \in Tasks : pc'[u] \in Holding) = t
    BY <1>3, <1>4, <1>10, Zenon
  <2>2. Held' = 1
    BY <1>8, <1>10
  <2> QED
    BY <2>1, <2>2, Zenon DEF HeldMessage
<1> QED
  BY <1>5, <1>6, <1>7, <1>8, <1>9, <1>10, Zenon

\* A task takes the next message off the ring, or finds the ring empty and is
\* done: the message goes to the end of the line.
LEMMA TakeIInv ==
    ASSUME IInv, NEW t \in Tasks, Running(t), pc[t] \in {"get", "return"}, lock' = "free",
           TakeMessage(t), UNCHANGED <<sgi, nokick, tx, buffer, cb, active, history>>
    PROVE  IInv'
<1>0. Types /\ Stack /\ Control /\ Apart /\ Sending /\ OnRing /\ HandFull /\ Lined
  BY DEF IInv
<1>1. PICK to \in {"done", "lookup"} : Go(t, to) /\ (to = "done" <=> vring = << >>)
  BY DEF TakeMessage
<1>2. to \in Places /\ pc[t] # "idle" /\ to # "idle"
  BY DEF Places
<1>3. /\ pc' \in [Tasks -> Places] /\ pc'[t] = to
      /\ \A u \in Tasks : u # t => pc'[u] = pc[u]
  BY <1>0, <1>1, <1>2, GoFacts
<1>4. Stack'
  BY <1>0, <1>1, <1>2, GoStack
<1>5. Control'
  BY <1>0, <1>3 DEF Control, Receiving, Reading, MovingEnd, buffer, Tasks
<1>6. /\ vring \in Seq(Messages) /\ sent \in Nat /\ Len(vring) \in Nat /\ MaxMessages \in Nat
      /\ Messages \subseteq Numbers /\ 0 \in Numbers
      /\ rp_hdr \in [Tasks -> Numbers]
  BY <1>0, OpenAmpAssumption DEF Types, Numbers, Messages
<1>7. rp_hdr' = [rp_hdr EXCEPT ![t] = IF vring = << >> THEN 0 ELSE Head(vring)]
  BY DEF TakeMessage
<1>8. vring' = IF vring = << >> THEN vring ELSE Tail(vring)
  BY DEF TakeMessage
<1>9. rp_hdr' \in [Tasks -> Numbers] /\ \A u \in Tasks : u # t => rp_hdr'[u] = rp_hdr[u]
  <2>1. (IF vring = << >> THEN 0 ELSE Head(vring)) \in Numbers
    BY <1>6
  <2> QED
    BY <2>1, <1>6, <1>7
<1>10. vring' \in Seq(Messages)
  BY <1>6, <1>8
<1>11. Types'
  BY <1>0, <1>3, <1>9, <1>10 DEF Types, buffer, history
<1>12. Apart'
  BY <1>0, <1>3, <1>9 DEF Apart, Reading, MovingEnd, buffer, history, Tasks
<1>13. Sending'
  BY <1>0, <1>3 DEF Sending, Enqueuing, tx, Tasks
<1>14. /\ Past = 0 /\ Past' = 0 /\ Held = 0 /\ Held' = IF to \in Holding THEN 1 ELSE 0
       /\ to \in Holding => HeldMessage' = rp_hdr'[t]
  <2>1. pc[t] \in Receiving /\ pc[t] \notin PastIncrement /\ pc[t] \notin Holding
        /\ to \notin PastIncrement
    BY DEF Receiving, PastIncrement, Holding
  <2> QED
    BY <2>1, <1>0, <1>1, <1>2, ReceiverGo
<1>15. /\ handled' = handled /\ packets' = packets /\ packetsBegin' = packetsBegin
       /\ packetsEnd' = packetsEnd /\ dropped' = dropped /\ sent' = sent /\ raced' = raced
  BY DEF buffer, history
<1>16. HandFull'
  <2>1. to \in Holding => rp_hdr'[t] # 0
    <3>1. vring # << >> => Head(vring) \in Messages
      BY <1>6
    <3> QED
      BY <3>1, <1>1, <1>6, <1>7 DEF Holding, Messages
  <2> QED
    BY <2>1, <1>0, <1>3, <1>9 DEF HandFull
<1>17. CASE vring = << >>
  <2>1. to = "done" /\ vring' = vring
    BY <1>1, <1>8, <1>17
  <2>2. Taken' = Taken /\ OnRing'
    BY <2>1, <1>0, <1>15 DEF Taken, OnRing
  <2>3. Held' = 0
    BY <2>1, <1>14 DEF Holding
  <2>4. HeldMessage = 0 /\ HeldMessage' = 0
    BY <2>3, <1>14 DEF HeldMessage
  <2>5. Line' = Line
    BY <2>3, <2>4, <1>14, <1>15, Zenon DEF Line
  <2>6. Lined'
    BY <2>2, <2>5, <1>0, <1>15, SameLined
  <2> QED
    BY <2>2, <2>6, <1>16, <1>4, <1>5, <1>11, <1>12, <1>13 DEF IInv
<1>18. CASE vring # << >>
  <2>1. to = "lookup" /\ vring' = Tail(vring) /\ rp_hdr'[t] = Head(vring)
    BY <1>1, <1>6, <1>7, <1>8, <1>18
  <2>2. PICK n \in Nat : n = Len(vring) /\ n > 0
    BY <1>6, <1>18
  <2>3. /\ Len(vring') = n - 1 /\ Head(vring) = vring[1]
        /\ \A k \in 1 .. n - 1 : vring'[k] = vring[k + 1]
    BY <2>1, <2>2, <1>6
  <2>4. PICK T \in Nat : T = Taken /\ \A k \in 1 .. n : vring[k] = T + k
    BY <2>2, <1>0 DEF OnRing
  <2>5. Taken' = T + 1
    BY <2>2, <2>3, <2>4, <1>6, <1>15 DEF Taken
  <2>6. OnRing'
    <3>1. ASSUME NEW k \in 1 .. n - 1 PROVE vring'[k] = (T + 1) + k
      <4>1. k + 1 \in 1 .. n
        BY <2>2
      <4>2. vring[k + 1] = T + (k + 1)
        BY <4>1, <2>4
      <4> QED
        BY <4>2, <2>3
    <3> QED
      BY <3>1, <2>3, <2>5 DEF OnRing
  <2>7. rp_hdr'[t] = T + 1
    <3>1. 1 \in 1 .. n
      BY <2>2
    <3> QED
      BY <3>1, <2>1, <2>3, <2>4
  <2>8. Held' = 1 /\ HeldMessage' = T + 1
    BY <2>1, <2>7, <1>14 DEF Holding
  <2>9. T + 1 \in Numbers
    BY <2>7, <1>9
  <2>10. ASSUME ~ raced PROVE dropped' \subseteq 1 .. T + 1 /\ Lists(Line', (1 .. T + 1) \ dropped')
    <3>1. PICK c \in 0 .. S : c = CountOf(packetsBegin, packetsEnd, 0)
      BY <1>0, <1>14, LineTypes
    <3>2. /\ handled \in Seq(Numbers) /\ packets \in [0 .. S - 1 -> Numbers]
          /\ packetsBegin \in 0 .. S - 1 /\ HeldMessage \in Numbers
      BY <1>0, LineTypes, Zenon
    <3>3. PICK z \in 0 .. 1, o \in 0 .. 1, x \in Numbers, y \in Numbers :
             z = 0 /\ o = 1 /\ x = HeldMessage /\ y = T + 1
      BY <3>2, <2>9
    <3>4. Line = LineOf(handled, packets, packetsBegin, c, z, x)
      BY <3>1, <3>3, <1>14, Zenon DEF Line
    <3>5. Line' = LineOf(handled, packets, packetsBegin, c, o, y)
      BY <3>1, <3>3, <2>8, <1>14, <1>15, Zenon DEF Line
    <3>6. PICK N \in Nat : N = Len(handled) + c
      BY <3>2, OpenAmpAssumption DEF S
    <3>7. /\ Len(Line) = N /\ DOMAIN Line = 1 .. N
          /\ Len(Line') = N + 1 /\ DOMAIN Line' = 1 .. N + 1
      <4>1. /\ Len(Line) = Len(handled) + c + z /\ DOMAIN Line = 1 .. Len(handled) + c + z
        BY <3>2, <3>4, LineLen
      <4>2. /\ Len(Line') = Len(handled) + c + o /\ DOMAIN Line' = 1 .. Len(handled) + c + o
        BY <3>2, <3>5, LineLen
      <4> QED
        BY <4>1, <4>2, <3>3, <3>6
    <3>8. /\ \A i \in 1 .. N : Line'[i] = Line[i]
          /\ Line'[N + 1] = T + 1
      <4>1. Len(handled) \in Nat /\ c \in Nat
        BY <3>2, OpenAmpAssumption DEF S
      <4> QED
        BY <4>1, <3>3, <3>4, <3>5, <3>6 DEF LineOf
    <3>9. dropped \subseteq 1 .. T /\ Lists(Line, (1 .. T) \ dropped)
      BY <2>4, <2>10, <1>0, Zenon DEF Lined
    <3>10. PICK L, M : L = Line /\ M = Line'
      OBVIOUS
    <3>11. Lists(M, (1 .. T + 1) \ dropped)
      BY <3>7, <3>8, <3>9, <3>10, ListsAppend
    <3>12. dropped' \subseteq 1 .. T + 1
      BY <3>9, <1>15
    <3> QED
      BY <3>10, <3>11, <3>12, <1>15
  <2>11. Lined'
    BY <2>5, <2>10, <1>15 DEF Lined
  <2> QED
    BY <2>6, <2>11, <1>16, <1>4, <1>5, <1>11, <1>12, <1>13 DEF IInv
<1> QED
  BY <1>17, <1>18

\* T0's callback gives the message straight to the handler; T0 has emptied the
\* buffer before it set the callback.
LEMMA CallDirectIInv ==
    ASSUME IInv, NEW t \in Tasks, CallDirect(t)
    PROVE  IInv'
<1>0. Types /\ Stack /\ Control /\ Apart /\ Sending /\ OnRing /\ HandFull /\ Lined
  BY DEF IInv
<1>1. /\ At(t, "call") /\ cb /\ handled' = Append(handled, rp_hdr[t]) /\ Go(t, "return")
      /\ UNCHANGED <<ring, lock, tx, buffer, cb, active, rp_hdr, raced, sent, dropped>>
  BY DEF CallDirect
<1>2. pc[t] = "call" /\ Running(t)
  BY <1>1 DEF At
<1>3. t = "T0"
  <2>1. pc["T0"] \in Reading
    BY <1>0, <1>1 DEF Control, Types
  <2>2. pc["T0"] # "idle"
    BY <2>1 DEF Reading
  <2> QED
    BY <2>2, <1>0, <1>2, RunningFacts
<1>4. /\ pc' \in [Tasks -> Places] /\ pc'[t] = "return"
      /\ \A u \in Tasks : u # t => pc'[u] = pc[u]
  BY <1>0, <1>1, GoFacts DEF Places
<1>5. Stack'
  BY <1>0, <1>1, <1>2, GoStack
<1>6. Control'
  BY <1>0, <1>1, <1>2, <1>3, <1>4 DEF Control, Receiving, Reading, MovingEnd, ring, buffer
<1>7. Apart'
  BY <1>0, <1>1, <1>2, <1>3, <1>4 DEF Apart, Reading, MovingEnd, buffer
<1>8. rp_hdr[t] \in Numbers /\ handled \in Seq(Numbers)
  BY <1>0 DEF Types
<1>9. Types'
  <2>1. handled' \in Seq(Numbers)
    BY <1>1, <1>8
  <2> QED
    BY <2>1, <1>0, <1>1, <1>4 DEF Types, ring, buffer
<1>10. Sending' /\ OnRing' /\ Taken' = Taken
  BY <1>0, <1>1, <1>2, <1>3, <1>4 DEF Sending, Enqueuing, OnRing, Taken, ring, tx
<1>11. Past = 0 /\ Past' = 0 /\ Held = 1 /\ Held' = 0 /\ HeldMessage = rp_hdr[t]
  <2>1. pc[t] \in Receiving /\ pc[t] \notin PastIncrement /\ pc[t] \in Holding
        /\ "return" \notin PastIncrement /\ "return" \notin Holding /\ "return" \in Places
    BY <1>2 DEF Receiving, PastIncrement, Holding, Places
  <2> QED
    BY <2>1, <1>0, <1>1, ReceiverGo
<1>12. ASSUME ~ raced PROVE Line' = Line
  <2>1. packetsBegin = packetsEnd /\ packetsBegin \in 0 .. S - 1
    BY <1>0, <1>2, <1>3, <1>12 DEF Apart, Reading, Types
  <2>2. CountOf(packetsBegin, packetsEnd, 0) = 0
    BY <2>1, OpenAmpAssumption DEF CountOf, S
  <2>3. packets \in [0 .. S - 1 -> Numbers]
    BY <1>0 DEF Types
  <2>4. LineOf(Append(handled, rp_hdr[t]), packets, packetsBegin, 0, 0, HeldMessage')
          = LineOf(handled, packets, packetsBegin, 0, 1, rp_hdr[t])
    BY <2>1, <2>3, <1>8, DirectLine
  <2>5. packets' = packets /\ packetsBegin' = packetsBegin /\ packetsEnd' = packetsEnd
    BY <1>1 DEF buffer
  <2> QED
    BY <2>2, <2>4, <2>5, <1>1, <1>11, Zenon DEF Line
<1>13. Lined'
  BY <1>0, <1>1, <1>10, <1>12, SameLined
<1>14. HandFull'
  BY <1>0, <1>1, <1>4 DEF HandFull, Holding
<1> QED
  BY <1>14, <1>5, <1>6, <1>7, <1>9, <1>10, <1>13 DEF IInv

\* A message that is dropped is the last of the line.
LEMMA CallDropIInv ==
    ASSUME IInv, NEW t \in Tasks, CallDrop(t)
    PROVE  IInv'
<1>0. Types /\ Stack /\ Control /\ Apart /\ Sending /\ OnRing /\ HandFull /\ Lined
  BY DEF IInv
<1>1. /\ At(t, "call") /\ dropped' = dropped \cup {rp_hdr[t]} /\ Go(t, "return")
      /\ UNCHANGED <<ring, lock, tx, buffer, cb, active, rp_hdr, raced, sent, handled>>
  BY DEF CallDrop
<1>2. pc[t] = "call" /\ Running(t)
  BY <1>1 DEF At
<1>3. /\ pc' \in [Tasks -> Places] /\ pc'[t] = "return"
      /\ \A u \in Tasks : u # t => pc'[u] = pc[u]
  BY <1>0, <1>1, GoFacts DEF Places
<1>4. Stack'
  BY <1>0, <1>1, <1>2, GoStack
<1>5. Control'
  BY <1>0, <1>1, <1>2, <1>3 DEF Control, Receiving, Reading, MovingEnd, ring, buffer, Tasks
<1>6. Apart'
  BY <1>0, <1>1, <1>2, <1>3 DEF Apart, Reading, MovingEnd, buffer, Tasks
<1>7. rp_hdr[t] \in Numbers /\ handled \in Seq(Numbers)
  BY <1>0 DEF Types
<1>8. Types'
  <2>1. rp_hdr[t] \in Messages
    BY <1>0, <1>2, <1>7, OpenAmpAssumption DEF HandFull, Holding, Numbers, Messages
  <2> QED
    BY <2>1, <1>0, <1>1, <1>3 DEF Types, ring, buffer
<1>9. Sending' /\ OnRing' /\ Taken' = Taken
  BY <1>0, <1>1, <1>2, <1>3 DEF Sending, Enqueuing, OnRing, Taken, ring, tx, Tasks
<1>10. Past = 0 /\ Past' = 0 /\ Held = 1 /\ Held' = 0 /\ HeldMessage = rp_hdr[t]
  <2>1. pc[t] \in Receiving /\ pc[t] \notin PastIncrement /\ pc[t] \in Holding
        /\ "return" \notin PastIncrement /\ "return" \notin Holding /\ "return" \in Places
    BY <1>2 DEF Receiving, PastIncrement, Holding, Places
  <2> QED
    BY <2>1, <1>0, <1>1, ReceiverGo
<1>11. ASSUME ~ raced
       PROVE  /\ rp_hdr[t] \in 1 .. Taken /\ dropped' \subseteq 1 .. Taken
              /\ Lists(Line', (1 .. Taken) \ dropped')
  <2>1. PICK c \in 0 .. S : c = CountOf(packetsBegin, packetsEnd, 0)
    BY <1>0, <1>10, LineTypes
  <2>2. /\ handled \in Seq(Numbers) /\ packets \in [0 .. S - 1 -> Numbers]
        /\ packetsBegin \in 0 .. S - 1
    BY <1>0, LineTypes, Zenon
  <2>3. PICK z \in 0 .. 1, o \in 0 .. 1, x \in Numbers : z = 0 /\ o = 1 /\ x = HeldMessage'
    <3>1. HeldMessage' = 0
      BY <1>10 DEF HeldMessage
    <3> QED
      BY <3>1, OpenAmpAssumption DEF Numbers
  <2>4. Line = LineOf(handled, packets, packetsBegin, c, o, rp_hdr[t])
    BY <2>1, <2>3, <1>10, Zenon DEF Line
  <2>5. Line' = LineOf(handled, packets, packetsBegin, c, z, x)
    <3>1. /\ packets' = packets /\ packetsBegin' = packetsBegin /\ packetsEnd' = packetsEnd
          /\ handled' = handled
      BY <1>1 DEF buffer
    <3> QED
      BY <3>1, <2>1, <2>3, <1>10, Zenon DEF Line
  <2>6. PICK N \in Nat : N = Len(handled) + c
    BY <2>2, OpenAmpAssumption DEF S
  <2>7. /\ Len(Line') = N /\ DOMAIN Line' = 1 .. N
        /\ Len(Line) = N + 1 /\ DOMAIN Line = 1 .. N + 1
    <3>1. /\ Len(Line) = Len(handled) + c + o /\ DOMAIN Line = 1 .. Len(handled) + c + o
      BY <2>2, <2>4, <1>7, LineLen
    <3>2. /\ Len(Line') = Len(handled) + c + z /\ DOMAIN Line' = 1 .. Len(handled) + c + z
      BY <2>2, <2>5, LineLen
    <3> QED
      BY <3>1, <3>2, <2>3, <2>6
  <2>8. /\ \A i \in 1 .. N : Line[i] = Line'[i]
        /\ Line[N + 1] = rp_hdr[t]
    <3>1. Len(handled) \in Nat /\ c \in Nat
      BY <2>2, OpenAmpAssumption DEF S
    <3> QED
      BY <3>1, <2>3, <2>4, <2>5, <2>6 DEF LineOf
  <2>9. dropped \subseteq 1 .. Taken /\ Lists(Line, (1 .. Taken) \ dropped)
    BY <1>0, <1>11, Zenon DEF Lined
  <2>10. PICK L, M, X : L = Line' /\ M = Line /\ X = (1 .. Taken) \ dropped
    OBVIOUS
  <2>11. X \subseteq Nat
    BY <2>10
  <2>12. M[N + 1] \in X /\ Lists(L, X \ {M[N + 1]})
    BY <2>7, <2>8, <2>9, <2>10, <2>11, ListsFront
  <2>13. rp_hdr[t] \in X /\ Lists(Line', X \ {rp_hdr[t]})
    BY <2>8, <2>10, <2>12, Zenon
  <2>14. X \ {rp_hdr[t]} = (1 .. Taken) \ dropped'
    BY <2>10, <1>1
  <2>15. rp_hdr[t] \in 1 .. Taken /\ dropped' \subseteq 1 .. Taken
    BY <2>9, <2>10, <2>13, <1>1
  <2> QED
    BY <2>13, <2>14, <2>15
<1>12. Lined'
  BY <1>1, <1>9, <1>11 DEF Lined
<1>13. HandFull'
  BY <1>0, <1>1, <1>3 DEF HandFull, Holding
<1> QED
  BY <1>13, <1>8, <1>4, <1>5, <1>6, <1>9, <1>12 DEF IInv

\* The message is copied to the place at the end of the buffer.
LEMMA CopyIInv ==
    ASSUME IInv, NEW t \in Tasks, Copy(t)
    PROVE  IInv'
<1>0. Types /\ Stack /\ Control /\ Apart /\ Sending /\ OnRing /\ HandFull /\ Lined
  BY DEF IInv
<1>1. /\ At(t, "copy") /\ packets' = [packets EXCEPT ![packetsEnd] = rp_hdr[t]] /\ Go(t, "inc")
      /\ UNCHANGED <<ring, lock, tx, packetsBegin, packetsEnd, cb, active, rp_hdr, history>>
  BY DEF Copy
<1>2. pc[t] = "copy" /\ Running(t)
  BY <1>1 DEF At
<1>3. /\ pc' \in [Tasks -> Places] /\ pc'[t] = "inc"
      /\ \A u \in Tasks : u # t => pc'[u] = pc[u]
  BY <1>0, <1>1, GoFacts DEF Places
<1>4. t # "T0" /\ pc["T0"] = "idle"
  <2>1. t # "T0"
    BY <1>0, <1>2 DEF Control
  <2> QED
    BY <2>1, <1>0, <1>2, RunningFacts
<1>5. Stack'
  BY <1>0, <1>1, <1>2, GoStack
<1>6. Control'
  BY <1>0, <1>1, <1>2, <1>3, <1>4 DEF Control, Receiving, Reading, MovingEnd, ring, Tasks
<1>7. /\ rp_hdr[t] \in Numbers /\ handled \in Seq(Numbers) /\ packets \in [0 .. S - 1 -> Numbers]
      /\ packetsBegin \in 0 .. S - 1 /\ packetsEnd \in 0 .. S - 1
  <2>1. packetsEnd # S /\ packetsEnd \in 0 .. S
    BY <1>0, <1>2 DEF Control, Types
  <2>2. packetsEnd \in 0 .. S - 1
    BY <2>1, OpenAmpAssumption DEF S
  <2> QED
    BY <2>2, <1>0 DEF Types
<1>8. packets' \in [0 .. S - 1 -> Numbers] /\ packets'[packetsEnd] = rp_hdr[t]
  BY <1>1, <1>7
<1>9. Types'
  BY <1>0, <1>1, <1>3, <1>8 DEF Types, ring, history
<1>10. \A u \in Tasks : u # t => pc[u] \notin Receiving
  BY <1>0, <1>2 DEF Control, Receiving
<1>11. Apart'
  BY <1>1, <1>3, <1>4, <1>8, <1>10 DEF Apart, Reading, MovingEnd, Receiving, Tasks
<1>12. Sending' /\ OnRing' /\ HandFull' /\ Taken' = Taken
  <2>1. Sending'
    BY <1>0, <1>1, <1>3, <1>4 DEF Sending, Enqueuing, tx, Tasks
  <2>2. OnRing' /\ Taken' = Taken
    BY <1>0, <1>1 DEF OnRing, Taken, ring, history
  <2>3. HandFull'
    BY <1>0, <1>1, <1>2, <1>3 DEF HandFull, Holding
  <2> QED
    BY <2>1, <2>2, <2>3
<1>13. /\ Past = 0 /\ Past' = 0 /\ Held = 1 /\ Held' = 1
       /\ HeldMessage = rp_hdr[t] /\ HeldMessage' = rp_hdr[t]
  <2>1. pc[t] \in Receiving /\ pc[t] \notin PastIncrement /\ pc[t] \in Holding
        /\ "inc" \notin PastIncrement /\ "inc" \in Holding /\ "inc" \in Places
    BY <1>2 DEF Receiving, PastIncrement, Holding, Places
  <2> QED
    BY <2>1, <1>0, <1>1, ReceiverGo
<1>14. Line' = Line
  <2>1. LineOf(handled, [packets EXCEPT ![packetsEnd] = rp_hdr[t]], packetsBegin,
               CountOf(packetsBegin, packetsEnd, 0), 1, rp_hdr[t])
          = LineOf(handled, packets, packetsBegin, CountOf(packetsBegin, packetsEnd, 0), 1,
                   rp_hdr[t])
    BY <1>7, CopyLine
  <2>2. packetsBegin' = packetsBegin /\ packetsEnd' = packetsEnd /\ handled' = handled
    BY <1>1 DEF history
  <2> QED
    BY <2>1, <2>2, <1>1, <1>13, Zenon DEF Line
<1>15. Lined'
  BY <1>0, <1>1, <1>12, <1>14, SameLined DEF history
<1> QED
  BY <1>5, <1>6, <1>9, <1>11, <1>12, <1>15 DEF IInv

\* What is left to show of a step that moves the end of the buffer: where it
\* leaves the end, and that the line stays as it is.
LEMMA MoveEndIInv ==
    ASSUME IInv, NEW t \in Tasks, NEW from \in MovingEnd, NEW end \in 0 .. S,
           NEW to \in {"wrap", "full", "mark", "return"}, MoveEnd(t, from, end, to),
           ~ raced => /\ to = "wrap" => end # 0
                      /\ to \in {"full", "mark"} => end # S
                      /\ to = "mark" => packetsBegin = end
                      /\ LineOf(handled, packets, packetsBegin,
                                CountOf(packetsBegin, end, IF to = "return" THEN 0 ELSE 1), 0, 0)
                           = Line
    PROVE  IInv'
<1>0. Types /\ Stack /\ Control /\ Apart /\ Sending /\ OnRing /\ HandFull /\ Lined
  BY DEF IInv
<1>1. /\ At(t, from) /\ packetsEnd' = end /\ Go(t, to)
      /\ UNCHANGED <<ring, lock, tx, packets, packetsBegin, cb, active, rp_hdr, history>>
  BY DEF MoveEnd
<1>2. pc[t] = from /\ Running(t) /\ pc[t] \in Receiving /\ pc[t] # "idle"
  BY <1>1 DEF At, Receiving, MovingEnd
<1>3. /\ pc' \in [Tasks -> Places] /\ pc'[t] = to
      /\ \A u \in Tasks : u # t => pc'[u] = pc[u]
  BY <1>0, <1>1, GoFacts DEF Places
<1>4. t # "T0" /\ pc["T0"] = "idle"
  <2>1. t # "T0"
    BY <1>0, <1>2 DEF Control
  <2> QED
    BY <2>1, <1>0, <1>2, RunningFacts
<1>5. Stack'
  BY <1>0, <1>1, <1>2, GoStack
<1>6. \A u \in Tasks : u # t => pc[u] \notin Receiving
  BY <1>0, <1>2 DEF Control
<1>7. Control'
  BY <1>0, <1>1, <1>2, <1>3, <1>4, <1>6 DEF Control, Receiving, Reading, MovingEnd, ring, Tasks
<1>8. Types'
  BY <1>0, <1>1, <1>3 DEF Types, ring, history
<1>9. Apart'
  BY <1>1, <1>3, <1>4, <1>6 DEF Apart, Reading, MovingEnd, Receiving, Tasks, history
<1>10. Sending'
  BY <1>0, <1>1, <1>3, <1>4 DEF Sending, Enqueuing, tx, Tasks
<1>11. OnRing' /\ Taken' = Taken
  BY <1>0, <1>1 DEF OnRing, Taken, ring, history
<1>12. HandFull'
  BY <1>0, <1>1, <1>3 DEF HandFull, Holding
<1>13. /\ Past' = IF to = "return" THEN 0 ELSE 1
       /\ Held' = 0 /\ HeldMessage' = 0
  <2>1. to \in Places /\ to \notin Holding /\ (to \in PastIncrement <=> to # "return")
    BY DEF Places, Holding, PastIncrement
  <2>2. Past' = (IF to \in PastIncrement THEN 1 ELSE 0) /\ Held' = 0
    BY <2>1, <1>0, <1>1, <1>2, ReceiverGo
  <2>3. HeldMessage' = 0
    BY <2>2 DEF HeldMessage
  <2> QED
    BY <2>1, <2>2, <2>3
<1>14. ASSUME ~ raced PROVE Line' = Line
  <2>1. /\ packetsBegin' = packetsBegin /\ packetsEnd' = end /\ handled' = handled
        /\ packets' = packets
    BY <1>1 DEF history
  <2> QED
    BY <2>1, <1>13, <1>14, Zenon DEF Line
<1>15. Lined'
  BY <1>0, <1>1, <1>11, <1>14, SameLined DEF history
<1> QED
  BY <1>5, <1>7, <1>8, <1>9, <1>10, <1>11, <1>12, <1>15 DEF IInv

\* The line while a task is past the increment of the end.
LEMMA PastLine ==
    ASSUME Control, NEW t \in Tasks, pc[t] \in PastIncrement
    PROVE  Line = LineOf(handled, packets, packetsBegin,
                         CountOf(packetsBegin, packetsEnd, 1), 0, 0)
<1>1. Holding \subseteq Receiving /\ pc[t] \in Receiving /\ pc[t] \notin Holding
  BY DEF Holding, PastIncrement, Receiving
<1>2. \A u \in Tasks : pc[u] \notin Holding
  BY <1>1 DEF Control
<1>3. Past = 1 /\ Held = 0
  BY <1>2 DEF Past, Held
<1>4. HeldMessage = 0
  BY <1>3 DEF HeldMessage
<1> QED
  BY <1>3, <1>4, Zenon DEF Line

\* ++packetsEnd: the copy becomes the last packet.
LEMMA IncrementIInv ==
    ASSUME IInv, NEW t \in Tasks, Increment(t)
    PROVE  IInv'
<1>0. Types /\ Control /\ Apart
  BY DEF IInv
<1>1. MoveEnd(t, "inc", packetsEnd + 1, "wrap") /\ pc[t] = "inc"
  BY DEF Increment, MoveEnd, At
<1>2. packetsEnd \in 0 .. S - 1
  <2>1. packetsEnd # S /\ packetsEnd \in 0 .. S
    BY <1>0, <1>1 DEF Control, Types
  <2> QED
    BY <2>1, OpenAmpAssumption DEF S
<1>3. packetsEnd + 1 \in 0 .. S /\ packetsEnd + 1 # 0
  BY <1>2, OpenAmpAssumption DEF S
<1>4. ASSUME ~ raced
      PROVE  LineOf(handled, packets, packetsBegin, CountOf(packetsBegin, packetsEnd + 1, 1), 0, 0)
               = Line
  <2>1. packets[packetsEnd] = rp_hdr[t]
    BY <1>0, <1>1, <1>4 DEF Apart
  <2>2. Holding \subseteq Receiving /\ PastIncrement \subseteq Receiving
        /\ pc[t] \in Holding /\ pc[t] \notin PastIncrement
    BY <1>1 DEF Holding, PastIncrement, Receiving
  <2>3. \A u \in Tasks : pc[u] \notin PastIncrement
    BY <2>2, <1>0 DEF Control
  <2>4. Past = 0
    BY <2>3 DEF Past
  <2>5. Held = 1 /\ HeldMessage = rp_hdr[t]
    BY <2>2, <1>0, HeldIs
  <2>6. /\ handled \in Seq(Numbers) /\ packets \in [0 .. S - 1 -> Numbers]
        /\ packetsBegin \in 0 .. S - 1
    BY <1>0 DEF Types
  <2>7. LineOf(handled, packets, packetsBegin, CountOf(packetsBegin, packetsEnd + 1, 1), 0, 0)
          = LineOf(handled, packets, packetsBegin, CountOf(packetsBegin, packetsEnd, 0), 1,
                   packets[packetsEnd])
    BY <2>6, <1>2, IncrementLine
  <2> QED
    BY <2>1, <2>4, <2>5, <2>7, Zenon DEF Line
<1> QED
  BY <1>1, <1>3, <1>4, MoveEndIInv DEF MovingEnd

\* The end wraps to the first place.
LEMMA WrapEndIInv ==
    ASSUME IInv, NEW t \in Tasks, WrapEnd(t)
    PROVE  IInv'
<1>0. Types /\ Control /\ Apart /\ S \in Nat \ {0}
  BY OpenAmpAssumption DEF IInv, S
<1>1. PICK end : end = IF packetsEnd = S THEN 0 ELSE packetsEnd
  OBVIOUS
<1>2. MoveEnd(t, "wrap", end, "full") /\ pc[t] = "wrap"
  BY <1>1 DEF WrapEnd, MoveEnd, At, S
<1>3. packetsEnd \in 0 .. S /\ packetsBegin \in 0 .. S - 1
  BY <1>0 DEF Types
<1>4. end \in 0 .. S /\ end # S
  BY <1>0, <1>1, <1>3
<1>5. ASSUME ~ raced
      PROVE  LineOf(handled, packets, packetsBegin, CountOf(packetsBegin, end, 1), 0, 0) = Line
  <2>1. packetsEnd > 0
    BY <1>0, <1>2, <1>3, <1>5 DEF Apart
  <2>2. CountOf(packetsBegin, end, 1) = CountOf(packetsBegin, packetsEnd, 1)
    BY <2>1, <1>1, <1>3, CountKept
  <2>3. pc[t] \in PastIncrement
    BY <1>2 DEF PastIncrement
  <2> QED
    BY <2>2, <2>3, <1>0, PastLine
<1> QED
  BY <1>2, <1>4, <1>5, MoveEndIInv DEF MovingEnd

\* The end that has met the begin is to be marked as full.
LEMMA TestFullIInv ==
    ASSUME IInv, NEW t \in Tasks, TestFull(t)
    PROVE  IInv'
<1>0. Types /\ Control /\ Apart
  BY DEF IInv
<1>1. PICK to \in {"mark", "return"} : /\ MoveEnd(t, "full", packetsEnd, to)
                                       /\ to = "mark" <=> packetsBegin = packetsEnd
  BY DEF TestFull
<1>2. pc[t] = "full" /\ pc[t] \in PastIncrement
  BY <1>1 DEF MoveEnd, At, PastIncrement
<1>3. packetsEnd \in 0 .. S /\ packetsBegin \in 0 .. S - 1
  BY <1>0 DEF Types
<1>4. ~ raced => packetsEnd # S
  BY <1>0, <1>2 DEF Apart
<1>5. ASSUME ~ raced
      PROVE  LineOf(handled, packets, packetsBegin,
                    CountOf(packetsBegin, packetsEnd, IF to = "return" THEN 0 ELSE 1), 0, 0) = Line
  <2>1. Line = LineOf(handled, packets, packetsBegin,
                      CountOf(packetsBegin, packetsEnd, 1), 0, 0)
    BY <1>0, <1>2, PastLine
  <2>2. CASE to = "mark"
    BY <2>1, <2>2
  <2>3. CASE to = "return"
    <3>1. CountOf(packetsBegin, packetsEnd, 0) = CountOf(packetsBegin, packetsEnd, 1)
      BY <2>3, <1>1, <1>3, <1>4, <1>5, CountKept
    <3> QED
      BY <2>1, <2>3, <3>1
  <2> QED
    BY <2>2, <2>3
<1>6. to \in {"wrap", "full", "mark", "return"} /\ to # "wrap" /\ "full" \in MovingEnd
  BY DEF MovingEnd
<1> QED
  BY <1>1, <1>3, <1>4, <1>5, <1>6, MoveEndIInv

\* The buffer is marked as full.
LEMMA MarkFullIInv ==
    ASSUME IInv, NEW t \in Tasks, MarkFull(t)
    PROVE  IInv'
<1>0. Types /\ Control /\ Apart /\ S \in 0 .. S
  BY OpenAmpAssumption DEF IInv, S
<1>1. MoveEnd(t, "mark", S, "return") /\ pc[t] = "mark" /\ pc[t] \in PastIncrement
  BY DEF MarkFull, MoveEnd, At, S, PastIncrement
<1>2. packetsEnd \in 0 .. S /\ packetsBegin \in 0 .. S - 1
  BY <1>0 DEF Types
<1>3. ASSUME ~ raced
      PROVE  LineOf(handled, packets, packetsBegin, CountOf(packetsBegin, S, 0), 0, 0) = Line
  <2>1. packetsBegin = packetsEnd
    BY <1>0, <1>1, <1>3 DEF Apart
  <2>2. CountOf(packetsBegin, S, 0) = CountOf(packetsBegin, packetsEnd, 1)
    BY <2>1, <1>2, CountKept
  <2> QED
    BY <2>2, <1>0, <1>1, PastLine
<1> QED
  BY <1>0, <1>1, <1>3, MoveEndIInv DEF MovingEnd

\* Every step of the specification keeps the invariant.
LEMMA NextIInv == IInv /\ [Next]_vars => IInv'
<1> SUFFICES ASSUME IInv, [Next]_vars PROVE IInv'
  OBVIOUS
<1>1. CASE LinuxSend
  BY <1>1, LinuxSendIInv
<1>2. CASE LinuxReceive
  BY <1>2, LinuxReceiveIInv
<1>3. CASE zynq_a9_proc_irq_handler
  BY <1>3, KickIInv
<1>4. ASSUME NEW t \in Tasks, StartTask(t) PROVE IInv'
  BY <1>4, StartTaskIInv
<1>5. ASSUME NEW t \in Tasks, Receive(t) PROVE IInv'
  <2>1. CASE metal_mutex_acquire(t)
    BY <2>1, AcquireIInv
  <2>2. CASE platform_poll_noblock(t)
    BY <2>2, PollIInv
  <2>3. CASE ReadDone(t)
    BY <2>3, ReadDoneIInv
  <2>4. CASE rpmsg_virtio_get_rx_buffer(t)
    BY <2>4, TakeIInv DEF rpmsg_virtio_get_rx_buffer, Locked, At
  <2>5. CASE rpmsg_get_ept_from_addr(t)
    BY <2>5, LookupIInv
  <2>6. CASE rpmsg_virtio_return_buffer(t)
    BY <2>6, TakeIInv DEF rpmsg_virtio_return_buffer, Locked, At
  <2>7. CASE CallDirect(t)
    BY <2>7, CallDirectIInv
  <2>8. CASE CallDrop(t)
    BY <2>8, CallDropIInv
  <2>9. CASE CallBuffer(t)
    BY <2>9, CallBufferIInv
  <2>10. CASE Copy(t)
    BY <2>10, CopyIInv
  <2>11. CASE Increment(t)
    BY <2>11, IncrementIInv
  <2>12. CASE WrapEnd(t)
    BY <2>12, WrapEndIInv
  <2>13. CASE TestFull(t)
    BY <2>13, TestFullIInv
  <2>14. CASE MarkFull(t)
    BY <2>14, MarkFullIInv
  <2> QED
    BY <2>1, <2>2, <2>3, <2>4, <2>5, <2>6, <2>7, <2>8, <2>9, <2>10, <2>11, <2>12, <2>13, <2>14,
       <1>5, Zenon DEF Receive
<1>6. CASE Drain
  BY <1>6, DrainIInv
<1>7. CASE Drained
  BY <1>7, DrainedIInv
<1>8. CASE \/ rpmsg_virtio_get_tx_buffer \/ metal_sleep_usec \/ NoBuffer
           \/ rpmsg_virtio_enqueue_buffer
  BY <1>8, TxIInv
<1>9. CASE UNCHANGED vars
  <2>1. UNCHANGED <<vring, sgi, nokick, lock, txavail, txfilled, tick_count, packets, packetsBegin,
                    packetsEnd, cb, active, pc, rp_hdr, raced, sent, handled, dropped>>
    BY <1>9 DEF vars, ring, tx, buffer, history
  <2>2. /\ Types' = Types /\ Stack' = Stack /\ Control' = Control /\ Apart' = Apart
        /\ Sending' = Sending /\ OnRing' = OnRing /\ HandFull' = HandFull
    BY <2>1, Zenon DEF Types, Stack, Control, Apart, Sending, Enqueuing, OnRing, Taken, HandFull
  <2>3. Lined'
    BY <2>1, <2>2, QuietLined, Zenon DEF IInv, buffer
  <2> QED
    BY <2>2, <2>3, Zenon DEF IInv
<1> QED
  BY <1>1, <1>2, <1>3, <1>4, <1>5, <1>6, <1>7, <1>8, <1>9, Zenon DEF Next, Step

\* The places of the packets and their number, as the run computes them.
LEMMA BufferedFacts ==
    ASSUME Types, Past = 0
    PROVE  /\ BufferedCount = CountOf(packetsBegin, packetsEnd, Past)
           /\ Len(Buffered) = BufferedCount /\ DOMAIN Buffered = 1 .. BufferedCount
           /\ \A k \in 1 .. BufferedCount : Buffered[k] = packets[Slot(packetsBegin, k - 1)]
<1>1. S \in Nat \ {0} /\ packetsBegin \in 0 .. S - 1 /\ packetsEnd \in 0 .. S
  BY OpenAmpAssumption DEF Types, S
<1>2. PICK c \in 0 .. S : c = CountOf(packetsBegin, packetsEnd, 0)
  BY <1>1, CountRange
<1>3. \A x \in 0 .. S - 1 : x % S = x /\ (x + S) % S = x /\ (x - S) % S = x
  BY <1>1
<1>4. BufferedCount = c
  <2>1. CASE packetsEnd = S
    BY <2>1, <1>1, <1>2 DEF BufferedCount, CountOf, S
  <2>2. CASE packetsEnd # S
    <3>1. BufferedCount = (packetsEnd - packetsBegin) % S
      BY <2>2 DEF BufferedCount, S
    <3>2. CASE packetsEnd >= packetsBegin
      BY <3>1, <3>2, <2>2, <1>1, <1>2, <1>3 DEF CountOf
    <3>3. CASE packetsEnd < packetsBegin
      <4>1. PICK x \in 0 .. S - 1 : x = packetsEnd - packetsBegin + S
        BY <3>3, <1>1
      <4>2. x - S = packetsEnd - packetsBegin
        BY <4>1, <1>1
      <4>3. c = x
        BY <4>1, <3>3, <2>2, <1>1, <1>2 DEF CountOf
      <4> QED
        BY <3>1, <4>2, <4>3, <1>3
    <3> QED
      BY <3>2, <3>3, <1>1
  <2> QED
    BY <2>1, <2>2
<1>5. ASSUME NEW k \in 1 .. c PROVE (packetsBegin + k - 1) % S = Slot(packetsBegin, k - 1)
  <2>1. CASE packetsBegin + (k - 1) < S
    <3>1. PICK x \in 0 .. S - 1 : x = packetsBegin + k - 1
      BY <2>1, <1>1
    <3>2. Slot(packetsBegin, k - 1) = x
      BY <3>1, <2>1, <1>1 DEF Slot
    <3> QED
      BY <3>1, <3>2, <1>3
  <2>2. CASE packetsBegin + (k - 1) >= S
    <3>1. PICK x \in 0 .. S - 1 : x = packetsBegin + k - 1 - S
      BY <2>2, <1>1
    <3>2. x + S = packetsBegin + k - 1
      BY <3>1, <1>1
    <3>3. Slot(packetsBegin, k - 1) = x
      BY <3>1, <2>2, <1>1 DEF Slot
    <3> QED
      BY <3>2, <3>3, <1>3
  <2> QED
    BY <2>1, <2>2, <1>1
<1>6. Buffered = [k \in 1 .. c |-> packets[(packetsBegin + k - 1) % S]]
  BY <1>4 DEF Buffered, S
<1>7. c \in Nat
  BY <1>1
<1>8. Len(Buffered) = c /\ DOMAIN Buffered = 1 .. c
  BY <1>6, <1>7
<1>9. \A k \in 1 .. c : Buffered[k] = packets[Slot(packetsBegin, k - 1)]
  BY <1>5, <1>6
<1> QED
  BY <1>2, <1>4, <1>8, <1>9

\* While no task moves the end of the buffer, the buffer is the middle of the
\* line: it lists what waits for T0, all older than a message in hand.
LEMMA BufferListsWaiting ==
    ASSUME IInv, ~ raced, ~ Moving
    PROVE  /\ Lists(Buffered, Waiting)
           /\ Len(Buffered) = BufferedCount /\ DOMAIN Buffered = 1 .. BufferedCount
           /\ BufferedCount \in Nat
           /\ Held = 1 => \A k \in 1 .. BufferedCount : Buffered[k] < HeldMessage
<1>0. Types /\ Control /\ OnRing /\ Lined
  BY DEF IInv
<1>1. \A u \in Tasks : pc[u] \notin {"inc", "wrap", "full", "mark"}
  BY DEF Moving
<1>2. Past = 0
  BY <1>1 DEF Past, PastIncrement
<1>3. PICK c \in 0 .. S : c = CountOf(packetsBegin, packetsEnd, Past)
  BY <1>0, LineTypes
<1>4. /\ BufferedCount = c /\ Len(Buffered) = c /\ DOMAIN Buffered = 1 .. c /\ c \in Nat
      /\ \A k \in 1 .. c : Buffered[k] = packets[Slot(packetsBegin, k - 1)]
  <2>1. c \in Nat
    BY OpenAmpAssumption DEF S
  <2> QED
    BY <2>1, <1>0, <1>2, <1>3, BufferedFacts, Zenon
<1>5. PICK n \in 0 .. 1 : n = Held
  BY <1>0, LineTypes
<1>6. PICK h \in Nat : h = Len(handled)
  BY <1>0 DEF Types
<1>7. PICK L : L = Line
  OBVIOUS
<1>8. /\ Len(L) = h + c + n /\ DOMAIN L = 1 .. h + c + n
      /\ \A i \in 1 .. h : L[i] = handled[i]
      /\ \A i \in h + 1 .. h + c : L[i] = packets[Slot(packetsBegin, i - h - 1)]
      /\ \A i \in h + c + 1 .. h + c + n : L[i] = HeldMessage
  <2>1. /\ handled \in Seq(Numbers) /\ packets \in [0 .. S - 1 -> Numbers]
        /\ packetsBegin \in 0 .. S - 1 /\ HeldMessage \in Numbers
    BY <1>0, LineTypes, Zenon
  <2>2. L = LineOf(handled, packets, packetsBegin, c, n, HeldMessage)
    BY <1>3, <1>5, <1>7, Zenon DEF Line
  <2>3. Len(L) = h + c + n /\ DOMAIN L = 1 .. h + c + n
    BY <2>1, <2>2, <1>6, LineLen
  <2>4. L = [i \in 1 .. h + c + n |->
                IF i <= h THEN handled[i]
                ELSE IF i <= h + c THEN packets[Slot(packetsBegin, i - h - 1)] ELSE HeldMessage]
    BY <2>2, <1>6, Zenon DEF LineOf
  <2>5. c \in Nat /\ n \in Nat
    BY <1>4
  <2>6. \A i \in 1 .. h : L[i] = handled[i]
    BY <2>4, <2>5
  <2>7. \A i \in h + 1 .. h + c : L[i] = packets[Slot(packetsBegin, i - h - 1)]
    BY <2>4, <2>5
  <2>8. \A i \in h + c + 1 .. h + c + n : L[i] = HeldMessage
    BY <2>4, <2>5
  <2> QED
    BY <2>3, <2>6, <2>7, <2>8, Zenon
<1>9. PICK X : X = (1 .. Taken) \ dropped
  OBVIOUS
<1>10. X \subseteq Nat /\ Lists(L, X)
  <2>1. X \subseteq Nat
    BY <1>9
  <2> QED
    BY <2>1, <1>0, <1>7, <1>9 DEF Lined
<1>11. ToSet(handled) = {handled[i] : i \in 1 .. h}
  BY <1>0, <1>6 DEF ToSet, Types
<1>12. \A x \in X : x \in ToSet(handled) <=> \E i \in 1 .. h : L[i] = x
  BY <1>8, <1>11
<1>13. \A x \in X : x \in InHand <=> \E i \in h + c + 1 .. h + c + n : L[i] = x
  <2>1. CASE n = 1
    <3>1. PICK t \in Tasks : pc[t] \in Holding
      BY <2>1, <1>5 DEF Held
    <3>2. HeldMessage = rp_hdr[t]
      BY <3>1, <1>0, HeldIs
    <3>3. \A u \in Tasks : pc[u] \in {"lookup", "call", "copy"} <=> u = t
      <4>1. \A u \in Tasks : pc[u] \in Holding => u = t
        BY <3>1, <1>0 DEF Control, Holding, Receiving
      <4> QED
        BY <4>1, <3>1, <1>1 DEF Holding
    <3>4. InHand = {HeldMessage}
      BY <3>2, <3>3 DEF InHand
    <3>5. h + c + n \in h + c + 1 .. h + c + n
      BY <2>1, <1>4
    <3> QED
      BY <3>4, <3>5, <1>8
  <2>2. CASE n = 0
    <3>1. \A u \in Tasks : pc[u] \notin Holding
      BY <2>2, <1>5 DEF Held
    <3>2. InHand = {}
      BY <3>1 DEF InHand, Holding
    <3>3. \A i \in h + c + 1 .. h + c + n : FALSE
      BY <2>2, <1>4
    <3> QED
      BY <3>2, <3>3
  <2> QED
    BY <2>1, <2>2
<1>14. ASSUME NEW k \in 1 .. c PROVE Buffered[k] = L[h + k]
  <2>1. h + k \in h + 1 .. h + c /\ (h + k) - h - 1 = k - 1
    BY <1>4
  <2>2. L[h + k] = packets[Slot(packetsBegin, (h + k) - h - 1)]
    BY <2>1, <1>8
  <2> QED
    BY <2>1, <2>2, <1>4
<1>15. /\ Lists(Buffered, X \ (ToSet(handled) \cup InHand))
       /\ \A k \in 1 .. c : \A i \in h + c + 1 .. h + c + n : Buffered[k] < L[i]
  <2>1. PICK A, B, C : A = ToSet(handled) /\ B = InHand /\ C = Buffered
    OBVIOUS
  <2>2. /\ Len(C) = c /\ DOMAIN C = 1 .. c /\ \A k \in 1 .. c : C[k] = L[h + k]
    BY <2>1, <1>4, <1>14
  <2>3. /\ \A x \in X : x \in A <=> \E i \in 1 .. h : L[i] = x
        /\ \A x \in X : x \in B <=> \E i \in h + c + 1 .. h + c + n : L[i] = x
    BY <2>1, <1>12, <1>13, Zenon
  <2>4. n \in Nat
    OBVIOUS
  <2>5. /\ Lists(C, X \ (A \cup B))
        /\ \A k \in 1 .. c : \A i \in h + c + 1 .. h + c + n : C[k] < L[i]
    <3>1. PICK q \in Nat, N \in Nat : q = h + c /\ N = h + c + n /\ q <= N
      BY <2>4, <1>4
    <3>2. Len(L) = N /\ DOMAIN L = 1 .. N
      BY <3>1, <1>8, Zenon
    <3>3. AreAt(X, A, L, 1, h) /\ AreAt(X, B, L, q + 1, N) /\ PartOf(C, c, L, h)
      BY <3>1, <2>2, <2>3, Zenon DEF AreAt, PartOf
    <3>4. Len(C) = c /\ DOMAIN C = 1 .. c /\ c \in Nat
      BY <2>2, <1>4, Zenon
    <3>5. Lists(C, X \ (A \cup B)) /\ AllBefore(C, c, L, q + 1, N)
      BY <3>1, <3>2, <3>3, <3>4, <1>10, ListsMiddle, Zenon
    <3> QED
      BY <3>1, <3>5, Zenon DEF AllBefore
  <2> QED
    BY <2>1, <2>5, Zenon
<1>16. Waiting = X \ (ToSet(handled) \cup InHand)
  BY <1>9 DEF Waiting, Taken
<1>17. ASSUME n = 1, NEW k \in 1 .. c PROVE Buffered[k] < HeldMessage
  <2>1. h + c + n \in h + c + 1 .. h + c + n
    BY <1>4, <1>17
  <2> QED
    BY <2>1, <1>8, <1>15
<1> QED
  BY <1>4, <1>5, <1>15, <1>16, <1>17

-----------------------------------------------------------------------------
(* What the invariant shows.                                               *)

\* The invariant gives the types that the run checks.
LEMMA IInvTypeOK == IInv => TypeOK
<1> SUFFICES ASSUME IInv PROVE TypeOK
  OBVIOUS
<1>0. Types /\ Stack /\ Sending
  BY DEF IInv
<1>1. /\ vring \in Seq(Messages) /\ {sgi, nokick, cb, raced} \subseteq BOOLEAN
      /\ lock \in Tasks \cup {"free"}
      /\ packets \in [0 .. PACKET_BUFFER_SIZE - 1 -> 0 .. MaxMessages]
      /\ packetsBegin \in 0 .. PACKET_BUFFER_SIZE - 1
      /\ packetsEnd \in 0 .. PACKET_BUFFER_SIZE
      /\ pc \in [Tasks -> Places] /\ rp_hdr \in [Tasks -> 0 .. MaxMessages]
      /\ sent \in 0 .. MaxMessages /\ dropped \subseteq Messages
  BY <1>0 DEF Types, Numbers, S
<1>2. {txavail, txfilled} \subseteq 0 .. TxBuffers /\ tick_count \in 0 .. Ticks
  <2>1. Enqueuing \in 0 .. 1
    BY DEF Enqueuing
  <2> QED
    BY <2>1, <1>0, OpenAmpAssumption DEF Sending
<1>3. PICK n \in Nat : n = Len(active) /\ DOMAIN active = 1 .. n
  BY <1>0 DEF Stack
<1>4. {t \in Tasks : pc[t] # "idle"} = ToSet(active)
  <2>1. ToSet(active) = {active[j] : j \in 1 .. n}
    BY <1>3 DEF ToSet
  <2>2. \A j \in 1 .. n : active[j] \in Tasks
    BY <1>0, <1>3 DEF Stack
  <2>3. \A t \in Tasks : pc[t] # "idle" <=> \E j \in 1 .. n : active[j] = t
    BY <1>0, <1>3 DEF Stack
  <2> QED
    BY <2>1, <2>2, <2>3, Zenon
<1>5. \A j \in 1 .. Len(active) - 1 : Priority[active[j]] < Priority[active[j + 1]]
  <2> TAKE j \in 1 .. Len(active) - 1
  <2>1. j \in 1 .. n /\ j + 1 \in 1 .. n /\ j < j + 1
    BY <1>3
  <2>2. \A i, k \in 1 .. n : i < k => Priority[active[i]] < Priority[active[k]]
    BY <1>0, <1>3 DEF Stack
  <2> QED
    BY <2>1, <2>2
<1> QED
  BY <1>1, <1>2, <1>4, <1>5, Zenon DEF TypeOK

\* What T0's handler got is the beginning of the line.
LEMMA IInvInOrder == IInv => InOrder
<1> SUFFICES ASSUME IInv, ~ raced, handled # << >>
             PROVE  Lists(handled, (1 .. Last(handled)) \ dropped)
  BY DEF InOrder
<1>0. Types /\ OnRing /\ Lined
  BY DEF IInv
<1>1. PICK h \in Nat : h = Len(handled) /\ DOMAIN handled = 1 .. h /\ h > 0
  BY <1>0 DEF Types
<1>2. PICK c \in 0 .. S, n \in 0 .. 1 :
         c = CountOf(packetsBegin, packetsEnd, Past) /\ n = Held
  BY <1>0, LineTypes
<1>3. c \in Nat
  BY OpenAmpAssumption DEF S
<1>4. PICK N \in Nat : N = h + c + n /\ h \in 1 .. N
  BY <1>1, <1>3
<1>5. PICK L : L = Line
  OBVIOUS
<1>6. Len(L) = N /\ DOMAIN L = 1 .. N /\ \A i \in 1 .. h : handled[i] = L[i]
  <2>1. /\ handled \in Seq(Numbers) /\ packets \in [0 .. S - 1 -> Numbers]
        /\ packetsBegin \in 0 .. S - 1 /\ HeldMessage \in Numbers
    BY <1>0, LineTypes, Zenon
  <2>2. L = LineOf(handled, packets, packetsBegin, c, n, HeldMessage)
    BY <1>2, <1>5, Zenon DEF Line
  <2>3. Len(L) = h + c + n /\ DOMAIN L = 1 .. h + c + n
    BY <2>1, <2>2, <1>1, LineLen
  <2>4. L = [i \in 1 .. h + c + n |->
                IF i <= h THEN handled[i]
                ELSE IF i <= h + c THEN packets[Slot(packetsBegin, i - h - 1)] ELSE HeldMessage]
    BY <2>2, <1>1, Zenon DEF LineOf
  <2>5. \A i \in 1 .. h : handled[i] = L[i]
    BY <2>4, <1>3
  <2> QED
    BY <2>3, <2>5, <1>4
<1>7. Taken \in Nat /\ Lists(L, (1 .. Taken) \ dropped)
  BY <1>0, <1>5 DEF OnRing, Lined
<1>8. PICK T, H, D : T \in Nat /\ T = Taken /\ H = handled /\ D = dropped
  BY <1>7
<1>9. Lists(H, (1 .. H[h]) \ D)
  <2>1. Len(H) = h /\ DOMAIN H = 1 .. h /\ \A i \in 1 .. h : H[i] = L[i]
    BY <1>1, <1>6, <1>8
  <2>2. Lists(L, (1 .. T) \ D) /\ Len(L) = N /\ DOMAIN L = 1 .. N
    BY <1>6, <1>7, <1>8
  <2>3. StartOf(H, h, L)
    BY <2>1, Zenon DEF StartOf
  <2> QED
    BY <2>1, <2>2, <2>3, <1>4, <1>8, ListsPrefix, Zenon
<1>10. H[h] = Last(handled)
  BY <1>1, <1>8 DEF Last
<1> QED
  BY <1>8, <1>9, <1>10

\* Only CallDrop drops a message.
LEMMA DropsOnlyHere ==
    ASSUME [Next]_vars, dropped' # dropped
    PROVE  \E t \in Tasks : CallDrop(t)
<1>1. CASE LinuxSend \/ LinuxReceive \/ zynq_a9_proc_irq_handler \/ UNCHANGED vars
  BY <1>1 DEF LinuxSend, LinuxReceive, zynq_a9_proc_irq_handler, vars, history
<1>2. ASSUME NEW t \in Tasks, StartTask(t) PROVE FALSE
  BY <1>2 DEF StartTask
<1>3. ASSUME NEW t \in Tasks, Receive(t), ~ CallDrop(t) PROVE FALSE
  <2>1. CASE metal_mutex_acquire(t) \/ platform_poll_noblock(t) \/ ReadDone(t)
    BY <2>1 DEF metal_mutex_acquire, platform_poll_noblock, ReadDone, history
  <2>2. CASE \/ rpmsg_virtio_get_rx_buffer(t) \/ rpmsg_get_ept_from_addr(t)
             \/ rpmsg_virtio_return_buffer(t)
    BY <2>2 DEF rpmsg_virtio_get_rx_buffer, rpmsg_get_ept_from_addr,
                rpmsg_virtio_return_buffer, history
  <2>3. CASE CallDirect(t) \/ CallBuffer(t) \/ Copy(t)
    BY <2>3 DEF CallDirect, CallBuffer, Copy, history
  <2>4. CASE Increment(t) \/ WrapEnd(t) \/ TestFull(t) \/ MarkFull(t)
    BY <2>4 DEF Increment, WrapEnd, TestFull, MarkFull, MoveEnd, history
  <2> QED
    BY <2>1, <2>2, <2>3, <2>4, <1>3, Zenon DEF Receive
<1>4. CASE Drain \/ Drained
  BY <1>4 DEF Drain, Drained, history
<1>5. CASE \/ rpmsg_virtio_get_tx_buffer \/ metal_sleep_usec \/ NoBuffer
           \/ rpmsg_virtio_enqueue_buffer
  BY <1>5 DEF rpmsg_virtio_get_tx_buffer, metal_sleep_usec, NoBuffer,
              rpmsg_virtio_enqueue_buffer, history
<1> QED
  BY <1>1, <1>2, <1>3, <1>4, <1>5, Zenon DEF Next, Step

\* A message is dropped with the buffer full of older ones.
LEMMA DropIsJustified ==
    ASSUME IInv, [Next]_vars, ~ raced, NEW m \in dropped' \ dropped
    PROVE  Cardinality({w \in Waiting : w < m}) = PACKET_BUFFER_SIZE
<1>0. Types /\ Control /\ OnRing /\ HandFull
  BY DEF IInv
<1>1. PICK t \in Tasks : CallDrop(t)
  BY DropsOnlyHere
<1>2. pc[t] = "call" /\ m = rp_hdr[t] /\ packetsEnd = PACKET_BUFFER_SIZE
  BY <1>1 DEF CallDrop, At, IsFull
<1>3. ~ Moving
  <2>1. \A u \in Tasks : u # t => pc[u] \notin Receiving
    BY <1>0, <1>2 DEF Control, Receiving
  <2> QED
    BY <2>1, <1>2 DEF Moving, Receiving
<1>4. Held = 1 /\ HeldMessage = m
  BY <1>0, <1>2, HeldIs DEF Holding
<1>5. /\ Lists(Buffered, Waiting)
      /\ Len(Buffered) = BufferedCount /\ DOMAIN Buffered = 1 .. BufferedCount
      /\ BufferedCount \in Nat
      /\ \A k \in 1 .. BufferedCount : Buffered[k] < m
  BY <1>3, <1>4, BufferListsWaiting, Zenon
<1>6. Waiting \subseteq Nat
  BY DEF Waiting
<1>7. \A w \in Waiting : w < m
  <2>1. Waiting = {Buffered[k] : k \in 1 .. BufferedCount}
    BY <1>5, Zenon DEF Lists, ToSet
  <2> QED
    BY <2>1, <1>5
<1>8. {w \in Waiting : w < m} = Waiting
  BY <1>7, Zenon
<1>9. BufferedCount = PACKET_BUFFER_SIZE
  BY <1>2 DEF BufferedCount
<1>10. Cardinality(Waiting) = BufferedCount
  BY <1>5, <1>6, ListsCardinality, Zenon
<1> QED
  BY <1>8, <1>9, <1>10, Zenon

\* Type correctness of the variant, for every size of the packet buffer,
\* whether T0 races or not: no step leaves the buffer's indices outside it,
\* a buffer for Linux is never lost or used twice, and the tasks are stacked
\* by priority.
THEOREM TypeCorrect == Spec => []TypeOK
<1>1. Init => IInv
  BY InitIInv
<1>2. IInv /\ [Next]_vars => IInv'
  BY NextIInv
<1>3. IInv => TypeOK
  BY IInvTypeOK
<1> QED
  BY <1>1, <1>2, <1>3, PTL DEF Spec

\* T0's handler gets the messages of Linux once, in order and without an
\* unreported gap, until T0 races.
THEOREM HandledInOrder == Spec => []InOrder
<1>1. IInv => InOrder
  BY IInvInOrder
<1> QED
  BY <1>1, InitIInv, NextIInv, PTL DEF Spec

\* The packet buffer holds what waits for T0, oldest first, whenever no task
\* moves its end, until T0 races.
THEOREM BufferRight == Spec => []BufferHoldsWaiting
<1>1. IInv => BufferHoldsWaiting
  BY BufferListsWaiting DEF BufferHoldsWaiting
<1> QED
  BY <1>1, InitIInv, NextIInv, PTL DEF Spec

\* A message is dropped only when the buffer is full of older ones that wait
\* for T0, until T0 races.
THEOREM DropsRight == Spec => DropsJustified
<1>1. IInv /\ [Next]_vars =>
        [~ raced => \A m \in dropped' \ dropped :
            Cardinality({w \in Waiting : w < m}) = PACKET_BUFFER_SIZE]_vars
  BY DropIsJustified
<1> QED
  BY <1>1, InitIInv, NextIInv, PTL DEF Spec, DropsJustified

(* Tasks that take messages off the ring, by whichever way they came there. *)
OneReceiver == \A t, u \in Tasks : pc[t] \in Receiving /\ pc[u] \in Receiving => t = u

\* Two tasks are never between platform_poll_noblock and the end of the ring
\* at once, although nothing but the kick keeps them apart and T0 may
\* interrupt the others anywhere, whether or not it races.
THEOREM ReceiversApart == Spec => []OneReceiver
<1>1. IInv => OneReceiver
  BY Zenon DEF IInv, Control, OneReceiver
<1> QED
  BY <1>1, InitIInv, NextIInv, PTL DEF Spec
=============================================================================
