----------------------------- MODULE Station_proofs -----------------------------
(* The sweep of the panel over the simulated unit: the registers, the       *)
(* window and the list of changes are right for every table of ranges, size *)
(* of the ring, word and commit delay.                                      *)
EXTENDS Station, SetInduction, SequenceTheorems, TLAPS

-----------------------------------------------------------------------------
(* The queue of writes.                                                    *)

Regs == [Stored -> 0 .. (Word - 1)]
Writable == {a \in Stored : readable(a)}
Entry == [wait : Nat, addr : Writable, val : Nat]

LEMMA Words == /\ Word \in Nat \ {0, 1}
               /\ \A v \in Int : v % Word \in 0 .. (Word - 1)
BY SimAssumption

LEMMA StoreTyped ==
  ASSUME NEW regs \in Regs, NEW a \in Stored, NEW v \in Int
  PROVE  [regs EXCEPT ![a] = v % Word] \in Regs
BY Words DEF Regs

\* What storing the n-th write of q makes of the registers.
Storer(q) == [n \in 1 .. Len(q) |-> [s \in Regs |-> [s EXCEPT ![q[n].addr] = q[n].val % Word]]]
Storing(regs, q, g) ==
  g = [n \in 0 .. Len(q) |-> IF n = 0 THEN regs
                             ELSE [g[n - 1] EXCEPT ![q[n].addr] = q[n].val % Word]]

LEMMA StorerTyped ==
  ASSUME NEW q \in Seq(Entry)
  PROVE  /\ Len(q) \in Nat /\ Storer(q) \in [1 .. Len(q) -> [Regs -> Regs]]
         /\ \A n \in 1 .. Len(q), s \in Regs :
              /\ Storer(q)[n][s] = [s EXCEPT ![q[n].addr] = q[n].val % Word]
              /\ [s EXCEPT ![q[n].addr] = q[n].val % Word] \in Regs
<1>1. ASSUME NEW n \in 1 .. Len(q), NEW s \in Regs
      PROVE  [s EXCEPT ![q[n].addr] = q[n].val % Word] \in Regs
  <2>1. q[n] \in Entry
    BY ElementOfSeq
  <2>2. q[n].addr \in Stored /\ q[n].val \in Int
    BY <2>1 DEF Entry, Writable
  <2> QED
    BY <2>2, StoreTyped
<1>2. ASSUME NEW n \in 1 .. Len(q), NEW s \in Regs
      PROVE  Storer(q)[n][s] = [s EXCEPT ![q[n].addr] = q[n].val % Word]
  BY DEF Storer
<1>3. Storer(q) \in [1 .. Len(q) -> [Regs -> Regs]]
  BY <1>1 DEF Storer
<1> QED
  BY <1>1, <1>2, <1>3, LenProperties

LEMMA AppliedIs ==
  ASSUME NEW regs \in Regs, NEW q \in Seq(Entry)
  PROVE  \E g : Iterated(g, Len(q), Regs, regs, Storer(q)) /\ Applied(regs, q) = g[Len(q)]
<1> DEFINE N == Len(q)
<1>1. /\ N \in Nat
      /\ Storer(q) \in [1 .. N -> [Regs -> Regs]]
      /\ \A n \in 1 .. N, s \in Regs :
           Storer(q)[n][s] = [s EXCEPT ![q[n].addr] = q[n].val % Word]
  BY StorerTyped
<1>2. PICK g : Iterated(g, N, Regs, regs, Storer(q))
  <2> HIDE DEF N
  <2> QED
    BY <1>1, Iterates
<1>3. g \in [0 .. N -> Regs] /\ g[0] = regs /\ \A n \in 1 .. N : g[n] = Storer(q)[n][g[n - 1]]
  <2> HIDE DEF N
  <2> QED
    BY <1>2 DEF Iterated
<1>4. ASSUME NEW n \in 0 .. N
      PROVE  g[n] = IF n = 0 THEN regs ELSE [g[n - 1] EXCEPT ![q[n].addr] = q[n].val % Word]
  <2>1. CASE n = 0
    BY <1>3, <2>1
  <2>2. CASE n # 0
    <3>1. n \in 1 .. N /\ n - 1 \in 0 .. N
      BY <1>1, <2>2
    <3>2. g[n - 1] \in Regs /\ g[n] = Storer(q)[n][g[n - 1]]
      BY <1>3, <3>1
    <3> QED
      BY <1>1, <2>2, <3>1, <3>2
  <2> QED
    BY <2>1, <2>2
<1>5. g = [n \in 0 .. N |-> g[n]]
  BY <1>3
<1>6. Storing(regs, q, g)
  BY <1>4, <1>5, Zenon DEF Storing
<1>7. \E k : Storing(regs, q, k)
  BY <1>6
<1>8. PICK k : Storing(regs, q, k) /\ Applied(regs, q) = k[N]
  BY <1>7 DEF Applied, Storing
<1>9. k[0] = regs /\ \A n \in 1 .. N : k[n] = [k[n - 1] EXCEPT ![q[n].addr] = q[n].val % Word]
  <2> HIDE DEF N
  <2>1. k = [n \in 0 .. N |-> IF n = 0 THEN regs
                              ELSE [k[n - 1] EXCEPT ![q[n].addr] = q[n].val % Word]]
    BY <1>8 DEF Storing, N
  <2>2. 0 \in 0 .. N /\ \A n \in 1 .. N : n \in 0 .. N /\ n # 0
    BY <1>1
  <2> QED
    BY <2>1, <2>2
<1>10. \A n \in 1 .. N : k[n - 1] \in Regs => k[n] = Storer(q)[n][k[n - 1]]
  BY <1>1, <1>9
<1>13. Follows(k, N, Regs, regs, Storer(q))
  BY <1>9, <1>10 DEF Follows
<1>11. \A n \in 0 .. N : k[n] = g[n]
  <2> HIDE DEF N
  <2> QED
    BY <1>1, <1>2, <1>13, IteratesOnce
<1>12. N \in 0 .. N
  BY <1>1
<1> QED
  BY <1>2, <1>8, <1>11, <1>12

\* Writes are stored one at a time.
LEMMA AppliedEmpty ==
  ASSUME NEW regs \in Regs PROVE Applied(regs, <<>>) = regs
<1>1. <<>> \in Seq(Entry) /\ Len(<<>>) = 0
  BY EmptySeq
<1>2. PICK g : Iterated(g, Len(<<>>), Regs, regs, Storer(<<>>)) /\ Applied(regs, <<>>) = g[Len(<<>>)]
  BY <1>1, AppliedIs
<1> QED
  BY <1>1, <1>2 DEF Iterated

LEMMA AppliedAppend ==
  ASSUME NEW regs \in Regs, NEW q \in Seq(Entry), NEW e \in Entry
  PROVE  /\ Append(q, e) \in Seq(Entry) /\ Applied(regs, q) \in Regs
         /\ Applied(regs, Append(q, e)) = [Applied(regs, q) EXCEPT ![e.addr] = e.val % Word]
<1> DEFINE p == Append(q, e)
           N == Len(q)
<1>1. /\ p \in Seq(Entry) /\ N \in Nat /\ Len(p) = N + 1 /\ p[N + 1] = e
      /\ \A n \in 1 .. N : p[n] = q[n]
  BY AppendProperties, LenProperties
<1> HIDE DEF p, N
<1>2. PICK g : Iterated(g, N + 1, Regs, regs, Storer(p)) /\ Applied(regs, p) = g[N + 1]
  BY <1>1, AppliedIs
<1>3. PICK k : Iterated(k, N, Regs, regs, Storer(q)) /\ Applied(regs, q) = k[N]
  BY <1>1, AppliedIs DEF N
<1>4. /\ g \in [0 .. N + 1 -> Regs] /\ g[0] = regs
      /\ \A n \in 1 .. N + 1 : g[n] = Storer(p)[n][g[n - 1]]
  BY <1>2 DEF Iterated
<1>5. \A n \in 1 .. N + 1, s \in Regs : Storer(p)[n][s] = [s EXCEPT ![p[n].addr] = p[n].val % Word]
  BY <1>1, StorerTyped
<1>6. \A n \in 1 .. N, s \in Regs : Storer(q)[n][s] = [s EXCEPT ![q[n].addr] = q[n].val % Word]
  BY StorerTyped DEF N
<1>7. ASSUME NEW n \in 1 .. N PROVE g[n - 1] \in Regs => g[n] = Storer(q)[n][g[n - 1]]
  <2>1. n \in 1 .. N + 1 /\ n - 1 \in 0 .. N + 1
    BY <1>1
  <2>2. g[n - 1] \in Regs /\ g[n] = Storer(p)[n][g[n - 1]]
    BY <1>4, <2>1
  <2>3. p[n] = q[n]
    BY <1>1
  <2>4. g[n] = [g[n - 1] EXCEPT ![p[n].addr] = p[n].val % Word]
    BY <1>5, <2>1, <2>2
  <2>5. Storer(q)[n][g[n - 1]] = [g[n - 1] EXCEPT ![q[n].addr] = q[n].val % Word]
    BY <1>6, <2>2
  <2> QED
    BY <2>3, <2>4, <2>5
<1>8. \A n \in 0 .. N : g[n] = k[n]
  <2>1. Storer(q) \in [1 .. N -> [Regs -> Regs]] /\ g[0] = regs
    BY <1>4, StorerTyped DEF N
  <2>2. \A n \in 1 .. N : g[n - 1] \in Regs => g[n] = Storer(q)[n][g[n - 1]]
    BY <1>7
  <2>3. Follows(g, N, Regs, regs, Storer(q))
    BY <2>1, <2>2 DEF Follows
  <2> QED
    BY <1>1, <1>3, <2>3, IteratesOnce
<1>9. g[N] = k[N] /\ k[N] \in Regs
  <2>1. N \in 0 .. N
    BY <1>1
  <2>2. k \in [0 .. N -> Regs]
    BY <1>3 DEF Iterated
  <2> QED
    BY <1>8, <2>1, <2>2
<1>10. N + 1 \in 1 .. N + 1 /\ N + 1 - 1 = N
  BY <1>1
<1>11. g[N + 1] = [k[N] EXCEPT ![e.addr] = e.val % Word]
  BY <1>1, <1>4, <1>5, <1>9, <1>10
<1> QED
  BY <1>1, <1>2, <1>3, <1>9, <1>11 DEF p

\* What the n-th write of q adds to the entries taken.
Taker(q, W) ==
  [n \in 1 .. Len(q) |-> [t \in Seq(Entry) |-> IF q[n].wait \in W THEN Append(t, q[n]) ELSE t]]
Taking(q, W, g) ==
  g = [n \in 0 .. Len(q) |-> IF n = 0 THEN <<>>
                             ELSE IF q[n].wait \in W THEN Append(g[n - 1], q[n]) ELSE g[n - 1]]

LEMMA TakerTyped ==
  ASSUME NEW q \in Seq(Entry), NEW W
  PROVE  /\ Len(q) \in Nat /\ Taker(q, W) \in [1 .. Len(q) -> [Seq(Entry) -> Seq(Entry)]]
         /\ \A n \in 1 .. Len(q), t \in Seq(Entry) :
              Taker(q, W)[n][t] = IF q[n].wait \in W THEN Append(t, q[n]) ELSE t
<1>1. ASSUME NEW n \in 1 .. Len(q), NEW t \in Seq(Entry)
      PROVE  (IF q[n].wait \in W THEN Append(t, q[n]) ELSE t) \in Seq(Entry)
  <2>1. q[n] \in Entry
    BY ElementOfSeq
  <2> HIDE DEF Entry
  <2> QED
    BY <2>1, AppendProperties
<1>2. ASSUME NEW n \in 1 .. Len(q), NEW t \in Seq(Entry)
      PROVE  Taker(q, W)[n][t] = IF q[n].wait \in W THEN Append(t, q[n]) ELSE t
  BY DEF Taker
<1>3. Taker(q, W) \in [1 .. Len(q) -> [Seq(Entry) -> Seq(Entry)]]
  BY <1>1 DEF Taker
<1> QED
  BY <1>2, <1>3, LenProperties

LEMMA EntriesIs ==
  ASSUME NEW q \in Seq(Entry), NEW W
  PROVE  \E g : Iterated(g, Len(q), Seq(Entry), <<>>, Taker(q, W)) /\ Entries(q, W) = g[Len(q)]
<1> DEFINE N == Len(q)
<1>1. /\ N \in Nat
      /\ Taker(q, W) \in [1 .. N -> [Seq(Entry) -> Seq(Entry)]]
      /\ \A n \in 1 .. N, t \in Seq(Entry) :
           Taker(q, W)[n][t] = IF q[n].wait \in W THEN Append(t, q[n]) ELSE t
  BY TakerTyped
<1>0. <<>> \in Seq(Entry)
  BY EmptySeq
<1>2. PICK g : Iterated(g, N, Seq(Entry), <<>>, Taker(q, W))
  <2> HIDE DEF N
  <2> QED
    BY <1>0, <1>1, Iterates
<1>3. /\ g \in [0 .. N -> Seq(Entry)] /\ g[0] = <<>>
      /\ \A n \in 1 .. N : g[n] = Taker(q, W)[n][g[n - 1]]
  <2> HIDE DEF N
  <2> QED
    BY <1>2 DEF Iterated
<1>4. ASSUME NEW n \in 0 .. N
      PROVE  g[n] = IF n = 0 THEN <<>>
                    ELSE IF q[n].wait \in W THEN Append(g[n - 1], q[n]) ELSE g[n - 1]
  <2>1. CASE n = 0
    BY <1>3, <2>1
  <2>2. CASE n # 0
    <3>1. n \in 1 .. N /\ n - 1 \in 0 .. N
      BY <1>1, <2>2
    <3>2. g[n - 1] \in Seq(Entry) /\ g[n] = Taker(q, W)[n][g[n - 1]]
      BY <1>3, <3>1
    <3> QED
      BY <1>1, <2>2, <3>1, <3>2
  <2> QED
    BY <2>1, <2>2
<1>5. g = [n \in 0 .. N |-> g[n]]
  BY <1>3
<1>6. Taking(q, W, g)
  BY <1>4, <1>5, Zenon DEF Taking
<1>7. \E k : Taking(q, W, k)
  BY <1>6
<1>8. PICK k : Taking(q, W, k) /\ Entries(q, W) = k[N]
  BY <1>7 DEF Entries, Taking
<1>9. /\ k[0] = <<>>
      /\ \A n \in 1 .. N :
           k[n] = IF q[n].wait \in W THEN Append(k[n - 1], q[n]) ELSE k[n - 1]
  <2> HIDE DEF N
  <2>1. k = [n \in 0 .. N |-> IF n = 0 THEN <<>>
                              ELSE IF q[n].wait \in W THEN Append(k[n - 1], q[n]) ELSE k[n - 1]]
    BY <1>8 DEF Taking, N
  <2>2. 0 \in 0 .. N /\ \A n \in 1 .. N : n \in 0 .. N /\ n # 0
    BY <1>1
  <2> QED
    BY <2>1, <2>2, Zenon
<1>10. \A n \in 1 .. N : k[n - 1] \in Seq(Entry) => k[n] = Taker(q, W)[n][k[n - 1]]
  BY <1>1, <1>9
<1>11. \A n \in 0 .. N : k[n] = g[n]
  <2> DEFINE V == Seq(Entry)
             v == <<>>
             G == Taker(q, W)
  <2>1. N \in Nat /\ v \in V /\ Iterated(g, N, V, v, G) /\ k[0] = v
    BY <1>0, <1>1, <1>2, <1>9
  <2>2. \A n \in 1 .. N : k[n - 1] \in V => k[n] = G[n][k[n - 1]]
    BY <1>10
  <2>3. Follows(k, N, V, v, G)
    BY <2>1, <2>2 DEF Follows
  <2> HIDE DEF N, V, v, G
  <2> QED
    BY <2>1, <2>3, IteratesOnce
<1>12. N \in 0 .. N
  BY <1>1
<1> QED
  BY <1>2, <1>8, <1>11, <1>12

\* Entries are taken one at a time, in their order.
LEMMA EntriesEmpty == \A W : Entries(<<>>, W) = <<>>
<1> SUFFICES ASSUME NEW W PROVE Entries(<<>>, W) = <<>>
  OBVIOUS
<1>1. <<>> \in Seq(Entry) /\ Len(<<>>) = 0
  BY EmptySeq
<1>2. PICK g : /\ Iterated(g, Len(<<>>), Seq(Entry), <<>>, Taker(<<>>, W))
               /\ Entries(<<>>, W) = g[Len(<<>>)]
  BY <1>1, EntriesIs
<1> QED
  BY <1>1, <1>2 DEF Iterated

LEMMA EntriesAppend ==
  ASSUME NEW q \in Seq(Entry), NEW W, NEW e \in Entry
  PROVE  /\ Append(q, e) \in Seq(Entry) /\ Entries(q, W) \in Seq(Entry)
         /\ Entries(Append(q, e), W) =
              IF e.wait \in W THEN Append(Entries(q, W), e) ELSE Entries(q, W)
<1> DEFINE p == Append(q, e)
           N == Len(q)
<1>1. /\ p \in Seq(Entry) /\ N \in Nat /\ Len(p) = N + 1 /\ p[N + 1] = e
      /\ \A n \in 1 .. N : p[n] = q[n]
  BY AppendProperties, LenProperties
<1> HIDE DEF p, N
<1>2. PICK g : Iterated(g, N + 1, Seq(Entry), <<>>, Taker(p, W)) /\ Entries(p, W) = g[N + 1]
  BY <1>1, EntriesIs
<1>3. PICK k : Iterated(k, N, Seq(Entry), <<>>, Taker(q, W)) /\ Entries(q, W) = k[N]
  BY <1>1, EntriesIs DEF N
<1>4. /\ g \in [0 .. N + 1 -> Seq(Entry)] /\ g[0] = <<>>
      /\ \A n \in 1 .. N + 1 : g[n] = Taker(p, W)[n][g[n - 1]]
  BY <1>2 DEF Iterated
<1>5. \A n \in 1 .. N + 1, t \in Seq(Entry) :
        Taker(p, W)[n][t] = IF p[n].wait \in W THEN Append(t, p[n]) ELSE t
  BY <1>1, TakerTyped
<1>6. \A n \in 1 .. N, t \in Seq(Entry) :
        Taker(q, W)[n][t] = IF q[n].wait \in W THEN Append(t, q[n]) ELSE t
  BY TakerTyped DEF N
<1>7. ASSUME NEW n \in 1 .. N PROVE g[n - 1] \in Seq(Entry) => g[n] = Taker(q, W)[n][g[n - 1]]
  <2>1. n \in 1 .. N + 1 /\ n - 1 \in 0 .. N + 1
    BY <1>1
  <2>2. g[n - 1] \in Seq(Entry) /\ g[n] = Taker(p, W)[n][g[n - 1]]
    BY <1>4, <2>1
  <2>3. p[n] = q[n]
    BY <1>1
  <2>4. g[n] = IF p[n].wait \in W THEN Append(g[n - 1], p[n]) ELSE g[n - 1]
    BY <1>5, <2>1, <2>2
  <2>5. Taker(q, W)[n][g[n - 1]] = IF q[n].wait \in W THEN Append(g[n - 1], q[n]) ELSE g[n - 1]
    BY <1>6, <2>2
  <2> QED
    BY <2>3, <2>4, <2>5
<1>8. \A n \in 0 .. N : g[n] = k[n]
  <2> DEFINE V == Seq(Entry)
             v == <<>>
             G == Taker(q, W)
  <2>1. N \in Nat /\ v \in V /\ Iterated(k, N, V, v, G) /\ g[0] = v
    BY <1>1, <1>3, <1>4, EmptySeq
  <2>2. \A n \in 1 .. N : g[n - 1] \in V => g[n] = G[n][g[n - 1]]
    BY <1>7
  <2>3. Follows(g, N, V, v, G)
    BY <2>1, <2>2 DEF Follows
  <2> HIDE DEF V, v, G
  <2> QED
    BY <2>1, <2>3, IteratesOnce
<1>9. g[N] = k[N] /\ k[N] \in Seq(Entry)
  <2>1. N \in 0 .. N
    BY <1>1
  <2>2. k \in [0 .. N -> Seq(Entry)]
    BY <1>3 DEF Iterated
  <2> QED
    BY <1>8, <2>1, <2>2
<1>10. PICK m \in 1 .. N + 1 : m = N + 1 /\ m - 1 = N /\ p[m] = e
  BY <1>1
<1>11. g[m] = IF e.wait \in W THEN Append(k[N], e) ELSE k[N]
  <2>1. g[m] = Taker(p, W)[m][g[m - 1]]
    BY <1>4
  <2>2. g[m - 1] = k[N]
    BY <1>9, <1>10
  <2>3. Taker(p, W)[m][k[N]] = IF p[m].wait \in W THEN Append(k[N], p[m]) ELSE k[N]
    BY <1>5, <1>9
  <2> QED
    BY <1>10, <2>1, <2>2, <2>3
<1> QED
  BY <1>1, <1>2, <1>3, <1>9, <1>10, <1>11 DEF p

LEMMA AppliedTyped ==
  ASSUME NEW regs \in Regs, NEW q \in Seq(Entry) PROVE Applied(regs, q) \in Regs
<1>1. PICK g : Iterated(g, Len(q), Regs, regs, Storer(q)) /\ Applied(regs, q) = g[Len(q)]
  BY AppliedIs
<1>2. g \in [0 .. Len(q) -> Regs]
  BY <1>1 DEF Iterated
<1>3. Len(q) \in 0 .. Len(q)
  BY LenProperties
<1> QED
  BY <1>1, <1>2, <1>3

LEMMA EntriesTyped ==
  ASSUME NEW q \in Seq(Entry), NEW W PROVE Entries(q, W) \in Seq(Entry)
<1>1. PICK g : /\ Iterated(g, Len(q), Seq(Entry), <<>>, Taker(q, W))
               /\ Entries(q, W) = g[Len(q)]
  BY EntriesIs
<1>2. g \in [0 .. Len(q) -> Seq(Entry)]
  BY <1>1 DEF Iterated
<1>3. Len(q) \in 0 .. Len(q)
  BY LenProperties
<1> QED
  BY <1>1, <1>2, <1>3

-----------------------------------------------------------------------------
(* By induction over the queue.                                            *)

LEMMA Longer ==
  ASSUME NEW S, NEW q \in Seq(S), NEW e \in S
  PROVE  /\ Append(q, e) \in Seq(S) /\ Len(q) \in Nat /\ Len(Append(q, e)) = Len(q) + 1
         /\ DOMAIN q = 1 .. Len(q) /\ DOMAIN Append(q, e) = 1 .. Len(q) + 1
         /\ Append(q, e)[Len(q) + 1] = e /\ Len(q) + 1 \in DOMAIN Append(q, e)
         /\ \A n \in DOMAIN q : /\ n \in DOMAIN Append(q, e) /\ n < Len(q) + 1 /\ n \in Int
                                /\ Append(q, e)[n] = q[n] /\ q[n] \in S
         /\ \A n \in DOMAIN Append(q, e) : n \in DOMAIN q \/ n = Len(q) + 1
<1> DEFINE p == Append(q, e)
           N == Len(q)
<1>1. /\ p \in Seq(S) /\ N \in Nat /\ Len(p) = N + 1 /\ p[N + 1] = e
      /\ \A n \in 1 .. N : p[n] = q[n]
  BY AppendProperties, LenProperties
<1>2. DOMAIN q = 1 .. N /\ DOMAIN p = 1 .. N + 1
  BY <1>1, LenProperties
<1>3. \A n \in 1 .. N : q[n] \in S
  BY ElementOfSeq
<1> HIDE DEF p, N
<1>4. /\ \A n \in 1 .. N : n \in 1 .. N + 1 /\ n < N + 1 /\ n \in Int
      /\ \A n \in 1 .. N + 1 : n \in 1 .. N \/ n = N + 1
      /\ N + 1 \in 1 .. N + 1
  BY <1>1
<1>5. /\ \A n \in DOMAIN q : /\ n \in DOMAIN p /\ n < N + 1 /\ n \in Int
                             /\ p[n] = q[n] /\ q[n] \in S
      /\ \A n \in DOMAIN p : n \in DOMAIN q \/ n = N + 1
      /\ N + 1 \in DOMAIN p
  BY <1>1, <1>2, <1>3, <1>4
<1> QED
  BY <1>1, <1>2, <1>5 DEF p, N

\* A register without a write keeps its value.
LEMMA AppliedOther ==
  ASSUME NEW regs \in Regs, NEW a \in Stored, NEW q \in Seq(Entry),
         \A i \in DOMAIN q : q[i].addr # a
  PROVE  Applied(regs, q)[a] = regs[a]
<1> DEFINE T == {p \in Seq(Entry) :
                   (\A i \in DOMAIN p : p[i].addr # a) => Applied(regs, p)[a] = regs[a]}
<1>1. <<>> \in T
  BY AppliedEmpty, EmptySeq
<1>2. ASSUME NEW p \in Seq(Entry), p \in T, NEW e \in Entry PROVE Append(p, e) \in T
  <2> DEFINE l == Append(p, e)
  <2> SUFFICES ASSUME \A i \in DOMAIN l : l[i].addr # a PROVE Applied(regs, l)[a] = regs[a]
    BY Longer
  <2>1. (\A i \in DOMAIN p : p[i].addr # a) /\ e.addr # a
    BY Longer
  <2>2. Applied(regs, p)[a] = regs[a]
    BY <1>2, <2>1
  <2>3. /\ Applied(regs, l) = [Applied(regs, p) EXCEPT ![e.addr] = e.val % Word]
        /\ Applied(regs, p) \in Regs
    BY AppliedAppend
  <2> QED
    BY <2>1, <2>2, <2>3 DEF Regs
<1>3. Seq(Entry) \subseteq T
  <2> HIDE DEF T
  <2> QED
    BY <1>1, <1>2, SeqSetInduction
<1> QED
  BY <1>3

WritesTo(q, a) == \E i \in DOMAIN q : q[i].addr = a

\* What is set below the writes shows unless one of them is to that register.
LEMMA AppliedUnder ==
  ASSUME NEW regs \in Regs, NEW a \in Stored, NEW set \in Regs,
         \A b \in Stored \ {a} : set[b] = regs[b], NEW q \in Seq(Entry)
  PROVE  /\ WritesTo(q, a) => Applied(set, q) = Applied(regs, q)
         /\ ~WritesTo(q, a) => Applied(set, q) = [Applied(regs, q) EXCEPT ![a] = set[a]]
<1> DEFINE x == set[a]
           T == {p \in Seq(Entry) :
                   Applied(set, p) = IF \E i \in DOMAIN p : p[i].addr = a THEN Applied(regs, p)
                                     ELSE [Applied(regs, p) EXCEPT ![a] = x]}
<1>1. <<>> \in T
  <2>1. set = [regs EXCEPT ![a] = x]
    BY DEF Regs
  <2>2. Applied(set, <<>>) = set /\ Applied(regs, <<>>) = regs
    BY AppliedEmpty
  <2>3. <<>> \in Seq(Entry) /\ ~ \E i \in DOMAIN <<>> : <<>>[i].addr = a
    BY EmptySeq
  <2> HIDE DEF x
  <2> QED
    BY <2>1, <2>2, <2>3
<1>2. ASSUME NEW p \in Seq(Entry), p \in T, NEW e \in Entry PROVE Append(p, e) \in T
  <2> DEFINE l == Append(p, e)
             b == e.addr
             y == e.val % Word
             old == Applied(regs, p)
             new == Applied(set, p)
             hit == \E i \in DOMAIN p : p[i].addr = a
  <2>1. (\E i \in DOMAIN l : l[i].addr = a) <=> hit \/ b = a
    BY Longer
  <2>2. /\ Applied(regs, l) = [old EXCEPT ![b] = y] /\ Applied(set, l) = [new EXCEPT ![b] = y]
        /\ old \in Regs /\ new \in Regs /\ l \in Seq(Entry)
    <3>1. Applied(regs, l) = [old EXCEPT ![b] = y] /\ old \in Regs /\ l \in Seq(Entry)
      BY AppliedAppend
    <3>2. Applied(set, l) = [new EXCEPT ![b] = y] /\ new \in Regs
      BY AppliedAppend
    <3> QED
      BY <3>1, <3>2
  <2>3. new = IF hit THEN old ELSE [old EXCEPT ![a] = x]
    BY <1>2
  <2> HIDE DEF b, y, old, new, hit, x
  <2>4. CASE hit
    <3>1. Applied(set, l) = Applied(regs, l)
      BY <2>2, <2>3, <2>4
    <3> QED
      BY <2>1, <2>2, <2>4, <3>1
  <2>5. CASE ~hit /\ b = a
    <3>1. [[old EXCEPT ![a] = x] EXCEPT ![b] = y] = [old EXCEPT ![b] = y]
      BY <2>2, <2>5 DEF Regs
    <3>2. Applied(set, l) = Applied(regs, l)
      BY <2>2, <2>3, <2>5, <3>1
    <3> QED
      BY <2>1, <2>2, <2>5, <3>2
  <2>6. CASE ~hit /\ b # a
    <3>1. [[old EXCEPT ![a] = x] EXCEPT ![b] = y] = [[old EXCEPT ![b] = y] EXCEPT ![a] = x]
      BY <2>2, <2>6 DEF Regs
    <3>2. Applied(set, l) = [Applied(regs, l) EXCEPT ![a] = x]
      BY <2>2, <2>3, <2>6, <3>1
    <3> QED
      BY <2>1, <2>2, <2>6, <3>2
  <2> QED
    BY <2>4, <2>5, <2>6
<1>3. Seq(Entry) \subseteq T
  <2> HIDE DEF T
  <2> QED
    BY <1>1, <1>2, SeqSetInduction
<1> QED
  BY <1>3 DEF WritesTo

\* How long a write waits plays no part in what it stores.
Alike(p, q) ==
  Len(p) = Len(q) /\ \A i \in DOMAIN p : p[i].addr = q[i].addr /\ p[i].val = q[i].val

LEMMA AppliedAlike ==
  ASSUME NEW regs \in Regs, NEW p \in Seq(Entry), NEW q \in Seq(Entry), Alike(p, q)
  PROVE  Applied(regs, p) = Applied(regs, q)
<1> DEFINE T == {k \in Seq(Entry) : \A o \in Seq(Entry) : Alike(o, k) =>
                                      Applied(regs, o) = Applied(regs, k)}
<1>1. <<>> \in T
  BY EmptySeq DEF Alike
<1>2. ASSUME NEW k \in Seq(Entry), k \in T, NEW e \in Entry PROVE Append(k, e) \in T
  <2> SUFFICES ASSUME NEW o \in Seq(Entry), Alike(o, Append(k, e))
               PROVE  Applied(regs, o) = Applied(regs, Append(k, e))
    BY AppendProperties
  <2>1. Len(Append(k, e)) = Len(k) + 1 /\ Len(k) \in Nat
    BY Longer
  <2>2. o # <<>>
    BY <2>1, EmptySeq DEF Alike
  <2>3. PICK front \in Seq(Entry), f \in Entry : o = Append(front, f)
    BY <2>2, SequenceEmptyOrAppend
  <2>4. Len(o) = Len(front) + 1 /\ Len(front) \in Nat
    BY <2>3, Longer
  <2>5. Len(front) = Len(k)
    BY <2>1, <2>4 DEF Alike
  <2>6. f.addr = e.addr /\ f.val = e.val
    <3>1. o[Len(k) + 1] = f /\ Append(k, e)[Len(k) + 1] = e /\ Len(k) + 1 \in DOMAIN o
      BY <2>3, <2>5, Longer
    <3> QED
      BY <3>1 DEF Alike
  <2>7. Alike(front, k)
    <3>1. ASSUME NEW i \in DOMAIN front
          PROVE  front[i].addr = k[i].addr /\ front[i].val = k[i].val
      <4>1. o[i] = front[i] /\ i \in DOMAIN o
        BY <2>3, Longer
      <4>2. i \in DOMAIN k
        BY <2>5, LenProperties
      <4>3. Append(k, e)[i] = k[i]
        BY <4>2, Longer
      <4> QED
        BY <4>1, <4>3 DEF Alike
    <3> QED
      BY <2>5, <3>1 DEF Alike
  <2>8. Applied(regs, front) = Applied(regs, k)
    BY <1>2, <2>7
  <2>9. Applied(regs, o) = [Applied(regs, front) EXCEPT ![f.addr] = f.val % Word]
    BY <2>3, AppliedAppend
  <2>10. Applied(regs, Append(k, e)) = [Applied(regs, k) EXCEPT ![e.addr] = e.val % Word]
    BY AppliedAppend
  <2> QED
    BY <2>6, <2>8, <2>9, <2>10
<1>3. Seq(Entry) \subseteq T
  <2> HIDE DEF T
  <2> QED
    BY <1>1, <1>2, SeqSetInduction
<1> QED
  BY <1>3

\* What is taken was there, and what was there is taken.
LEMMA EntriesFrom ==
  ASSUME NEW W, NEW q \in Seq(Entry)
  PROVE  /\ \A i \in DOMAIN Entries(q, W) :
              \E j \in DOMAIN q : Entries(q, W)[i] = q[j] /\ q[j].wait \in W
         /\ Entries(q, W) = <<>> => \A j \in DOMAIN q : q[j].wait \notin W
<1> DEFINE T == {p \in Seq(Entry) :
                   /\ \A i \in DOMAIN Entries(p, W) :
                        \E j \in DOMAIN p : Entries(p, W)[i] = p[j] /\ p[j].wait \in W
                   /\ Entries(p, W) = <<>> => \A j \in DOMAIN p : p[j].wait \notin W}
<1>1. <<>> \in T
  <2>1. Entries(<<>>, W) = <<>>
    BY EntriesEmpty
  <2>2. DOMAIN <<>> = {}
    OBVIOUS
  <2> QED
    BY <2>1, <2>2, EmptySeq
<1>2. ASSUME NEW p \in Seq(Entry), p \in T, NEW e \in Entry PROVE Append(p, e) \in T
  <2> DEFINE l == Append(p, e)
             t == Entries(p, W)
  <2>1. /\ l \in Seq(Entry) /\ t \in Seq(Entry)
        /\ Entries(l, W) = IF e.wait \in W THEN Append(t, e) ELSE t
    BY EntriesAppend
  <2>2. /\ \A j \in DOMAIN p : j \in DOMAIN l /\ l[j] = p[j]
        /\ l[Len(p) + 1] = e /\ Len(p) + 1 \in DOMAIN l
        /\ \A j \in DOMAIN l : j \in DOMAIN p \/ j = Len(p) + 1
    BY Longer
  <2>3. /\ \A i \in DOMAIN t : \E j \in DOMAIN p : t[i] = p[j] /\ p[j].wait \in W
        /\ t = <<>> => \A j \in DOMAIN p : p[j].wait \notin W
    BY <1>2
  <2>4. \A i \in DOMAIN t : \E j \in DOMAIN l : t[i] = l[j] /\ l[j].wait \in W
    BY <2>2, <2>3
  <2> HIDE DEF l, t
  <2>5. CASE e.wait \in W
    <3>1. ASSUME NEW i \in DOMAIN Append(t, e)
          PROVE  \E j \in DOMAIN l : Append(t, e)[i] = l[j] /\ l[j].wait \in W
      <4>1. \/ i \in DOMAIN t /\ Append(t, e)[i] = t[i]
            \/ Append(t, e)[i] = e
        BY <2>1, Longer
      <4> QED
        BY <2>2, <2>4, <2>5, <4>1
    <3>2. Append(t, e) # <<>>
      <4>1. Len(Append(t, e)) = Len(t) + 1 /\ Len(t) \in Nat
        BY <2>1, Longer
      <4>2. Len(<<>>) = 0
        BY EmptySeq
      <4> HIDE DEF t
      <4> QED
        BY <4>1, <4>2
    <3>3. Entries(l, W) = Append(t, e)
      BY <2>1, <2>5
    <3> QED
      BY <2>1, <3>1, <3>2, <3>3 DEF l
  <2>6. CASE e.wait \notin W
    <3>1. Entries(l, W) = t
      BY <2>1, <2>6
    <3>2. t = <<>> => \A j \in DOMAIN l : l[j].wait \notin W
      BY <2>2, <2>3, <2>6
    <3> QED
      BY <2>1, <2>4, <3>1, <3>2 DEF l
  <2> QED
    BY <2>5, <2>6
<1>3. Seq(Entry) \subseteq T
  <2> HIDE DEF T
  <2> QED
    BY <1>1, <1>2, SeqSetInduction
<1> QED
  BY <1>3

\* Where no write overtakes another, storing those that are due before the
\* others is storing all in their order.
Lined(q) == \A i, j \in DOMAIN q : i < j => q[i].wait <= q[j].wait

LEMMA LinedAppend ==
  ASSUME NEW q \in Seq(Entry), NEW e \in Entry
  PROVE  Lined(Append(q, e)) <=> Lined(q) /\ \A i \in DOMAIN q : q[i].wait <= e.wait
<1> DEFINE p == Append(q, e)
           N == Len(q)
<1>1. /\ p[N + 1] = e /\ N + 1 \in DOMAIN p /\ N \in Nat
      /\ \A n \in DOMAIN q : /\ n \in DOMAIN p /\ n < N + 1 /\ n \in Int
                             /\ p[n] = q[n]
      /\ \A n \in DOMAIN p : n \in DOMAIN q \/ n = N + 1
  BY Longer
<1> HIDE DEF p, N
<1>2. Lined(p) => Lined(q) /\ \A i \in DOMAIN q : q[i].wait <= e.wait
  BY <1>1 DEF Lined
<1>3. ASSUME Lined(q), \A i \in DOMAIN q : q[i].wait <= e.wait PROVE Lined(p)
  <2> SUFFICES ASSUME NEW i \in DOMAIN p, NEW j \in DOMAIN p, i < j
               PROVE  p[i].wait <= p[j].wait
    BY DEF Lined
  <2>1. i \in DOMAIN q
    BY <1>1
  <2>2. CASE j \in DOMAIN q
    BY <1>1, <1>3, <2>1, <2>2 DEF Lined
  <2>3. CASE j = N + 1
    BY <1>1, <1>3, <2>1, <2>3
  <2> QED
    BY <1>1, <2>2, <2>3
<1> QED
  BY <1>2, <1>3 DEF p

LEMMA EntriesLined ==
  ASSUME NEW W, NEW q \in Seq(Entry), Lined(q) PROVE Lined(Entries(q, W))
<1> DEFINE T == {p \in Seq(Entry) : Lined(p) => Lined(Entries(p, W))}
<1>1. <<>> \in T
  BY EntriesEmpty, EmptySeq
<1>2. ASSUME NEW p \in Seq(Entry), p \in T, NEW e \in Entry PROVE Append(p, e) \in T
  <2> DEFINE t == Entries(p, W)
  <2> SUFFICES ASSUME Lined(Append(p, e)) PROVE Lined(Entries(Append(p, e), W))
    BY Longer
  <2>1. Lined(p) /\ \A i \in DOMAIN p : p[i].wait <= e.wait
    BY LinedAppend
  <2>2. t \in Seq(Entry) /\ Lined(t)
    BY <1>2, <2>1, EntriesTyped
  <2>3. \A i \in DOMAIN t : t[i].wait <= e.wait
    BY <2>1, EntriesFrom
  <2>4. Lined(Append(t, e))
    <3> HIDE DEF t
    <3> QED
      BY <2>2, <2>3, LinedAppend
  <2> QED
    BY <2>2, <2>4, EntriesAppend
<1>3. Seq(Entry) \subseteq T
  <2> HIDE DEF T
  <2> QED
    BY <1>1, <1>2, SeqSetInduction
<1> QED
  BY <1>3

LEMMA CommitInOrder ==
  ASSUME NEW regs \in Regs, NEW q \in Seq(Entry), Lined(q)
  PROVE  Applied(Applied(regs, Due(q)), Waiting(q)) = Applied(regs, q)
<1> DEFINE T == {p \in Seq(Entry) :
                   Lined(p) => Applied(Applied(regs, Due(p)), Waiting(p)) = Applied(regs, p)}
<1>1. <<>> \in T
  <2>1. Due(<<>>) = <<>> /\ Waiting(<<>>) = <<>>
    BY EntriesEmpty DEF Due, Waiting
  <2> QED
    BY <2>1, AppliedEmpty, EmptySeq
<1>2. ASSUME NEW p \in Seq(Entry), p \in T, NEW e \in Entry PROVE Append(p, e) \in T
  <2> DEFINE l == Append(p, e)
  <2> SUFFICES ASSUME Lined(l)
               PROVE  Applied(Applied(regs, Due(l)), Waiting(l)) = Applied(regs, l)
    BY Longer
  <2>1. Lined(p) /\ \A i \in DOMAIN p : p[i].wait <= e.wait
    BY LinedAppend
  <2>2. Due(p) \in Seq(Entry) /\ Waiting(p) \in Seq(Entry)
    BY EntriesTyped DEF Due, Waiting
  <2>3. Applied(Applied(regs, Due(p)), Waiting(p)) = Applied(regs, p)
    BY <1>2, <2>1
  <2>4. Applied(regs, l) = [Applied(regs, p) EXCEPT ![e.addr] = e.val % Word]
    BY AppliedAppend
  <2>5. CASE e.wait = 0
    <3>1. Due(l) = Append(Due(p), e) /\ Waiting(l) = Waiting(p)
      BY <2>5, EntriesAppend DEF Due, Waiting
    <3>2. Waiting(p) = <<>>
      <4>1. \A i \in DOMAIN p : p[i].wait \in Nat
        <5>1. \A i \in DOMAIN p : p[i] \in Entry
          BY Longer
        <5> QED
          BY <5>1 DEF Entry
      <4>2. ASSUME NEW i \in DOMAIN p PROVE p[i].wait = 0
        <5>1. p[i].wait <= 0 /\ p[i].wait \in Nat
          BY <2>1, <2>5, <4>1
        <5> QED
          BY <5>1
      <4>3. \A i \in DOMAIN Waiting(p) : \E j \in DOMAIN p : p[j].wait \in Nat \ {0}
        BY EntriesFrom DEF Waiting
      <4>4. DOMAIN Waiting(p) = {}
        BY <4>2, <4>3
      <4>5. DOMAIN Waiting(p) = 1 .. Len(Waiting(p)) /\ Len(Waiting(p)) \in Nat
        BY <2>2, LenProperties
      <4>6. Len(Waiting(p)) = 0
        BY <4>4, <4>5
      <4> QED
        BY <2>2, <4>6, EmptySeq
    <3>3. Applied(regs, Due(l)) = [Applied(regs, Due(p)) EXCEPT ![e.addr] = e.val % Word]
      BY <2>2, <3>1, AppliedAppend
    <3>4. Applied(regs, Due(p)) = Applied(regs, p)
      BY <2>2, <2>3, <3>2, AppliedTyped, AppliedEmpty
    <3>5. Applied(regs, Due(l)) \in Regs
      BY <2>2, <3>1, AppliedAppend, AppliedTyped
    <3> QED
      BY <2>4, <3>1, <3>2, <3>3, <3>4, <3>5, AppliedEmpty
  <2>6. CASE e.wait # 0
    <3>1. e.wait \in Nat \ {0}
      BY <2>6 DEF Entry
    <3>2. Due(l) = Due(p) /\ Waiting(l) = Append(Waiting(p), e)
      BY <3>1, EntriesAppend DEF Due, Waiting
    <3>3. Applied(regs, Due(p)) \in Regs
      BY <2>2, AppliedTyped
    <3>4. Applied(Applied(regs, Due(p)), Append(Waiting(p), e)) =
            [Applied(Applied(regs, Due(p)), Waiting(p)) EXCEPT ![e.addr] = e.val % Word]
      BY <2>2, <3>3, AppliedAppend
    <3> QED
      BY <2>3, <2>4, <3>2, <3>4
  <2> QED
    BY <2>5, <2>6
<1>3. Seq(Entry) \subseteq T
  <2> HIDE DEF T
  <2> QED
    BY <1>1, <1>2, SeqSetInduction
<1> QED
  BY <1>3

-----------------------------------------------------------------------------
(* The unit: its registers, their writes and the window.                   *)

Events == {"commit", "log"}
Phases == {"idle", "tick", "drain", "refresh"}
Counts == [ENERGY_COUNTERS -> Nat]
Calls == [Threads -> Seq(Entry)]
Shown == [Controls -> 0 .. (Word - 1)]

UnitTyped ==
  /\ r \in Regs /\ want \in Regs /\ pending \in Seq(Entry) /\ delay \in Delays
  /\ energy \in Counts /\ calls \in Calls /\ events \in Seq(Events)
  /\ gui \in Phases /\ committed \in BOOLEAN /\ shown \in Shown

\* What the registers become when all writes are stored is what each must
\* become, and no write overtakes another.
InOrder ==
  ~cut => /\ Lined(pending) /\ \A i \in DOMAIN pending : pending[i].wait <= delay
          /\ want = Applied(r, pending)

LEMMA ControlsStored == Controls \subseteq Stored /\ Delays \subseteq Nat /\ 1 \in Delays
BY SimAssumption DEF Controls, Stored

LEMMA InitialTyped == Initial \in Regs
<1>1. 2300 % Word \in 0 .. (Word - 1) /\ 0 \in 0 .. (Word - 1) /\ 1 \in 0 .. (Word - 1)
  BY Words
<1>2. \A a \in Stored : (IF a \in {CTRL_AC, CTRL_DC} THEN 1
                         ELSE IF a = AC_OUT_DV THEN 2300 % Word ELSE 0) \in 0 .. (Word - 1)
  BY <1>1
<1> QED
  BY <1>2 DEF Initial, Regs

LEMMA UnitInit == SimInit => UnitTyped /\ InOrder /\ WindowFollows
<1> SUFFICES ASSUME SimInit PROVE UnitTyped /\ InOrder /\ WindowFollows
  OBVIOUS
<1>1. r = Initial /\ want = Initial /\ Initial \in Regs
  BY InitialTyped DEF SimInit
<1>2. pending = <<>> /\ events = <<>> /\ \A t \in Threads : calls[t] = <<>>
  BY DEF SimInit
<1>3. pending \in Seq(Entry) /\ events \in Seq(Events) /\ DOMAIN pending = {}
  BY <1>2, EmptySeq
<1>4. calls \in Calls
  <2>1. <<>> \in Seq(Entry)
    BY EmptySeq
  <2> QED
    BY <2>1 DEF SimInit, Calls
<1>5. energy \in Counts
  BY DEF SimInit, InitialEnergy, Counts, ENERGY_COUNTERS, AC_OUT_ENERGY, PV_CHG_ENERGY,
         GRID_CHG_ENERGY
<1>6. shown \in Shown /\ shown = [a \in Controls |-> r[a]]
  BY <1>1, ControlsStored DEF SimInit, Shown, Regs
<1>7. delay \in Delays /\ gui \in Phases /\ committed \in BOOLEAN
  BY ControlsStored DEF SimInit, Phases
<1>8. Applied(r, pending) = want /\ Lined(pending)
  BY <1>1, <1>2, <1>3, AppliedEmpty DEF Lined
<1> QED
  BY <1>1, <1>3, <1>4, <1>5, <1>6, <1>7, <1>8 DEF UnitTyped, InOrder, WindowFollows

Unit == UnitTyped /\ InOrder /\ WindowFollows

\* What none of the three depends on.
LEMMA UnitStays ==
  ASSUME Unit, UNCHANGED unitElse PROVE Unit'
BY DEF unitElse, Unit, UnitTyped, InOrder, WindowFollows, Lined

LEMMA CommitKeeps ==
  ASSUME Unit, NEW t \in Threads, commit_due(t),
         UNCHANGED <<energy, delay, events, shown, committed, want, cut>>, gui' \in Phases
  PROVE  Unit'
<1>1. /\ r \in Regs /\ pending \in Seq(Entry) /\ calls \in Calls /\ UnitTyped
      /\ r' = Applied(r, Due(pending)) /\ pending' = Waiting(pending)
      /\ calls' = [calls EXCEPT ![t] = Due(pending)]
  BY DEF Unit, UnitTyped, commit_due
<1>2. Due(pending) \in Seq(Entry) /\ Waiting(pending) \in Seq(Entry)
  BY <1>1, EntriesTyped DEF Due, Waiting
<1>3. r' \in Regs /\ pending' \in Seq(Entry)
  BY <1>1, <1>2, AppliedTyped
<1>4. calls' \in Calls
  <2> HIDE DEF Entry
  <2> QED
    BY <1>1, <1>2 DEF Calls
<1>5. UnitTyped'
  BY <1>1, <1>3, <1>4 DEF UnitTyped
<1>6. InOrder'
  <2> SUFFICES ASSUME ~cut
               PROVE  /\ Lined(pending') /\ \A i \in DOMAIN pending' : pending'[i].wait <= delay
                      /\ want = Applied(r', pending')
    BY DEF InOrder, Lined
  <2>1. Lined(pending) /\ (\A i \in DOMAIN pending : pending[i].wait <= delay)
        /\ want = Applied(r, pending)
    BY DEF Unit, InOrder
  <2>2. Lined(pending')
    BY <1>1, <2>1, EntriesLined DEF Waiting
  <2>3. \A i \in DOMAIN pending' : pending'[i].wait <= delay
    BY <1>1, <2>1, EntriesFrom DEF Waiting
  <2>4. want = Applied(r', pending')
    BY <1>1, <2>1, CommitInOrder
  <2> QED
    BY <2>2, <2>3, <2>4
<1>7. WindowFollows'
  <2>1. CASE Due(pending) = <<>>
    <3>1. r' = r
      BY <1>1, <2>1, AppliedEmpty
    <3>2. calls' = [calls EXCEPT ![t] = <<>>] /\ calls[t] = <<>>
      BY <1>1, <2>1 DEF commit_due
    <3>3. \A u \in Threads : calls[u] # <<>> => calls'[u] # <<>>
      BY <1>1, <3>2 DEF Calls
    <3> QED
      BY <3>1, <3>3 DEF Unit, WindowFollows
  <2>2. CASE Due(pending) # <<>>
    <3>1. calls'[t] # <<>>
      BY <1>1, <2>2 DEF Calls
    <3> QED
      BY <3>1 DEF WindowFollows
  <2> QED
    BY <2>1, <2>2
<1> QED
  BY <1>5, <1>6, <1>7 DEF Unit

LEMMA CallbackKeeps ==
  ASSUME Unit, NEW t \in Threads, on_commit(t) PROVE Unit'
<1>1. /\ calls \in Calls /\ calls[t] # <<>> /\ calls' = [calls EXCEPT ![t] = Tail(calls[t])]
      /\ events \in Seq(Events) /\ events' = Append(events, "commit") /\ UnitTyped
      /\ UNCHANGED <<r, energy, pending, delay, shown, gui, committed, want, cut>>
  BY DEF Unit, UnitTyped, on_commit
<1>2. calls' \in Calls
  <2>1. calls[t] \in Seq(Entry)
    BY <1>1 DEF Calls
  <2> HIDE DEF Entry
  <2>2. Tail(calls[t]) \in Seq(Entry)
    BY <1>1, <2>1, HeadTailProperties
  <2> QED
    BY <1>1, <2>2 DEF Calls
<1>3. events' \in Seq(Events) /\ \E i \in DOMAIN events' : events'[i] = "commit"
  BY <1>1, Longer DEF Events
<1>4. UnitTyped'
  BY <1>1, <1>2, <1>3 DEF UnitTyped
<1>5. InOrder'
  BY <1>1 DEF Unit, InOrder, Lined
<1>6. WindowFollows'
  BY <1>3 DEF WindowFollows
<1> QED
  BY <1>4, <1>5, <1>6 DEF Unit

\* A write of the panel is queued behind the others.
LEMMA WriteKeeps ==
  ASSUME Unit, NEW a, NEW v \in Nat, readable(a) => a \in Stored, write(a, v) PROVE Unit'
<1>1. /\ UnitTyped /\ events' = Append(events, "log") /\ events \in Seq(Events)
      /\ UNCHANGED <<r, energy, delay, calls, shown, gui, committed, cut>>
      /\ r \in Regs /\ want \in Regs /\ pending \in Seq(Entry) /\ delay \in Nat
  BY ControlsStored DEF Unit, UnitTyped, write
<1>2. events' \in Seq(Events) /\ \A i \in DOMAIN events : i \in DOMAIN events' /\ events'[i] = events[i]
  BY <1>1, Longer DEF Events
<1>3. WindowFollows'
  BY <1>1, <1>2 DEF Unit, WindowFollows
<1>4. CASE ~readable(a)
  <2>1. UNCHANGED <<pending, want>>
    BY <1>4 DEF write
  <2> QED
    BY <1>1, <1>2, <1>3, <2>1 DEF Unit, UnitTyped, InOrder, Lined
<1>5. CASE readable(a)
  <2> DEFINE e == [wait |-> delay, addr |-> a, val |-> v]
  <2>1. pending' = Append(pending, e) /\ want' = [want EXCEPT ![a] = v % Word]
    BY <1>5 DEF write
  <2>2. e \in Entry
    BY <1>1, <1>5 DEF Entry, Writable
  <2>3. pending' \in Seq(Entry)
    BY <1>1, <2>1, <2>2, AppendProperties
  <2>4. want' \in Regs
    <3>1. want \in Regs /\ a \in Stored /\ v \in Int
      BY <1>1, <1>5
    <3>2. [want EXCEPT ![a] = v % Word] \in Regs
      BY <3>1, StoreTyped
    <3> QED
      BY <2>1, <3>2
  <2>5. UnitTyped'
    BY <1>1, <1>2, <2>3, <2>4 DEF UnitTyped
  <2>6. InOrder'
    <3> SUFFICES ASSUME ~cut
                 PROVE  /\ Lined(pending')
                        /\ \A i \in DOMAIN pending' : pending'[i].wait <= delay
                        /\ want' = Applied(r, pending')
      BY <1>1 DEF InOrder, Lined
    <3>1. /\ Lined(pending) /\ \A i \in DOMAIN pending : pending[i].wait <= delay
          /\ want = Applied(r, pending)
      BY DEF Unit, InOrder
    <3>2. e.wait = delay /\ e.addr = a /\ e.val = v
      OBVIOUS
    <3> HIDE DEF e
    <3>3. Lined(pending')
      BY <1>1, <2>1, <2>2, <3>1, <3>2, LinedAppend
    <3>4. ASSUME NEW i \in DOMAIN pending' PROVE pending'[i].wait <= delay
      <4>1. (i \in DOMAIN pending /\ pending'[i] = pending[i]) \/ pending'[i] = e
        BY <1>1, <2>1, <2>2, Longer
      <4> QED
        BY <1>1, <3>1, <3>2, <4>1
    <3>5. want' = Applied(r, pending')
      BY <1>1, <2>1, <2>2, <3>1, <3>2, AppliedAppend
    <3> QED
      BY <3>3, <3>4, <3>5
  <2> QED
    BY <1>3, <2>5, <2>6 DEF Unit
<1> QED
  BY <1>4, <1>5

LEMMA TimeKeeps == ASSUME Unit, TimePasses PROVE Unit'
<1>1. /\ UnitTyped /\ pending \in Seq(Entry) /\ delay \in Nat /\ r \in Regs
      /\ UNCHANGED <<r, energy, delay, calls, events, shown, gui, committed, want, cut>>
      /\ pending' = [i \in DOMAIN pending |->
                       [pending[i] EXCEPT !.wait = IF pending[i].wait > 0
                                                   THEN pending[i].wait - 1 ELSE 0]]
  BY ControlsStored DEF Unit, UnitTyped, TimePasses
<1>2. Len(pending) \in Nat /\ DOMAIN pending = 1 .. Len(pending)
      /\ \A i \in DOMAIN pending : pending[i] \in Entry
  BY <1>1, LenProperties, ElementOfSeq
<1>3. ASSUME NEW i \in DOMAIN pending
      PROVE  /\ pending'[i] \in Entry /\ pending[i].wait \in Nat
             /\ pending'[i].wait = IF pending[i].wait > 0 THEN pending[i].wait - 1 ELSE 0
             /\ pending'[i].addr = pending[i].addr /\ pending'[i].val = pending[i].val
  <2>1. pending'[i] = [pending[i] EXCEPT !.wait = IF pending[i].wait > 0
                                                  THEN pending[i].wait - 1 ELSE 0]
    BY <1>1
  <2> QED
    BY <1>2, <2>1 DEF Entry
<1>4. DOMAIN pending' = DOMAIN pending
  BY <1>1
<1>5. pending' \in Seq(Entry) /\ Len(pending') = Len(pending)
  <2>1. pending' = [i \in 1 .. Len(pending) |-> pending'[i]]
    BY <1>1, <1>2
  <2>2. \A i \in 1 .. Len(pending) : pending'[i] \in Entry
    BY <1>2, <1>3
  <2> HIDE DEF Entry
  <2> QED
    BY <1>2, <2>1, <2>2
<1>6. UnitTyped'
  BY <1>1, <1>5 DEF UnitTyped
<1>7. InOrder'
  <2> SUFFICES ASSUME ~cut
               PROVE  /\ Lined(pending') /\ \A i \in DOMAIN pending' : pending'[i].wait <= delay
                      /\ want = Applied(r, pending')
    BY <1>1 DEF InOrder, Lined
  <2>1. /\ Lined(pending) /\ \A i \in DOMAIN pending : pending[i].wait <= delay
        /\ want = Applied(r, pending)
    BY DEF Unit, InOrder
  <2>2. Lined(pending')
    <3> SUFFICES ASSUME NEW i \in DOMAIN pending, NEW j \in DOMAIN pending, i < j
                 PROVE  pending'[i].wait <= pending'[j].wait
      BY <1>4 DEF Lined
    <3>1. pending[i].wait <= pending[j].wait
      BY <2>1 DEF Lined
    <3> QED
      BY <1>3, <3>1
  <2>3. ASSUME NEW i \in DOMAIN pending' PROVE pending'[i].wait <= delay
    <3>1. i \in DOMAIN pending
      BY <1>4
    <3>2. /\ pending[i].wait \in Nat /\ pending[i].wait <= delay
          /\ pending'[i].wait = IF pending[i].wait > 0 THEN pending[i].wait - 1 ELSE 0
      BY <1>3, <2>1, <3>1
    <3> QED
      BY <1>1, <3>2
  <2>4. Alike(pending', pending)
    BY <1>3, <1>4, <1>5 DEF Alike
  <2>5. want = Applied(r, pending')
    BY <1>1, <1>5, <2>1, <2>4, AppliedAlike
  <2> QED
    BY <2>2, <2>3, <2>5
<1>8. WindowFollows'
  BY <1>1 DEF Unit, WindowFollows
<1> QED
  BY <1>6, <1>7, <1>8 DEF Unit

\* A control that is moved sets the register below the writes that wait.
LEMMA SetKeeps ==
  ASSUME Unit, NEW a \in Controls, NEW v \in SetValues[a], Set(a, v) PROVE Unit'
<1>1. a \in Stored /\ v \in 0 .. (Word - 1) /\ v % Word = v
  <2>1. v \in 0 .. (Word - 1) /\ Word \in Nat \ {0}
    BY SimAssumption DEF Controls
  <2> QED
    BY <2>1, ControlsStored
<1>2. /\ UnitTyped /\ r \in Regs /\ want \in Regs /\ pending \in Seq(Entry) /\ shown \in Shown
      /\ r' = [r EXCEPT ![a] = v] /\ shown' = [shown EXCEPT ![a] = v]
      /\ want' = IF Overtakes(a) THEN want ELSE [want EXCEPT ![a] = v]
      /\ UNCHANGED <<energy, pending, delay, calls, events, gui, committed, cut>>
  BY <1>1 DEF Unit, UnitTyped, Set
<1>3. r' \in Regs /\ want' \in Regs /\ shown' \in Shown
  BY <1>1, <1>2 DEF Regs, Shown
<1>4. UnitTyped'
  BY <1>2, <1>3 DEF UnitTyped
<1>5. InOrder'
  <2> SUFFICES ASSUME ~cut PROVE want' = Applied(r', pending)
    BY <1>2 DEF Unit, InOrder, Lined
  <2>1. want = Applied(r, pending)
    BY DEF Unit, InOrder
  <2>2. /\ WritesTo(pending, a) => Applied(r', pending) = Applied(r, pending)
        /\ ~WritesTo(pending, a) => Applied(r', pending) = [Applied(r, pending) EXCEPT ![a] = v]
    <3>1. r'[a] = v /\ \A b \in Stored \ {a} : r'[b] = r[b]
      BY <1>1, <1>2 DEF Regs
    <3>2. r \in Regs /\ a \in Stored /\ r' \in Regs /\ pending \in Seq(Entry)
      BY <1>1, <1>2, <1>3
    <3>3. /\ WritesTo(pending, a) => Applied(r', pending) = Applied(r, pending)
          /\ ~WritesTo(pending, a) =>
               Applied(r', pending) = [Applied(r, pending) EXCEPT ![a] = r'[a]]
      BY <3>1, <3>2, AppliedUnder
    <3> QED
      BY <3>1, <3>3
  <2>3. Overtakes(a) <=> WritesTo(pending, a)
    BY DEF Overtakes, WritesTo
  <2>4. CASE Overtakes(a)
    BY <1>2, <2>1, <2>2, <2>3, <2>4
  <2>5. CASE ~Overtakes(a)
    BY <1>2, <2>1, <2>2, <2>3, <2>5
  <2> QED
    BY <2>4, <2>5
<1>6. WindowFollows'
  <2>1. CASE shown = [b \in Controls |-> r[b]]
    <3>1. shown' = [b \in Controls |-> r'[b]]
      BY <1>1, <1>2, <2>1, ControlsStored DEF Regs, Shown
    <3> QED
      BY <3>1 DEF WindowFollows
  <2>2. CASE shown # [b \in Controls |-> r[b]]
    BY <1>2, <2>2 DEF Unit, WindowFollows
  <2> QED
    BY <2>1, <2>2
<1> QED
  BY <1>4, <1>5, <1>6 DEF Unit

LEMMA DelayKeeps == ASSUME Unit, NEW d \in Delays, SetDelay(d) PROVE Unit'
<1>1. /\ UnitTyped /\ pending \in Seq(Entry) /\ delay \in Nat /\ d \in Nat
      /\ delay' = d /\ cut' = (cut \/ (d < delay /\ Waiting(pending) # <<>>))
      /\ UNCHANGED <<r, energy, pending, calls, events, shown, gui, committed, want>>
  BY ControlsStored DEF Unit, UnitTyped, SetDelay
<1>2. UnitTyped'
  BY <1>1 DEF UnitTyped
<1>3. InOrder'
  <2> SUFFICES ASSUME ~cut, ~(d < delay /\ Waiting(pending) # <<>>), NEW i \in DOMAIN pending
               PROVE  pending[i].wait <= d
    BY <1>1 DEF Unit, InOrder, Lined
  <2>1. pending[i].wait <= delay /\ pending[i].wait \in Nat
    <3>1. pending[i] \in Entry
      BY <1>1, LenProperties, ElementOfSeq
    <3> QED
      BY <3>1 DEF Unit, InOrder, Entry
  <2>2. CASE d < delay
    <3>1. pending[i].wait \notin Nat \ {0}
      BY <1>1, <2>2, EntriesFrom DEF Waiting
    <3> QED
      BY <1>1, <2>1, <3>1
  <2> QED
    BY <1>1, <2>1, <2>2
<1> QED
  BY <1>1, <1>2, <1>3 DEF Unit, WindowFollows

LEMMA EnergyKeeps ==
  ASSUME Unit, NEW c \in ENERGY_COUNTERS, NEW e \in EnergyValues, SetEnergy(c, e) PROVE Unit'
<1>1. /\ UnitTyped /\ energy \in Counts /\ e \in Int
      /\ energy' = [energy EXCEPT ![c] = IF e < 0 THEN 0 ELSE e]
      /\ UNCHANGED <<r, pending, delay, calls, events, shown, gui, committed, want, cut>>
  BY SimAssumption DEF Unit, UnitTyped, SetEnergy
<1>2. energy' \in Counts
  BY <1>1 DEF Counts
<1>3. UnitTyped'
  BY <1>1, <1>2 DEF UnitTyped
<1> QED
  BY <1>1, <1>3 DEF Unit, InOrder, Lined, WindowFollows

LEMMA TickKeeps == ASSUME Unit, PollTick PROVE Unit'
<1>1. /\ UnitTyped /\ energy \in Counts /\ r \in Regs /\ gui' \in Phases
      /\ UNCHANGED <<r, pending, delay, calls, events, shown, committed, want, cut>>
  BY DEF Unit, UnitTyped, PollTick, Phases
<1>2. acOut \in Nat /\ r[DC_IN_W] \in Nat /\ r[AC_IN_W] \in Nat
  <2>1. {CTRL_AC, AC_OUT_W, DC_IN_W, AC_IN_W} \subseteq Stored
    BY DEF Stored
  <2>2. \A a \in Stored : r[a] \in Nat
    BY <1>1, Words DEF Regs
  <2> QED
    BY <2>1, <2>2 DEF acOut
<1>3. energy' \in Counts
  <2>1. CASE UNCHANGED energy
    BY <1>1, <2>1
  <2>2. CASE energy' = [energy EXCEPT ![AC_OUT_ENERGY] = @ + acOut,
                          ![PV_CHG_ENERGY] = @ + r[DC_IN_W], ![GRID_CHG_ENERGY] = @ + r[AC_IN_W]]
    BY <1>1, <1>2, <2>2 DEF Counts, ENERGY_COUNTERS, AC_OUT_ENERGY, PV_CHG_ENERGY, GRID_CHG_ENERGY
  <2> QED
    BY <2>1, <2>2 DEF PollTick
<1>4. UnitTyped'
  BY <1>1, <1>3 DEF UnitTyped
<1> QED
  BY <1>1, <1>4 DEF Unit, InOrder, Lined, WindowFollows

\* No event of a commit is lost on its way to the controls.
LEMMA DrainKeeps == ASSUME Unit, PollDrain PROVE Unit'
<1>1. /\ UnitTyped /\ events \in Seq(Events) /\ committed \in BOOLEAN
      /\ UNCHANGED <<r, energy, pending, delay, calls, shown, want, cut>>
  BY DEF Unit, UnitTyped, PollDrain
<1>2. CASE events = <<>>
  BY <1>1, <1>2 DEF PollDrain, Unit, UnitTyped, InOrder, Lined, WindowFollows, Phases
<1>3. CASE events # <<>>
  <2>1. /\ events' = Tail(events) /\ committed' = (committed \/ Head(events) = "commit")
        /\ gui' = gui
    BY <1>3 DEF PollDrain
  <2>2. events' \in Seq(Events) /\ committed' \in BOOLEAN
    BY <1>1, <1>3, <2>1, HeadTailProperties
  <2>3. UnitTyped'
    BY <1>1, <2>1, <2>2 DEF UnitTyped
  <2>4. ASSUME NEW i \in DOMAIN events, events[i] = "commit"
        PROVE  committed' \/ \E j \in DOMAIN events' : events'[j] = "commit"
    <3>1. /\ Len(events) \in Nat /\ DOMAIN events = 1 .. Len(events)
          /\ Len(events') = Len(events) - 1 /\ DOMAIN events' = 1 .. Len(events')
          /\ \A n \in 1 .. Len(events') : events'[n] = events[n + 1]
          /\ Head(events) = events[1]
      BY <1>1, <1>3, <2>1, <2>2, HeadTailProperties, LenProperties
    <3>2. CASE i = 1
      BY <2>1, <2>4, <3>1, <3>2
    <3>3. CASE i # 1
      <4>1. i - 1 \in DOMAIN events' /\ i - 1 + 1 = i
        BY <3>1, <3>3
      <4> QED
        BY <2>4, <3>1, <4>1
    <3> QED
      BY <3>2, <3>3
  <2>5. WindowFollows'
    BY <1>1, <2>1, <2>4 DEF Unit, WindowFollows
  <2> QED
    BY <1>1, <2>3, <2>5 DEF Unit, InOrder, Lined
<1> QED
  BY <1>2, <1>3

LEMMA RefreshKeeps == ASSUME Unit, PollRefresh PROVE Unit'
<1>1. /\ UnitTyped /\ r \in Regs /\ gui' \in Phases /\ committed' \in BOOLEAN
      /\ shown' = IF committed THEN [a \in Controls |-> r[a]] ELSE shown
      /\ UNCHANGED <<r, energy, pending, delay, calls, events, want, cut>>
  BY DEF Unit, UnitTyped, PollRefresh, Phases
<1>2. [a \in Controls |-> r[a]] \in Shown
  BY <1>1, ControlsStored DEF Shown, Regs
<1>3. UnitTyped'
  BY <1>1, <1>2 DEF UnitTyped
<1>4. WindowFollows'
  BY <1>1 DEF Unit, WindowFollows
<1> QED
  BY <1>1, <1>3, <1>4 DEF Unit, InOrder, Lined

LEMMA UnitNext == ASSUME Unit, [Next]_vars PROVE Unit'
<1>1. CASE \/ SwitchSweep \/ Reset \/ ResetGoesOn \/ Sweep \/ ReadFails \/ ReadAnswered
           \/ UNCHANGED vars
  <2>1. UNCHANGED unitElse
    BY <1>1 DEF SwitchSweep, Reset, ResetGoesOn, Sweep, ReadFails, ReadAnswered, vars, simVars,
                unitElse
  <2> QED
    BY <2>1, UnitStays
<1>2. CASE ReadCommits
  <2>1. /\ "ble" \in Threads /\ commit_due("ble")
        /\ UNCHANGED <<energy, delay, events, shown, gui, committed, want, cut>>
    BY <1>2 DEF ReadCommits, Threads
  <2>2. gui' \in Phases
    BY <2>1 DEF Unit, UnitTyped
  <2> QED
    BY <2>1, <2>2, CommitKeeps
<1>3. CASE PanelWrites
  <2>1. PICK w \in Writes : write(w[1], w[2])
    BY <1>3 DEF PanelWrites
  <2>2. w[2] \in Nat /\ (readable(w[1]) => w[1] \in Stored)
    BY StationAssumption
  <2> QED
    BY <2>1, <2>2, WriteKeeps
<1>4. CASE Window
  <2>1. CASE \E a \in DOMAIN SetValues : \E v \in SetValues[a] : v # r[a] /\ Set(a, v)
    BY <2>1, SetKeeps DEF Controls
  <2>2. CASE \E d \in Delays : SetDelay(d)
    BY <2>2, DelayKeeps
  <2>3. CASE \E c \in ENERGY_COUNTERS : \E e \in EnergyValues : e # energy[c] /\ SetEnergy(c, e)
    BY <2>3, EnergyKeeps
  <2>4. CASE PollCommit
    <3>1. /\ "gui" \in Threads /\ commit_due("gui") /\ gui' \in Phases
          /\ UNCHANGED <<energy, delay, events, shown, committed, want, cut>>
      BY <2>4 DEF PollCommit, Threads, Phases
    <3> QED
      BY <3>1, CommitKeeps
  <2>5. CASE PollTick
    BY <2>5, TickKeeps
  <2>6. CASE on_commit("gui") \/ on_commit("ble")
    BY <2>6, CallbackKeeps DEF Threads
  <2>7. CASE PollDrain
    BY <2>7, DrainKeeps
  <2>8. CASE PollRefresh
    BY <2>8, RefreshKeeps
  <2>9. CASE TimePasses
    BY <2>9, TimeKeeps
  <2> QED
    BY <1>4, <2>1, <2>2, <2>3, <2>4, <2>5, <2>6, <2>7, <2>8, <2>9 DEF Window, GuiStep
<1> QED
  BY <1>1, <1>2, <1>3, <1>4 DEF Next

\* The registers, the queue of delayed writes, in the order they were accepted, and
\* the window in step with what has landed: write(), commit_due() and _poll().
LEMMA UnitHolds == Spec => []Unit
<1>1. Init => Unit
  BY UnitInit DEF Init, Unit
<1> QED
  BY <1>1, UnitNext, PTL DEF Spec

\* Writes to a register land in the order they were accepted, whichever thread
\* commits them: what the queue holds is always what the registers still lack.
THEOREM LandInOrder == Spec => []WritesLandInOrder
<1>1. Unit => WritesLandInOrder
  <2> SUFFICES ASSUME Unit, ~cut, NEW a \in Stored, ~Overtakes(a) PROVE r[a] = want[a]
    BY DEF WritesLandInOrder
  <2>1. want = Applied(r, pending) /\ r \in Regs /\ pending \in Seq(Entry)
    BY DEF Unit, InOrder, UnitTyped
  <2> QED
    BY <2>1, AppliedOther DEF Overtakes
<1> QED
  BY <1>1, UnitHolds, PTL

\* The window shows the registers, or a commit is on its way to it, whichever
\* thread commits and however many events the poll takes at a time.
THEOREM ShowsWhatLanded == Spec => []WindowFollows
<1>1. Unit => WindowFollows
  BY DEF Unit
<1> QED
  BY <1>1, UnitHolds, PTL

-----------------------------------------------------------------------------
(* The values a read is answered with.                                     *)

LEMMA WordIs == Word \in Nat \ {0, 1}
BY SimAssumption

LEMMA WordSquared == Word * Word \in Nat /\ Word <= Word * Word /\ Word * Word > 0
<1>1. \A w \in Nat \ {0} : w * w \in Nat /\ w <= w * w /\ w * w > 0
  OBVIOUS
<1> QED
  BY <1>1, Words

LEMMA Halves ==
  /\ \A v \in Int : v % Word \in Nat
  /\ \A v \in Nat : v \div Word \in Nat
<1>1. \A w \in Nat \ {0}, v \in Nat : v \div w \in Nat
  OBVIOUS
<1> QED
  BY <1>1, Words

LEMMA ValueTyped ==
  ASSUME r \in Regs, energy \in Counts, NEW a \in Int PROVE _value(a) \in Nat
<1>1. \A b \in Stored : r[b] \in Nat /\ r[b] < Word
  BY Words DEF Regs
<1>2. {DC_OUT_W, AC_OUT_W, DC_IN_W, AC_IN_W, AC_OUT_DV, CTRL_AC, CTRL_DC, TIME_REMAINING}
        \subseteq Stored
  BY DEF Stored
<1>3. acOut \in 0 .. (Word - 1) /\ dcOut \in 0 .. (Word - 1) /\ r[AC_IN_W] \in 0 .. (Word - 1)
  BY <1>1, <1>2, Words DEF acOut, dcOut
<1>4. ASSUME a \in 152 .. 157 PROVE EnergyWord(a) \in Nat
  <2> DEFINE base == a - ((a - 152) % 2)
             most == Word * Word - 1
             tenths == IF energy[base] < most THEN energy[base] ELSE most
  <2>1. base \in ENERGY_COUNTERS
    BY <1>4 DEF ENERGY_COUNTERS, AC_OUT_ENERGY, PV_CHG_ENERGY, GRID_CHG_ENERGY
  <2>2. tenths \in Nat
    <3>1. energy[base] \in Nat /\ most \in Nat
      BY <2>1, WordSquared DEF Counts
    <3> HIDE DEF base, most
    <3> QED
      BY <3>1
  <2>3. LowWord(tenths) \in Nat /\ HighWord(tenths) \in Nat
    <3> HIDE DEF tenths
    <3> QED
      BY <2>2, Halves DEF LowWord, HighWord
  <2>4. EnergyWord(a) = IF a = base THEN LowWord(tenths) ELSE HighWord(tenths)
    BY DEF EnergyWord
  <2> HIDE DEF base, tenths
  <2> QED
    BY <2>3, <2>4
<1>5. ASSUME NEW low PROVE SignedWord(acOut - r[AC_IN_W], low) \in Nat
  <2> DEFINE v == acOut - r[AC_IN_W]
             u == IF v < 0 THEN v + Word * Word ELSE v
  <2>1. v \in Int /\ -Word < v
    BY <1>3, WordIs
  <2>2. u \in Nat
    <3> HIDE DEF v
    <3> QED
      BY <2>1, WordIs, WordSquared
  <2> HIDE DEF v, u
  <2>3. LowWord(u) \in Nat /\ HighWord(u) \in Nat
    BY <2>2, Halves DEF LowWord, HighWord
  <2>4. SignedWord(v, low) = IF low THEN LowWord(u) ELSE HighWord(u)
    BY DEF SignedWord, u
  <2> QED
    BY <2>3, <2>4 DEF v
<1>6. r[AC_OUT_DV] \in Nat /\ r[TIME_REMAINING] \in Nat
  BY <1>1, <1>2
<1>7. /\ r[AC_OUT_DV] \div 10 \in Nat /\ (r[AC_IN_W] * 100) \div 2430 \in Nat
      /\ (acOut * 100) \div (IF r[AC_OUT_DV] = 0 THEN 1 ELSE r[AC_OUT_DV]) \in Nat
  <2>1. \A v \in Nat, d \in Nat \ {0} : v \div d \in Nat
    OBVIOUS
  <2>2. r[AC_IN_W] * 100 \in Nat /\ acOut * 100 \in Nat
    BY <1>3, Words
  <2> QED
    BY <1>6, <2>1, <2>2
<1>8. \A b \in BOOLEAN, n \in Nat : Flag(b, n) \in Nat
  BY DEF Flag
<1>9. \A b, n : n \in Nat => Flag(b, n) \in Nat
  BY DEF Flag
<1>10. CASE a \in 152 .. 157
  BY <1>4, <1>10 DEF _value
<1>11. CASE a \in {140, 1400, 142, 1420, 161, 103, 105, 124}
  BY <1>3, <1>6, <1>9, <1>11, Words DEF _value
<1>12. CASE a \in {148, 149}
  <2>1. _value(a) = SignedWord(acOut - r[AC_IN_W], a = 148)
    BY <1>12 DEF _value
  <2> QED
    BY <1>5, <2>1
<1>13. CASE a \in {169, 1511, 1432, 1314, 1315}
  BY <1>6, <1>7, <1>9, <1>13 DEF _value
<1>14. CASE a \notin (152 .. 157) \cup {140, 1400, 142, 1420, 161, 103, 105, 124, 148, 149, 169,
                                       1511, 1432, 1314, 1315}
  <2>1. _value(a) = IF a \in Stored THEN r[a] ELSE 0
    BY <1>14 DEF _value
  <2> QED
    BY <1>1, <2>1
<1> QED
  BY <1>10, <1>11, <1>12, <1>13, <1>14

\* A reply holds the registers asked for, or nothing.
Digits == 0 .. (Word - 1)
Replies == Seq(Digits)

LEMMA ReplyTyped ==
  ASSUME r \in Regs, energy \in Counts, NEW a \in Int, NEW qty \in Nat \ {0}
  PROVE  /\ Reply(ReadOut(a, qty)) \in Replies
         /\ Reply(ReadOut(a, qty)) # <<>> => Len(Reply(ReadOut(a, qty))) = qty
<1> DEFINE out == ReadOut(a, qty)
<1>1. out = <<>> \/ out = [i \in 1 .. qty |-> _value(a + i - 1)]
  BY DEF ReadOut
<1>2. <<>> \in Replies
  BY EmptySeq DEF Replies
<1>3. CASE out = <<>>
  BY <1>2, <1>3 DEF Reply
<1>4. CASE out = [i \in 1 .. qty |-> _value(a + i - 1)]
  <2>1. \A i \in 1 .. qty : a + i - 1 \in Int
    OBVIOUS
  <2>2. DOMAIN out = 1 .. qty /\ \A i \in 1 .. qty : out[i] \in Nat
    BY <1>4, <2>1, ValueTyped
  <2> HIDE DEF out
  <2>3. CASE \A i \in DOMAIN out : out[i] < Word
    <3>1. \A i \in 1 .. qty : out[i] \in Digits
      BY <2>2, <2>3, WordIs DEF Digits
    <3>2. out = [i \in 1 .. qty |-> out[i]] /\ qty \in Nat
      BY <1>4
    <3>3. out \in Replies /\ Len(out) = qty
      BY <3>1, <3>2 DEF Replies
    <3>4. Reply(out) = out
      BY <2>3 DEF Reply
    <3> QED
      BY <3>3, <3>4 DEF out
  <2>4. CASE ~ \A i \in DOMAIN out : out[i] < Word
    <3>1. Reply(out) = <<>>
      BY <2>4 DEF Reply
    <3> QED
      BY <1>2, <3>1 DEF out
  <2> QED
    BY <2>3, <2>4
<1> QED
  BY <1>1, <1>3, <1>4

-----------------------------------------------------------------------------
(* Where the sweep is.                                                     *)

Pairs == Int \X Int
InRange(p) ==
  /\ p \in Pairs /\ p[1] \in DOMAIN DiagRanges
  /\ DiagRanges[p[1]][1] <= p[2] /\ p[2] < DiagRanges[p[1]][2]

LEMMA RangesAre ==
  /\ DiagRanges \in Seq(Pairs) /\ Len(DiagRanges) \in Nat \ {0}
  /\ DOMAIN DiagRanges = 1 .. Len(DiagRanges)
  /\ \A k \in DOMAIN DiagRanges : /\ DiagRanges[k][1] \in Int /\ DiagRanges[k][2] \in Int
                                  /\ DiagRanges[k][1] < DiagRanges[k][2]
  /\ \A j, k \in DOMAIN DiagRanges : j < k => DiagRanges[j][2] <= DiagRanges[k][1]
<1>1. DiagRanges \in Seq(Pairs) /\ DiagRanges # <<>>
  BY DiagAssumption DEF Pairs
<1>2. Len(DiagRanges) \in Nat \ {0} /\ DOMAIN DiagRanges = 1 .. Len(DiagRanges)
  BY <1>1, EmptySeq, LenProperties
<1>3. ASSUME NEW k \in DOMAIN DiagRanges PROVE DiagRanges[k][1] \in Int /\ DiagRanges[k][2] \in Int
  <2>1. DiagRanges[k] \in Pairs
    BY <1>1, <1>2, ElementOfSeq
  <2> QED
    BY <2>1 DEF Pairs
<1> QED
  BY <1>1, <1>2, <1>3, DiagAssumption

LEMMA BlockIs == Block \in Nat \ {0} /\ NChanges \in Nat \ {0} /\ Junk \in Int
BY DiagAssumption

LEMMA AddressesAre ==
  /\ \A a \in Addresses : a \in Int
  /\ \A a \in Addresses : \E k \in DOMAIN DiagRanges : DiagRanges[k][1] <= a /\ a < DiagRanges[k][2]
  /\ \A k \in DOMAIN DiagRanges, a \in Int :
       DiagRanges[k][1] <= a /\ a < DiagRanges[k][2] => a \in Addresses
<1>1. \A a : a \in Addresses <=> \E k \in DOMAIN DiagRanges :
                                   a \in DiagRanges[k][1] .. (DiagRanges[k][2] - 1)
  BY DEF Addresses
<1> HIDE DEF Addresses
<1>2. \A k \in DOMAIN DiagRanges : \A a : a \in DiagRanges[k][1] .. (DiagRanges[k][2] - 1) <=>
        a \in Int /\ DiagRanges[k][1] <= a /\ a < DiagRanges[k][2]
  BY RangesAre
<1> QED
  BY <1>1, <1>2

FirstBlock == <<1, DiagRanges[1][1]>>

LEMMA FirstInRange ==
  InRange(FirstBlock) /\ FirstBlock[2] \in Int /\ \A a \in Addresses : FirstBlock[2] <= a
<1>1. 1 \in DOMAIN DiagRanges /\ FirstBlock[1] = 1 /\ FirstBlock[2] = DiagRanges[1][1]
  BY RangesAre DEF FirstBlock
<1>2. InRange(FirstBlock)
  BY <1>1, RangesAre DEF InRange, FirstBlock, Pairs
<1>3. ASSUME NEW a \in Addresses PROVE DiagRanges[1][1] <= a
  <2>1. PICK k \in DOMAIN DiagRanges : DiagRanges[k][1] <= a
    BY AddressesAre
  <2>2. DiagRanges[1][1] <= DiagRanges[k][1]
    <3>1. k = 1 \/ 1 < k
      BY RangesAre
    <3>2. CASE 1 < k
      <4>1. DiagRanges[1][2] <= DiagRanges[k][1]
        BY <1>1, <3>2, RangesAre
      <4> QED
        BY <1>1, <4>1, RangesAre
    <3>3. CASE k = 1
      BY <1>1, <3>3, RangesAre
    <3> QED
      BY <3>1, <3>2, <3>3
  <2> QED
    BY <1>1, <2>1, <2>2, RangesAre, AddressesAre
<1> QED
  BY <1>1, <1>2, <1>3, RangesAre

LEMMA QuantityIs ==
  ASSUME InRange(at)
  PROVE  /\ Quantity \in Nat \ {0} /\ at[2] \in Int /\ at[1] \in Int
         /\ \A i \in 1 .. Quantity : at[2] + i - 1 \in Addresses
<1>1. /\ at[1] \in DOMAIN DiagRanges /\ at[2] \in Int /\ at[1] \in Int
      /\ DiagRanges[at[1]][1] <= at[2] /\ at[2] < DiagRanges[at[1]][2]
      /\ DiagRanges[at[1]][1] \in Int /\ DiagRanges[at[1]][2] \in Int
  BY RangesAre DEF InRange, Pairs
<1> DEFINE left == DiagRanges[at[1]][2] - at[2]
<1>2. left \in Nat \ {0} /\ Quantity = IF left < Block THEN left ELSE Block
  BY <1>1 DEF Quantity
<1>3. Quantity \in Nat \ {0} /\ Quantity <= left
  <2> HIDE DEF left
  <2> QED
    BY <1>2, BlockIs
<1>4. ASSUME NEW i \in 1 .. Quantity PROVE at[2] + i - 1 \in Addresses
  <2>1. /\ at[2] + i - 1 \in Int /\ DiagRanges[at[1]][1] <= at[2] + i - 1
        /\ at[2] + i - 1 < DiagRanges[at[1]][2]
    BY <1>1, <1>3
  <2> QED
    BY <1>1, <2>1, AddressesAre
<1> QED
  BY <1>1, <1>3, <1>4

\* The sweep goes through the registers in the order of their addresses, and
\* leaves none out.
LEMMA NextBlockIs ==
  ASSUME InRange(at)
  PROVE  /\ NextBlock # <<>> => /\ InRange(NextBlock) /\ NextBlock[2] \in Int
                                /\ at[2] + Quantity <= NextBlock[2]
                                /\ \A a \in Addresses : a < NextBlock[2] => a < at[2] + Quantity
         /\ NextBlock = <<>> => \A a \in Addresses : a < at[2] + Quantity
<1> DEFINE k == at[1]
           b == at[2]
           end == DiagRanges[k][2]
<1>1. /\ k \in DOMAIN DiagRanges /\ b \in Int /\ k \in Int /\ k <= Len(DiagRanges) /\ 1 <= k
      /\ DiagRanges[k][1] <= b /\ b < end
      /\ DiagRanges[k][1] \in Int /\ end \in Int
  BY RangesAre DEF InRange, Pairs
<1>2. Quantity = IF end - b < Block THEN end - b ELSE Block
  BY DEF Quantity
<1>3. CASE b + Block < end
  <2>1. Quantity = Block
    BY <1>1, <1>2, <1>3, BlockIs
  <2>2. NextBlock = <<k, b + Block>>
    BY <1>3 DEF NextBlock
  <2>3. NextBlock[1] = k /\ NextBlock[2] = b + Block /\ NextBlock \in Pairs
    BY <1>1, <2>2, BlockIs DEF Pairs
  <2>4. InRange(NextBlock)
    BY <1>1, <1>3, <2>3, BlockIs DEF InRange
  <2>5. NextBlock # <<>>
    BY <2>2
  <2> HIDE DEF b, k
  <2> QED
    BY <1>1, <2>1, <2>3, <2>4, <2>5, BlockIs DEF b
<1>4. CASE ~(b + Block < end)
  <2>1. b + Quantity = end
    BY <1>1, <1>2, <1>4, BlockIs
  <2>2. CASE k < Len(DiagRanges)
    <3> DEFINE c == DiagRanges[k + 1][1]
    <3>1. NextBlock = <<k + 1, c>>
      BY <1>4, <2>2 DEF NextBlock
    <3>2. k + 1 \in DOMAIN DiagRanges /\ k < k + 1
      BY <1>1, <2>2, RangesAre
    <3>3. c \in Int /\ end <= c /\ c < DiagRanges[k + 1][2]
      BY <1>1, <3>2, RangesAre
    <3>4. NextBlock[1] = k + 1 /\ NextBlock[2] = c /\ NextBlock \in Pairs
      BY <1>1, <3>1, <3>3 DEF Pairs
    <3>5. InRange(NextBlock)
      BY <3>2, <3>3, <3>4 DEF InRange
    <3>6. ASSUME NEW a \in Addresses, a < c PROVE a < end
      <4>1. PICK j \in DOMAIN DiagRanges : DiagRanges[j][1] <= a /\ a < DiagRanges[j][2]
        BY AddressesAre
      <4>2. ~(k + 1 < j) /\ j # k + 1
        <5>1. CASE k + 1 < j
          <6>1. DiagRanges[k + 1][2] <= DiagRanges[j][1]
            BY <3>2, <5>1, RangesAre
          <6> QED
            BY <3>2, <3>3, <3>6, <4>1, <6>1, RangesAre, AddressesAre
        <5>2. CASE j = k + 1
          BY <3>3, <3>6, <4>1, <5>2, AddressesAre
        <5> QED
          BY <5>1, <5>2
      <4>3. j <= k /\ j \in Int
        BY <1>1, <4>2, RangesAre
      <4>4. DiagRanges[j][2] <= end
        <5>1. CASE j = k
          BY <1>1, <5>1
        <5>2. CASE j < k
          <6>1. DiagRanges[j][2] <= DiagRanges[k][1]
            BY <1>1, <5>2, RangesAre
          <6> QED
            BY <1>1, <6>1, RangesAre
        <5> QED
          BY <1>1, <4>3, <5>1, <5>2
      <4> QED
        BY <1>1, <4>1, <4>4, RangesAre, AddressesAre
    <3>7. NextBlock # <<>>
      BY <3>1
    <3> HIDE DEF b, k, c, end
    <3> QED
      BY <2>1, <3>3, <3>4, <3>5, <3>6, <3>7 DEF b
  <2>3. CASE ~(k < Len(DiagRanges))
    <3>1. NextBlock = <<>> /\ k = Len(DiagRanges)
      BY <1>1, <1>4, <2>3, RangesAre DEF NextBlock
    <3>2. ASSUME NEW a \in Addresses PROVE a < end
      <4>1. PICK j \in DOMAIN DiagRanges : DiagRanges[j][1] <= a /\ a < DiagRanges[j][2]
        BY AddressesAre
      <4>2. j = k \/ j < k
        BY <3>1, RangesAre
      <4>3. CASE j = k
        BY <4>1, <4>3
      <4>4. CASE j < k
        <5>1. DiagRanges[j][2] <= DiagRanges[k][1]
          BY <1>1, <4>4, RangesAre
        <5> QED
          BY <1>1, <4>1, <5>1, RangesAre, AddressesAre
      <4> QED
        BY <4>2, <4>3, <4>4
    <3> QED
      BY <2>1, <3>1, <3>2
  <2> QED
    BY <2>2, <2>3
<1> QED
  BY <1>3, <1>4

-----------------------------------------------------------------------------
(* The types of the sweep.                                                 *)

Slots == 0 .. (NChanges - 1)
Stages == {"idle", "read", "diff", "head", "count", "store"}
LoopStages == {"idle", "snap", "head", "count"}
Tears == {"no", "sweep", "note"}
Known == {Junk} \cup Digits
Seen == {Unread} \cup Digits
Snaps == [Addresses -> Known]
Firsts == [Addresses -> Seen]
Rings == [Slots -> Changes]

DiagTyped ==
  /\ g_diagOn \in BOOLEAN /\ haveSnap \in BOOLEAN /\ baseline \in BOOLEAN /\ failed \in BOOLEAN
  /\ sweep \in Stages /\ loop \in LoopStages /\ torn \in Tears
  /\ head \in Slots /\ count \in 0 .. NChanges /\ h \in 0 .. NChanges
  /\ sweep = "head" => h \in Slots
  /\ changes \in Rings /\ noted \in Seq(Changes)
  /\ snap \in Snaps /\ first \in Firsts /\ buf \in Replies

Placed ==
  /\ InRange(at)
  /\ sweep \in {"idle", "read"} => item = 1
  /\ sweep \notin {"idle", "read"} => Len(buf) = Quantity /\ item \in 1 .. Len(buf)

Swept == DiagTyped /\ Placed

LEMMA DigitsAre ==
  /\ Known \subseteq Int /\ Digits \subseteq Nat /\ Unread \notin Digits /\ Digits \subseteq Known
  /\ Digits \subseteq Seen
BY WordIs, BlockIs DEF Known, Digits, Unread, Seen

LEMMA SlotsAre ==
  /\ 0 \in Slots /\ 0 \in 0 .. NChanges /\ Slots \subseteq 0 .. NChanges
  /\ \A i \in Slots : NextSlot(i) = IF i = NChanges - 1 THEN 0 ELSE i + 1
  /\ \A i \in Slots : NextSlot(i) \in Slots
<1>1. \A c \in 0 .. NChanges : c % NChanges = IF c < NChanges THEN c ELSE 0
  <2> SUFFICES ASSUME NEW c \in 0 .. NChanges
               PROVE  c % NChanges = IF c < NChanges THEN c ELSE 0
    OBVIOUS
  <2>1. NChanges % NChanges = 0
    BY BlockIs
  <2>2. c < NChanges => c % NChanges = c
    BY BlockIs
  <2> QED
    BY <2>1, <2>2, BlockIs
<1>2. ASSUME NEW i \in Slots
      PROVE  NextSlot(i) = (IF i = NChanges - 1 THEN 0 ELSE i + 1) /\ NextSlot(i) \in Slots
  <2>1. i + 1 \in 0 .. NChanges
    BY BlockIs DEF Slots
  <2>2. (i + 1) % NChanges = IF i + 1 < NChanges THEN i + 1 ELSE 0
    BY <1>1, <2>1
  <2> QED
    BY <2>2, BlockIs DEF Slots, NextSlot
<1> QED
  BY <1>2, BlockIs DEF Slots

\* The item the sweep looks at.
LEMMA HereIs ==
  ASSUME Swept
  PROVE  /\ Addr \in Addresses /\ Addr \in Int /\ snap[Addr] \in Known /\ first[Addr] \in Seen
         /\ at[2] \in Int /\ item \in Int /\ Addr = at[2] + item - 1 /\ Quantity \in Nat \ {0}
         /\ at[2] <= Addr
         /\ sweep \notin {"idle", "read"} =>
              buf[item] \in Digits /\ Change \in Changes /\ Addr < at[2] + Quantity
<1>1. /\ Quantity \in Nat \ {0} /\ at[2] \in Int
      /\ \A i \in 1 .. Quantity : at[2] + i - 1 \in Addresses
  BY QuantityIs DEF Swept, Placed
<1>2. item \in 1 .. Quantity
  BY <1>1 DEF Swept, Placed
<1>3. Addr = at[2] + item - 1 /\ item \in Int
  BY <1>2 DEF Addr
<1>4. Addr \in Addresses /\ Addr \in Int /\ at[2] <= Addr /\ Addr < at[2] + Quantity
  BY <1>1, <1>2, <1>3
<1>5. snap[Addr] \in Known /\ first[Addr] \in Seen
  BY <1>4 DEF Swept, DiagTyped, Snaps, Firsts
<1>6. ASSUME sweep \notin {"idle", "read"} PROVE buf[item] \in Digits /\ Change \in Changes
  <2>1. item \in 1 .. Len(buf) /\ buf \in Seq(Digits)
    BY <1>6 DEF Swept, Placed, DiagTyped, Replies
  <2>2. buf[item] \in Digits
    BY <2>1, ElementOfSeq
  <2>3. buf[item] \in Int /\ snap[Addr] \in Int
    BY <1>5, <2>2, DigitsAre
  <2> QED
    BY <1>4, <2>2, <2>3 DEF Change, Changes
<1> QED
  BY <1>1, <1>3, <1>4, <1>5, <1>6

LEMMA DiagInitTyped == DiagInit => Swept
<1> SUFFICES ASSUME DiagInit PROVE Swept
  OBVIOUS
<1>1. NoChange \in Changes
  BY DEF NoChange, Changes
<1>2. changes \in Rings
  BY <1>1 DEF DiagInit, Rings, Slots
<1>3. snap \in Snaps /\ first \in Firsts
  BY DEF DiagInit, Snaps, Firsts, Known, Seen
<1>4. noted \in Seq(Changes) /\ buf \in Replies
  BY EmptySeq DEF DiagInit, Replies
<1>5. head \in Slots /\ count \in 0 .. NChanges /\ h \in 0 .. NChanges
  BY SlotsAre DEF DiagInit
<1>6. InRange(at) /\ item = 1 /\ sweep = "idle"
  BY FirstInRange DEF DiagInit, FirstBlock
<1>7. g_diagOn \in BOOLEAN /\ haveSnap \in BOOLEAN /\ baseline \in BOOLEAN /\ failed \in BOOLEAN
      /\ loop \in LoopStages /\ torn \in Tears
  BY DEF DiagInit, LoopStages, Tears
<1> QED
  BY <1>2, <1>3, <1>4, <1>5, <1>6, <1>7 DEF Swept, DiagTyped, Placed, Stages

\* What a step of the sweep is, the answered read with the values of its reply.
SweepMoves ==
  \/ \E words \in Replies : ReadBlock(words) /\ (words # <<>> => Len(words) = Quantity)
  \/ StartSweep \/ Same \/ NoteEntry \/ NoteHead \/ NoteCount \/ NoteStored
LoopMoves ==
  \/ bluetti_diag_enable(~g_diagOn) \/ TapResets \/ ResetSnap \/ ResetHead \/ ResetCount

LEMMA DiagSteps ==
  ASSUME Unit, Swept, [Next]_vars
  PROVE  SweepMoves \/ LoopMoves \/ UNCHANGED diagVars
<1>1. CASE SwitchSweep \/ Reset \/ ResetGoesOn
  BY <1>1 DEF SwitchSweep, Reset, ResetGoesOn, LoopMoves
<1>2. CASE Sweep
  BY <1>2 DEF Sweep, DiagStep, SweepMoves
<1>3. CASE ReadFails
  BY <1>3, EmptySeq DEF ReadFails, SweepMoves, Replies
<1>4. CASE ReadAnswered
  <2> DEFINE words == Reply(ReadOut(at[2], Quantity))
  <2>1. words \in Replies /\ (words # <<>> => Len(words) = Quantity)
    BY ReplyTyped, QuantityIs DEF Unit, UnitTyped, Swept, Placed
  <2>2. ReadBlock(words)
    BY <1>4 DEF ReadAnswered
  <2> HIDE DEF words
  <2> QED
    BY <2>1, <2>2 DEF SweepMoves
<1>5. CASE ReadCommits \/ PanelWrites \/ Window \/ UNCHANGED vars
  BY <1>5 DEF ReadCommits, PanelWrites, Window, vars
<1> QED
  BY <1>1, <1>2, <1>3, <1>4, <1>5 DEF Next

LEMMA OnwardIs ==
  ASSUME Swept, Onward
  PROVE  /\ buf' \in Replies /\ item' = 1 /\ InRange(at') /\ Addr' = at'[2]
         /\ \/ /\ sweep' = "read" /\ haveSnap' = haveSnap /\ at[2] + Quantity <= Addr'
               /\ \A a \in Addresses : a < Addr' => a < at[2] + Quantity
            \/ /\ sweep' = "idle" /\ haveSnap' = TRUE
               /\ \A a \in Addresses : a < at[2] + Quantity
<1>1. InRange(at)
  BY DEF Swept, Placed
<1>2. buf' \in Replies /\ item' = 1
  BY EmptySeq DEF Onward, Replies
<1>3. CASE NextBlock # <<>>
  <2>1. at' = NextBlock /\ sweep' = "read" /\ haveSnap' = haveSnap
    BY <1>3 DEF Onward
  <2>2. InRange(at') /\ at'[2] \in Int /\ at[2] + Quantity <= at'[2]
        /\ \A a \in Addresses : a < at'[2] => a < at[2] + Quantity
    BY <1>1, <1>3, <2>1, NextBlockIs
  <2>3. Addr' = at'[2]
    BY <1>2, <2>2 DEF Addr
  <2> QED
    BY <1>2, <2>1, <2>2, <2>3
<1>4. CASE NextBlock = <<>>
  <2>1. at' = FirstBlock /\ sweep' = "idle" /\ haveSnap' = TRUE
    BY <1>4 DEF Onward, FirstBlock
  <2>2. \A a \in Addresses : a < at[2] + Quantity
    BY <1>1, <1>4, NextBlockIs
  <2>3. InRange(at') /\ at'[2] \in Int
    BY <2>1, FirstInRange
  <2>4. Addr' = at'[2]
    BY <1>2, <2>3 DEF Addr
  <2> QED
    BY <1>2, <2>1, <2>2, <2>3, <2>4
<1> QED
  BY <1>3, <1>4

\* The value looked at is the baseline, and the register after it the next.
LEMMA KeepIs ==
  ASSUME Swept, sweep \notin {"idle", "read"}, Keep
  PROVE  /\ snap' \in Snaps /\ first' \in Firsts /\ buf' \in Replies /\ haveSnap' \in BOOLEAN
         /\ snap' = [snap EXCEPT ![Addr] = buf[item]]
         /\ first' = IF first[Addr] = Unread THEN [first EXCEPT ![Addr] = buf[item]] ELSE first
         /\ Placed' /\ sweep' \in {"idle", "read", "diff"}
         /\ \/ /\ sweep' \in {"read", "diff"} /\ haveSnap' = haveSnap /\ Addr' \in Int
               /\ Addr < Addr' /\ \A a \in Addresses : a < Addr' => a <= Addr
            \/ /\ sweep' = "idle" /\ haveSnap' = TRUE /\ \A a \in Addresses : a <= Addr
<1>1. /\ Addr \in Addresses /\ Addr \in Int /\ at[2] \in Int /\ item \in Int
      /\ Addr = at[2] + item - 1 /\ Quantity \in Nat \ {0} /\ buf[item] \in Digits
      /\ Addr < at[2] + Quantity
  BY HereIs
<1>2. /\ snap \in Snaps /\ first \in Firsts /\ buf \in Replies /\ haveSnap \in BOOLEAN
      /\ InRange(at) /\ Len(buf) = Quantity /\ item \in 1 .. Len(buf)
  BY DEF Swept, DiagTyped, Placed
<1>3. /\ snap' = [snap EXCEPT ![Addr] = buf[item]]
      /\ first' = IF first[Addr] = Unread THEN [first EXCEPT ![Addr] = buf[item]] ELSE first
  BY DEF Keep, StoredSnap
<1>4. snap' \in Snaps /\ first' \in Firsts
  <2>1. buf[item] \in Known /\ buf[item] \in Seen
    BY <1>1, DigitsAre
  <2>2. [snap EXCEPT ![Addr] = buf[item]] \in Snaps
    BY <1>1, <1>2, <2>1 DEF Snaps
  <2>3. [first EXCEPT ![Addr] = buf[item]] \in Firsts
    BY <1>1, <1>2, <2>1 DEF Firsts
  <2> QED
    BY <1>2, <1>3, <2>2, <2>3
<1>5. CASE item < Len(buf)
  <2>1. item' = item + 1 /\ sweep' = "diff" /\ UNCHANGED <<at, buf, haveSnap>>
    BY <1>5 DEF Keep
  <2>2. Placed'
    BY <1>1, <1>2, <1>5, <2>1 DEF Placed, Quantity
  <2>3. Addr' = Addr + 1
    BY <1>1, <2>1 DEF Addr
  <2>4. \A a \in Addresses : a < Addr + 1 => a <= Addr
    BY <1>1, AddressesAre
  <2> QED
    BY <1>1, <1>2, <1>3, <1>4, <2>1, <2>2, <2>3, <2>4
<1>6. CASE ~(item < Len(buf))
  <2>1. Onward
    BY <1>6 DEF Keep
  <2>2. item = Quantity
    BY <1>1, <1>2, <1>6
  <2>3. at[2] + Quantity = Addr + 1
    BY <1>1, <2>2
  <2>4. \A a \in Addresses : a < Addr + 1 => a <= Addr
    BY <1>1, AddressesAre
  <2>5. /\ buf' \in Replies /\ item' = 1 /\ InRange(at') /\ Addr' = at'[2]
        /\ \/ /\ sweep' = "read" /\ haveSnap' = haveSnap /\ Addr + 1 <= Addr'
              /\ \A a \in Addresses : a < Addr' => a < Addr + 1
           \/ /\ sweep' = "idle" /\ haveSnap' = TRUE
              /\ \A a \in Addresses : a < Addr + 1
    BY <2>1, <2>3, OnwardIs
  <2>6. Placed' /\ haveSnap' \in BOOLEAN
    BY <1>2, <2>5 DEF Placed
  <2>7. Addr' \in Int
    BY <2>5 DEF InRange, Pairs
  <2> QED
    BY <1>1, <1>3, <1>4, <2>4, <2>5, <2>6, <2>7
<1> QED
  BY <1>2, <1>5, <1>6

LEMMA SweepTyped == ASSUME Swept, SweepMoves PROVE Swept'
<1>1. /\ DiagTyped /\ Placed
  BY DEF Swept
<1>2. CASE \E words \in Replies : ReadBlock(words) /\ (words # <<>> => Len(words) = Quantity)
  <2>1. PICK words \in Replies : ReadBlock(words) /\ (words # <<>> => Len(words) = Quantity)
    BY <1>2
  <2>2. /\ UNCHANGED <<g_diagOn, loop, snap, changes, head, count, baseline, h, noted, first, torn>>
        /\ failed' \in BOOLEAN
    BY <1>1, <2>1 DEF ReadBlock, taskElse, DiagTyped
  <2>3. CASE words = <<>>
    <3>1. Onward
      BY <2>1, <2>3 DEF ReadBlock
    <3>2. /\ buf' \in Replies /\ item' = 1 /\ InRange(at') /\ sweep' \in {"idle", "read"}
          /\ haveSnap' \in BOOLEAN
      BY <1>1, <3>1, OnwardIs DEF DiagTyped
    <3>3. Placed'
      BY <3>2 DEF Placed
    <3>4. sweep' \in Stages /\ (sweep' = "head" => h' \in Slots)
      BY <3>2 DEF Stages
    <3>5. DiagTyped'
      BY <1>1, <2>2, <3>2, <3>4 DEF DiagTyped
    <3> QED
      BY <3>3, <3>5 DEF Swept
  <2>4. CASE words # <<>>
    <3>1. buf' = words /\ item' = 1 /\ sweep' = "diff" /\ UNCHANGED <<at, haveSnap>>
      BY <2>1, <2>4 DEF ReadBlock
    <3>2. Quantity \in Nat \ {0}
      BY HereIs
    <3>3. Placed'
      BY <1>1, <2>1, <2>4, <3>1, <3>2 DEF Placed, Quantity
    <3>4. sweep' \in Stages /\ (sweep' = "head" => h' \in Slots)
      BY <3>1 DEF Stages
    <3>5. DiagTyped'
      BY <1>1, <2>2, <3>1, <3>4 DEF DiagTyped
    <3> QED
      BY <3>3, <3>5 DEF Swept
  <2> QED
    BY <2>3, <2>4
<1>3. CASE StartSweep
  <2>1. InRange(at') /\ baseline' \in BOOLEAN /\ item' = 1 /\ sweep' = "read"
    BY <1>1, <1>3, FirstInRange DEF StartSweep, FirstBlock, Placed
  <2>2. Placed'
    BY <2>1 DEF Placed
  <2>3. DiagTyped'
    BY <1>1, <1>3, <2>1 DEF StartSweep, taskElse, DiagTyped, Stages
  <2> QED
    BY <2>2, <2>3 DEF Swept
<1>4. CASE Same
  <2>1. /\ snap' \in Snaps /\ first' \in Firsts /\ buf' \in Replies /\ haveSnap' \in BOOLEAN
        /\ Placed' /\ sweep' \in {"idle", "read", "diff"}
    BY <1>4, KeepIs DEF Same
  <2>2. /\ UNCHANGED <<g_diagOn, loop, changes, head, count, baseline, h, noted, torn, failed>>
        /\ sweep' \in Stages /\ sweep' # "head"
    BY <1>4, <2>1 DEF Same, taskElse, Stages
  <2> QED
    BY <1>1, <2>1, <2>2 DEF Swept, DiagTyped
<1>5. CASE NoteEntry
  <2>1. Change \in Changes
    BY <1>5, HereIs DEF NoteEntry
  <2>2. changes' \in Rings /\ noted' \in Seq(Changes)
    BY <1>1, <1>5, <2>1, AppendProperties DEF NoteEntry, DiagTyped, Rings
  <2>3. sweep' \in Stages /\ h' = head /\ h' \in Slots /\ h' \in 0 .. NChanges /\ torn' \in Tears
    BY <1>1, <1>5, SlotsAre DEF NoteEntry, DiagTyped, Stages, Tears
  <2>4. UNCHANGED <<g_diagOn, loop, haveSnap, snap, head, count, baseline, buf, first, failed>>
    BY <1>5 DEF NoteEntry, taskElse
  <2>5. DiagTyped'
    BY <1>1, <2>2, <2>3, <2>4 DEF DiagTyped
  <2>6. Placed'
    BY <1>1, <1>5 DEF NoteEntry, Placed, Quantity
  <2> QED
    BY <2>5, <2>6 DEF Swept
<1>6. CASE NoteHead
  <2>1. head' \in Slots /\ sweep' = "count"
    BY <1>1, <1>6, SlotsAre DEF NoteHead, DiagTyped
  <2>2. UNCHANGED <<g_diagOn, loop, haveSnap, snap, changes, count, baseline, buf, h, noted,
                    first, torn, failed>>
    BY <1>6 DEF NoteHead, taskElse
  <2>3. DiagTyped'
    BY <1>1, <2>1, <2>2 DEF DiagTyped, Stages
  <2>4. Placed'
    BY <1>1, <1>6 DEF NoteHead, Placed, Quantity
  <2> QED
    BY <2>3, <2>4 DEF Swept
<1>7. CASE NoteCount
  <2>1. h' \in 0 .. NChanges /\ sweep' = "store"
    BY <1>1, <1>7 DEF NoteCount, DiagTyped
  <2>2. UNCHANGED <<g_diagOn, loop, haveSnap, snap, changes, head, count, baseline, buf, noted,
                    first, torn, failed>>
    BY <1>7 DEF NoteCount, taskElse
  <2>3. DiagTyped'
    BY <1>1, <2>1, <2>2 DEF DiagTyped, Stages
  <2>4. Placed'
    BY <1>1, <1>7 DEF NoteCount, Placed, Quantity
  <2> QED
    BY <2>3, <2>4 DEF Swept
<1>8. CASE NoteStored
  <2>1. /\ snap' \in Snaps /\ first' \in Firsts /\ buf' \in Replies /\ haveSnap' \in BOOLEAN
        /\ Placed' /\ sweep' \in {"idle", "read", "diff"}
    BY <1>8, KeepIs DEF NoteStored
  <2>2. /\ UNCHANGED <<g_diagOn, loop, changes, head, baseline, h, noted, torn, failed>>
        /\ sweep' \in Stages /\ sweep' # "head"
    BY <1>8, <2>1 DEF NoteStored, taskElse, Stages
  <2>3. count' \in 0 .. NChanges
    <3>1. h \in 0 .. NChanges /\ count \in 0 .. NChanges
      BY <1>1 DEF DiagTyped
    <3> QED
      BY <1>8, <3>1, BlockIs DEF NoteStored
  <2> QED
    BY <1>1, <2>1, <2>2, <2>3 DEF Swept, DiagTyped
<1> QED
  BY <1>2, <1>3, <1>4, <1>5, <1>6, <1>7, <1>8 DEF SweepMoves

LEMMA LoopTyped == ASSUME Swept, LoopMoves PROVE Swept'
<1>1. DiagTyped /\ Placed
  BY DEF Swept
<1>2. Placed'
  BY <1>1 DEF LoopMoves, bluetti_diag_enable, TapResets, ResetSnap, ResetHead, ResetCount, mainElse,
         Placed, Quantity
<1>3. CASE bluetti_diag_enable(~g_diagOn)
  BY <1>1, <1>2, <1>3 DEF bluetti_diag_enable, mainElse, Swept, DiagTyped, LoopStages
<1>4. CASE TapResets
  BY <1>1, <1>2, <1>4 DEF TapResets, mainElse, Swept, DiagTyped, LoopStages
<1>5. CASE ResetSnap
  <2>1. first' \in Firsts /\ noted' \in Seq(Changes)
    BY <1>5, EmptySeq DEF ResetSnap, Firsts, Seen
  <2> QED
    BY <1>1, <1>2, <1>5, <2>1 DEF ResetSnap, mainElse, Swept, DiagTyped, LoopStages, Tears
<1>6. CASE ResetHead
  BY <1>1, <1>2, <1>6, SlotsAre DEF ResetHead, mainElse, Swept, DiagTyped, LoopStages
<1>7. CASE ResetCount
  BY <1>1, <1>2, <1>7, SlotsAre DEF ResetCount, mainElse, Swept, DiagTyped, LoopStages
<1> QED
  BY <1>3, <1>4, <1>5, <1>6, <1>7 DEF LoopMoves

LEMMA SweptStays == Swept /\ UNCHANGED diagVars => Swept'
BY DEF Swept, DiagTyped, Placed, Quantity, diagVars

Answers == answer \in {"no", "commit"}
IInv == Unit /\ Swept /\ Answers

LEMMA InitTyped == Init => IInv
BY UnitInit, DiagInitTyped DEF Init, IInv, Unit, Answers

LEMMA NextTyped == ASSUME IInv, [Next]_vars PROVE IInv'
<1>1. Unit'
  BY UnitNext DEF IInv
<1>2. Swept'
  BY DiagSteps, SweepTyped, LoopTyped, SweptStays DEF IInv
<1>3. Answers'
  BY DEF IInv, Answers, Next, vars, SwitchSweep, Reset, ResetGoesOn, Sweep, ReadFails, ReadCommits,
         ReadAnswered, PanelWrites, Window
<1> QED
  BY <1>1, <1>2, <1>3 DEF IInv

\* The unit and the sweep are well typed together: a reply is a sequence of words
\* as long as the block, and the address compared is in the range being read.
LEMMA WellTyped == Spec => []IInv
BY InitTyped, NextTyped, PTL DEF Spec

\* Every variable of the panel's sweep and of the unit has its type: the ring's
\* indices stay in it, no counter turns negative, and every register read is a
\* word.
THEOREM TypeCorrect == Spec => []TypeOK
<1>1. ASSUME IInv PROVE TypeOK
  <2>1. UnitTyped /\ DiagTyped /\ Answers
    BY <1>1 DEF IInv, Unit, Swept
  <2>2. \A i \in DOMAIN pending : pending[i].wait \in Nat /\ readable(pending[i].addr)
    <3>1. \A i \in DOMAIN pending : pending[i] \in Entry
      BY <2>1, LenProperties, ElementOfSeq DEF UnitTyped
    <3> QED
      BY <3>1 DEF Entry, Writable
  <2>3. \A i \in DOMAIN events : events[i] \in Events
    BY <2>1, LenProperties, ElementOfSeq DEF UnitTyped
  <2>4. \A c \in ENERGY_COUNTERS : energy[c] \in Nat
    BY <2>1 DEF UnitTyped, Counts
  <2>5. \A a \in Addresses : snap[a] \in {Junk} \cup 0 .. (Word - 1)
    BY <2>1 DEF DiagTyped, Snaps, Known, Digits
  <2>6. r \in [Stored -> 0 .. (Word - 1)] /\ changes \in [0 .. (NChanges - 1) -> Changes]
    BY <2>1 DEF UnitTyped, DiagTyped, Regs, Rings, Slots
  <2>7. /\ delay \in Delays /\ gui \in {"idle", "tick", "drain", "refresh"}
        /\ sweep \in {"idle", "read", "diff", "head", "count", "store"}
        /\ loop \in {"idle", "snap", "head", "count"} /\ answer \in {"no", "commit"}
        /\ head \in 0 .. (NChanges - 1) /\ count \in 0 .. NChanges
    BY <2>1 DEF UnitTyped, DiagTyped, Answers, Slots, Phases, Stages, LoopStages
  <2> QED
    BY <2>2, <2>3, <2>4, <2>5, <2>6, <2>7 DEF TypeOK, Events
<1> QED
  BY <1>1, WellTyped, PTL

-----------------------------------------------------------------------------
(* The list of changes.                                                    *)

Kept(n) == IF n < NChanges THEN n ELSE NChanges
Back(x, i) == (x - 1 - i) % NChanges

LEMMA BackIs ==
  /\ \A x, i \in Slots : Back(x, i) = IF x - 1 - i < 0 THEN x - 1 - i + NChanges ELSE x - 1 - i
  /\ \A x, i \in Slots : Back(x, i) \in Slots
<1>1. \A N \in Nat \ {0} : \A x, i \in 0 .. (N - 1) :
        (x - 1 - i) % N = IF x - 1 - i < 0 THEN x - 1 - i + N ELSE x - 1 - i
  <2> SUFFICES ASSUME NEW N \in Nat \ {0}, NEW x \in 0 .. (N - 1), NEW i \in 0 .. (N - 1)
               PROVE  (x - 1 - i) % N = IF x - 1 - i < 0 THEN x - 1 - i + N ELSE x - 1 - i
    OBVIOUS
  <2> DEFINE d == x - 1 - i
  <2>1. d \in Int /\ -N <= d /\ d < N
    OBVIOUS
  <2> HIDE DEF d
  <2>2. CASE 0 <= d
    <3>1. d % N = d
      BY <2>1, <2>2
    <3> QED
      BY <2>1, <2>2, <3>1 DEF d
  <2>3. CASE d < 0
    <3>1. d % N = d + N
      BY <2>1, <2>3
    <3> QED
      BY <2>1, <2>3, <3>1 DEF d
  <2> QED
    BY <2>1, <2>2, <2>3
<1>2. \A x, i \in Slots : Back(x, i) = IF x - 1 - i < 0 THEN x - 1 - i + NChanges ELSE x - 1 - i
  BY <1>1, BlockIs DEF Back, Slots
<1> QED
  BY <1>2, BlockIs DEF Slots

LEMMA BackNext ==
  ASSUME NEW x \in Slots
  PROVE  /\ Back(NextSlot(x), 0) = x
         /\ \A i \in Slots \ {0} : /\ i - 1 \in Slots /\ Back(NextSlot(x), i) = Back(x, i - 1)
                                   /\ Back(x, i - 1) # x /\ Back(x, i - 1) \in Slots
<1>1. NextSlot(x) = (IF x = NChanges - 1 THEN 0 ELSE x + 1) /\ NextSlot(x) \in Slots
  BY SlotsAre
<1>2. Back(NextSlot(x), 0) = x
  <2>1. Back(NextSlot(x), 0) = IF NextSlot(x) - 1 - 0 < 0 THEN NextSlot(x) - 1 - 0 + NChanges
                               ELSE NextSlot(x) - 1 - 0
    BY <1>1, BackIs, SlotsAre
  <2> QED
    BY <1>1, <2>1, BlockIs DEF Slots
<1>3. ASSUME NEW i \in Slots \ {0}
      PROVE  /\ i - 1 \in Slots /\ Back(NextSlot(x), i) = Back(x, i - 1)
             /\ Back(x, i - 1) # x /\ Back(x, i - 1) \in Slots
  <2>1. i - 1 \in Slots /\ i \in Slots
    BY BlockIs DEF Slots
  <2>2. Back(x, i - 1) = (IF x - i < 0 THEN x - i + NChanges ELSE x - i) /\ Back(x, i - 1) \in Slots
    <3>1. /\ Back(x, i - 1) = IF x - 1 - (i - 1) < 0 THEN x - 1 - (i - 1) + NChanges
                               ELSE x - 1 - (i - 1)
          /\ Back(x, i - 1) \in Slots
      BY <2>1, BackIs
    <3>2. x - 1 - (i - 1) = x - i
      BY <2>1, BlockIs DEF Slots
    <3> QED
      BY <3>1, <3>2
  <2>3. Back(NextSlot(x), i) = IF NextSlot(x) - 1 - i < 0 THEN NextSlot(x) - 1 - i + NChanges
                               ELSE NextSlot(x) - 1 - i
    BY <1>1, <2>1, BackIs
  <2> QED
    BY <1>1, <2>1, <2>2, <2>3, BlockIs DEF Slots
<1> QED
  BY <1>2, <1>3

\* Going back from slot x, the ring holds the changes noted, newest first.
Ring(x) == \A i \in 0 .. (Kept(Len(noted)) - 1) : changes[Back(x, i)] = noted[Len(noted) - i]

\* The ring and the count are those of the changes noted, at every point between
\* the stores of a note, unless a reset cut one in two.
Listed ==
  torn # "note" =>
    /\ loop \in {"head", "count"} => ~Noting /\ noted = <<>>
    /\ loop = "count" => head = 0
    /\ loop \in {"idle", "snap"} =>
        /\ ~Noting => count = Kept(Len(noted)) /\ Ring(head)
        /\ Noting => Len(noted) > 0 /\ count = Kept(Len(noted) - 1)
        /\ sweep = "head" => h = head /\ Ring(NextSlot(head))
        /\ sweep \in {"count", "store"} => Ring(head)
        /\ sweep = "store" => h = count

LEMMA KeptIs ==
  /\ Kept(0) = 0
  /\ \A n \in Nat : /\ Kept(n) \in 0 .. NChanges
                    /\ Kept(n + 1) = (IF Kept(n) < NChanges THEN Kept(n) + 1 ELSE Kept(n))
                    /\ Kept(n) <= n
BY BlockIs DEF Kept

LEMMA RingGrows ==
  ASSUME Swept, Ring(head), NEW c \in Changes, changes' = [changes EXCEPT ![head] = c],
         noted' = Append(noted, c)
  PROVE  \A i \in 0 .. (Kept(Len(noted')) - 1) :
           changes'[Back(NextSlot(head), i)] = noted'[Len(noted') - i]
<1> DEFINE n == Len(noted)
<1>1. /\ head \in Slots /\ changes \in Rings /\ n \in Nat
      /\ Len(noted') = n + 1 /\ noted'[n + 1] = c /\ \A i \in 1 .. n : noted'[i] = noted[i]
  BY AppendProperties, LenProperties DEF Swept, DiagTyped
<1> HIDE DEF n
<1> SUFFICES ASSUME NEW i \in 0 .. (Kept(Len(noted')) - 1)
             PROVE  changes'[Back(NextSlot(head), i)] = noted'[Len(noted') - i]
  OBVIOUS
<1>2. i \in Slots /\ i \in Int /\ Kept(n) \in 0 .. NChanges /\ i <= Kept(n) /\ Kept(n) <= n
  <2> DEFINE k == Kept(n)
             m == Kept(n + 1)
  <2>1. /\ k \in 0 .. NChanges /\ k <= n /\ m \in 0 .. NChanges
        /\ m = IF k < NChanges THEN k + 1 ELSE k
    <3>1. n + 1 \in Nat
      BY <1>1
    <3> QED
      BY <1>1, <3>1, KeptIs
  <2>2. i \in 0 .. (m - 1)
    BY <1>1
  <2> HIDE DEF k, m
  <2>3. i \in Slots /\ i \in Int /\ i <= k
    BY <2>1, <2>2, BlockIs DEF Slots
  <2> QED
    BY <2>1, <2>3 DEF k
<1>3. CASE i = 0
  <2>1. changes'[head] = c
    BY <1>1 DEF Rings
  <2> QED
    BY <1>1, <1>3, <2>1, BackNext
<1>4. CASE i # 0
  <2>1. /\ Back(NextSlot(head), i) = Back(head, i - 1) /\ Back(head, i - 1) # head
        /\ Back(head, i - 1) \in Slots
    BY <1>1, <1>2, <1>4, BackNext
  <2>2. changes'[Back(head, i - 1)] = changes[Back(head, i - 1)]
    BY <1>1, <2>1 DEF Rings
  <2>3. i - 1 \in 0 .. (Kept(n) - 1)
    BY <1>2, <1>4
  <2>4. changes[Back(head, i - 1)] = noted[n - (i - 1)]
    BY <2>3 DEF Ring, n
  <2>5. n + 1 - i \in 1 .. n /\ n + 1 - i = n - (i - 1)
    BY <1>1, <1>2, <1>4
  <2>6. noted'[n + 1 - i] = noted[n + 1 - i]
    BY <1>1, <2>5
  <2>7. Len(noted') - i = n + 1 - i
    BY <1>1
  <2> QED
    BY <2>1, <2>2, <2>4, <2>5, <2>6, <2>7
<1> QED
  BY <1>3, <1>4

LEMMA ListedStays ==
  ASSUME Listed, UNCHANGED <<changes, noted, head, count, loop, torn>>,
         ~Noting, sweep' \notin {"head", "count", "store"}
  PROVE  Listed'
BY DEF Listed, Noting, Ring

LEMMA ListedSweeps == ASSUME Swept, Listed, SweepMoves PROVE Listed'
<1>1. DiagTyped /\ Placed
  BY DEF Swept
<1>2. CASE \E words \in Replies : ReadBlock(words) /\ (words # <<>> => Len(words) = Quantity)
  <2>1. PICK words : ReadBlock(words)
    BY <1>2
  <2>2. /\ UNCHANGED <<changes, noted, head, count, loop, torn>> /\ ~Noting
        /\ sweep' \notin {"head", "count", "store"}
    BY <2>1 DEF ReadBlock, Onward, taskElse, Noting
  <2> QED
    BY <2>2, ListedStays
<1>3. CASE StartSweep
  <2>1. /\ UNCHANGED <<changes, noted, head, count, loop, torn>> /\ ~Noting
        /\ sweep' \notin {"head", "count", "store"}
    BY <1>3 DEF StartSweep, taskElse, Noting
  <2> QED
    BY <2>1, ListedStays
<1>4. CASE Same
  <2>1. /\ UNCHANGED <<changes, noted, head, count, loop, torn>> /\ ~Noting
        /\ sweep' \notin {"head", "count", "store"}
    BY <1>4 DEF Same, Keep, Onward, taskElse, Noting
  <2> QED
    BY <2>1, ListedStays
<1>5. CASE NoteEntry
  <2> SUFFICES ASSUME torn' # "note" PROVE Listed'
    BY DEF Listed
  <2>1. /\ sweep = "diff" /\ sweep' = "head" /\ h' = head /\ UNCHANGED <<head, count, loop>>
        /\ changes' = [changes EXCEPT ![head] = Change] /\ noted' = Append(noted, Change)
        /\ torn' = torn /\ loop \notin {"head", "count"}
    BY <1>5 DEF NoteEntry, taskElse
  <2>2. Change \in Changes
    BY <2>1, HereIs
  <2>3. count = Kept(Len(noted)) /\ Ring(head)
    BY <1>1, <2>1 DEF Listed, Noting, DiagTyped, LoopStages
  <2>4. Ring(NextSlot(head))'
    <3>1. \A i \in 0 .. (Kept(Len(noted')) - 1) :
            changes'[Back(NextSlot(head), i)] = noted'[Len(noted') - i]
      BY <2>1, <2>2, <2>3, RingGrows
    <3>2. NextSlot(head)' = NextSlot(head)
      BY <2>1 DEF NextSlot
    <3> QED
      BY <3>1, <3>2 DEF Ring
  <2>5. Len(noted') = Len(noted) + 1 /\ Len(noted) \in Nat
    BY <1>1, <2>1, <2>2, AppendProperties, LenProperties DEF DiagTyped
  <2>6. Len(noted') > 0 /\ Len(noted') - 1 = Len(noted)
    BY <2>5
  <2> QED
    BY <2>1, <2>3, <2>4, <2>6 DEF Listed, Noting
<1>6. CASE NoteHead
  <2> SUFFICES ASSUME torn' # "note" PROVE Listed'
    BY DEF Listed
  <2>1. /\ sweep = "head" /\ sweep' = "count"
        /\ UNCHANGED <<changes, noted, count, loop, torn>>
    BY <1>6 DEF NoteHead, taskElse
  <2>2. /\ loop \in {"idle", "snap"} /\ h = head /\ Ring(NextSlot(head))
        /\ Len(noted) > 0 /\ count = Kept(Len(noted) - 1)
    BY <1>1, <2>1 DEF Listed, Noting, DiagTyped, LoopStages
  <2>3. head' = NextSlot(head)
    BY <1>6, <2>2 DEF NoteHead
  <2>4. Ring(head)'
    BY <2>1, <2>2, <2>3 DEF Ring
  <2> QED
    BY <2>1, <2>2, <2>4 DEF Listed, Noting
<1>7. CASE NoteCount
  <2>1. /\ sweep = "count" /\ sweep' = "store" /\ h' = count
        /\ UNCHANGED <<changes, noted, head, count, loop, torn>>
    BY <1>7 DEF NoteCount, taskElse
  <2> QED
    BY <2>1 DEF Listed, Noting, Ring
<1>8. CASE NoteStored
  <2> SUFFICES ASSUME torn' # "note" PROVE Listed'
    BY DEF Listed
  <2>1. /\ sweep = "store" /\ sweep' \notin {"head", "count", "store"}
        /\ UNCHANGED <<changes, noted, head, loop, torn>>
        /\ count' = IF h < NChanges THEN h + 1 ELSE count
    BY <1>8 DEF NoteStored, Keep, Onward, taskElse
  <2>2. /\ loop \in {"idle", "snap"} /\ h = count /\ Ring(head)
        /\ Len(noted) > 0 /\ count = Kept(Len(noted) - 1)
    BY <1>1, <2>1 DEF Listed, Noting, DiagTyped, LoopStages
  <2>3. Len(noted) - 1 \in Nat /\ Len(noted) = Len(noted) - 1 + 1
    <3>1. Len(noted) \in Nat
      BY <1>1, LenProperties DEF DiagTyped
    <3> QED
      BY <2>2, <3>1
  <2>4. count' = Kept(Len(noted))
    <3> DEFINE m == Len(noted) - 1
    <3>1. m \in Nat /\ Len(noted) = m + 1 /\ count = Kept(m)
      BY <2>2, <2>3
    <3> HIDE DEF m
    <3>2. Kept(m + 1) = IF Kept(m) < NChanges THEN Kept(m) + 1 ELSE Kept(m)
      BY <3>1, KeptIs
    <3> QED
      BY <2>1, <2>2, <3>1, <3>2
  <2> QED
    BY <2>1, <2>2, <2>4 DEF Listed, Noting, Ring
<1> QED
  BY <1>2, <1>3, <1>4, <1>5, <1>6, <1>7, <1>8 DEF SweepMoves

LEMMA ListedLoops == ASSUME Swept, Listed, LoopMoves PROVE Listed'
<1>1. CASE bluetti_diag_enable(~g_diagOn)
  <2>1. /\ loop = "idle" /\ loop' \in {"idle", "snap"}
        /\ UNCHANGED <<sweep, h, changes, noted, head, count, torn>>
    BY <1>1 DEF bluetti_diag_enable, mainElse
  <2> QED
    BY <2>1 DEF Listed, Noting, Ring, NextSlot
<1>2. CASE TapResets
  <2>1. /\ loop = "idle" /\ loop' \in {"idle", "snap"}
        /\ UNCHANGED <<sweep, h, changes, noted, head, count, torn>>
    BY <1>2 DEF TapResets, mainElse
  <2> QED
    BY <2>1 DEF Listed, Noting, Ring, NextSlot
<1>3. CASE ResetSnap
  <2>1. /\ loop' = "head" /\ noted' = <<>> /\ UNCHANGED sweep
        /\ torn' # "note" => ~Noting
    BY <1>3 DEF ResetSnap, mainElse
  <2> QED
    BY <2>1 DEF Listed, Noting
<1>4. CASE ResetHead
  <2>1. /\ loop = "head" /\ loop' = "count" /\ head' = 0 /\ UNCHANGED <<sweep, noted, torn>>
    BY <1>4 DEF ResetHead, mainElse
  <2> QED
    BY <2>1 DEF Listed, Noting
<1>5. CASE ResetCount
  <2>1. /\ loop = "count" /\ loop' = "idle" /\ count' = 0 /\ UNCHANGED <<sweep, noted, torn>>
    BY <1>5 DEF ResetCount, mainElse
  <2> SUFFICES ASSUME torn # "note" PROVE Listed'
    BY <2>1 DEF Listed
  <2>2. ~Noting /\ noted = <<>>
    BY <2>1 DEF Listed
  <2>3. Len(noted') = 0 /\ ~Noting' /\ Kept(Len(noted')) = 0
    <3>1. Len(noted') = 0
      BY <2>1, <2>2, EmptySeq
    <3> QED
      BY <2>1, <2>2, <3>1, KeptIs DEF Noting
  <2>4. Ring(head)'
    BY <2>3 DEF Ring
  <2> QED
    BY <2>1, <2>3, <2>4 DEF Listed, Noting
<1> QED
  BY <1>1, <1>2, <1>3, <1>4, <1>5 DEF LoopMoves

\* diagNote() and bluetti_diag_reset(), between any two of their stores.
LEMMA ListHolds == Spec => []Listed
<1>1. Init => Listed
  <2> SUFFICES ASSUME Init PROVE Listed
    OBVIOUS
  <2>1. /\ noted = <<>> /\ head = 0 /\ count = 0 /\ sweep = "idle" /\ loop = "idle"
    BY DEF Init, DiagInit
  <2>2. Len(noted) = 0 /\ Kept(Len(noted)) = 0
    <3>1. Len(noted) = 0
      BY <2>1, EmptySeq
    <3> QED
      BY <3>1, KeptIs
  <2>3. Ring(head)
    BY <2>2 DEF Ring
  <2> QED
    BY <2>1, <2>2, <2>3 DEF Listed, Noting
<1>2. IInv /\ Listed /\ [Next]_vars => Listed'
  <2> SUFFICES ASSUME IInv, Listed, [Next]_vars PROVE Listed'
    OBVIOUS
  <2>1. SweepMoves \/ LoopMoves \/ UNCHANGED diagVars
    BY DiagSteps DEF IInv
  <2>2. CASE UNCHANGED diagVars
    BY <2>2 DEF diagVars, Listed, Noting, Ring, NextSlot
  <2> QED
    BY <2>1, <2>2, ListedSweeps, ListedLoops DEF IInv
<1> QED
  BY <1>1, <1>2, WellTyped, PTL DEF Spec

\* The page lists the changes since the last reset, newest first, as many as the
\* ring holds: for every size of the ring, however often it has wrapped, and
\* whatever reset and note interleave without cutting a note in two.
THEOREM ListsNewestFirst == Spec => []NewestFirst
<1>1. ASSUME IInv, Listed PROVE NewestFirst
  <2> SUFFICES ASSUME Quiet
               PROVE  /\ count = IF Len(noted) < NChanges THEN Len(noted) ELSE NChanges
                      /\ \A i \in 0 .. (count - 1) : bluetti_diag_at(i) = noted[Len(noted) - i]
    BY DEF NewestFirst
  <2>1. count = Kept(Len(noted)) /\ Ring(head)
    BY <1>1 DEF Quiet, Listed, Noting
  <2>2. count \in 0 .. NChanges
    BY <1>1 DEF IInv, Swept, DiagTyped
  <2>3. ASSUME NEW i \in 0 .. (count - 1) PROVE bluetti_diag_at(i) = noted[Len(noted) - i]
    <3>1. ~(i < 0 \/ i >= count)
      BY <2>2, <2>3, BlockIs
    <3>2. bluetti_diag_at(i) = changes[Back(head, i)]
      BY <3>1 DEF bluetti_diag_at, Back
    <3> QED
      BY <2>1, <2>3, <3>2 DEF Ring
  <2> QED
    BY <2>1, <2>3 DEF Kept
<1> QED
  BY <1>1, WellTyped, ListHolds, PTL

-----------------------------------------------------------------------------
(* Which registers were read since the last reset.                         *)

AllUnread == \A a \in Addresses : first[a] = Unread
AllRead == \A a \in Addresses : first[a] # Unread

\* A sweep without comparison finds the rest unread, and one with it, if no
\* reset came in its middle and no read failed, finds all of them read.
Met ==
  /\ sweep = "idle" /\ ~haveSnap => AllUnread
  /\ sweep # "idle" /\ baseline => \A a \in Addresses : Addr <= a => first[a] = Unread
  /\ torn = "no" /\ ~failed =>
       /\ sweep = "idle" /\ haveSnap => AllRead
       /\ sweep # "idle" => \A a \in Addresses : a < Addr => first[a] # Unread
       /\ sweep # "idle" /\ ~baseline => AllRead

LEMMA MetStays ==
  ASSUME Met, UNCHANGED <<sweep, haveSnap, baseline, first, torn, failed, at, item>> PROVE Met'
BY DEF Met, AllUnread, AllRead, Addr

LEMMA MetOnKeep ==
  ASSUME Swept, Met, sweep \notin {"idle", "read"}, Keep, UNCHANGED <<baseline, torn, failed>>
  PROVE  Met'
<1>1. /\ Addr \in Addresses /\ Addr \in Int /\ buf[item] \in Digits /\ first \in Firsts
  BY HereIs DEF Swept, DiagTyped
<1>2. /\ first' = IF first[Addr] = Unread THEN [first EXCEPT ![Addr] = buf[item]] ELSE first
      /\ sweep' \in {"idle", "read", "diff"}
      /\ \/ /\ sweep' \in {"read", "diff"} /\ haveSnap' = haveSnap /\ Addr' \in Int
            /\ Addr < Addr' /\ \A a \in Addresses : a < Addr' => a <= Addr
         \/ /\ sweep' = "idle" /\ haveSnap' = TRUE /\ \A a \in Addresses : a <= Addr
  BY KeepIs
<1>3. /\ \A a \in Addresses : a # Addr => first'[a] = first[a]
      /\ first'[Addr] # Unread
      /\ \A a \in Addresses : first[a] # Unread => first'[a] # Unread
  <2>1. buf[item] # Unread
    BY <1>1, DigitsAre
  <2> QED
    BY <1>1, <1>2, <2>1 DEF Firsts
<1>4. sweep' # "idle" /\ baseline => \A a \in Addresses : Addr' <= a => first'[a] = Unread
  <2> SUFFICES ASSUME sweep' # "idle", baseline, NEW a \in Addresses, Addr' <= a
               PROVE  first'[a] = Unread
    OBVIOUS
  <2>1. a # Addr /\ Addr <= a
    BY <1>1, <1>2, AddressesAre
  <2>2. first[a] = Unread
    BY <2>1 DEF Met
  <2> QED
    BY <1>3, <2>1, <2>2
<1>5. ASSUME torn = "no", ~failed
      PROVE  /\ sweep' = "idle" => AllRead'
             /\ sweep' # "idle" => \A a \in Addresses : a < Addr' => first'[a] # Unread
             /\ ~baseline => AllRead'
  <2>1. \A a \in Addresses : a < Addr => first[a] # Unread
    BY <1>5 DEF Met
  <2>2. \A a \in Addresses : a <= Addr => first'[a] # Unread
    BY <1>1, <1>3, <2>1, AddressesAre
  <2>3. ~baseline => AllRead'
    BY <1>3, <1>5 DEF Met, AllRead
  <2>4. sweep' = "idle" => AllRead'
    BY <1>2, <2>2 DEF AllRead
  <2> QED
    BY <1>2, <2>2, <2>3, <2>4
<1>6. ~(sweep' = "idle" /\ ~haveSnap')
  BY <1>2
<1> QED
  BY <1>4, <1>5, <1>6 DEF Met

LEMMA MetNext == ASSUME Swept, Met, SweepMoves \/ LoopMoves PROVE Met'
<1>1. DiagTyped /\ Placed
  BY DEF Swept
<1>2. CASE \E words \in Replies : ReadBlock(words) /\ (words # <<>> => Len(words) = Quantity)
  <2>1. PICK words : ReadBlock(words)
    BY <1>2
  <2>2. /\ sweep = "read" /\ UNCHANGED <<first, baseline, torn>> /\ item = 1
        /\ failed' = (failed \/ words = <<>>)
    BY <1>1, <2>1 DEF ReadBlock, Placed
  <2>3. CASE words = <<>>
    <3>1. Onward
      BY <2>1, <2>3 DEF ReadBlock
    <3>2. /\ \/ sweep' = "read" /\ at[2] + Quantity <= Addr'
             \/ sweep' = "idle" /\ haveSnap' = TRUE
          /\ Addr' = at'[2] /\ InRange(at')
      BY <3>1, OnwardIs
    <3>3. Addr' \in Int /\ Addr \in Int /\ Addr = at[2] /\ Quantity \in Nat \ {0}
      BY <2>2, <3>2, HereIs DEF InRange, Pairs
    <3>4. \A a \in Addresses : at[2] + Quantity <= Addr' /\ Addr' <= a => Addr <= a
      BY <3>3, AddressesAre
    <3>5. sweep' # "idle" /\ baseline => \A a \in Addresses : Addr' <= a => first[a] = Unread
      BY <2>2, <3>2, <3>4 DEF Met
    <3> QED
      BY <2>2, <2>3, <3>2, <3>5 DEF Met
  <2>4. CASE words # <<>>
    <3>1. sweep' = "diff" /\ item' = item /\ UNCHANGED <<at, haveSnap>>
      BY <2>1, <2>2, <2>4 DEF ReadBlock
    <3>2. Addr' = Addr
      BY <3>1 DEF Addr
    <3> QED
      BY <2>2, <2>4, <3>1, <3>2 DEF Met, AllRead
  <2> QED
    BY <2>3, <2>4
<1>3. CASE StartSweep
  <2>1. /\ sweep = "idle" /\ sweep' = "read" /\ baseline' = ~haveSnap /\ at' = FirstBlock
        /\ item' = 1 /\ UNCHANGED <<haveSnap, first, torn, failed>> /\ haveSnap \in BOOLEAN
    BY <1>1, <1>3 DEF StartSweep, FirstBlock, Placed, DiagTyped
  <2>2. Addr' = FirstBlock[2] /\ FirstBlock[2] \in Int
    BY <2>1, FirstInRange DEF Addr
  <2>3. \A a \in Addresses : ~(a < Addr')
    BY <2>2, FirstInRange, AddressesAre
  <2>4. baseline' => AllUnread'
    BY <2>1 DEF Met, AllUnread
  <2>5. torn = "no" /\ ~failed /\ ~baseline' => AllRead'
    BY <2>1 DEF Met, AllRead
  <2> QED
    BY <2>1, <2>3, <2>4, <2>5 DEF Met, AllUnread
<1>4. CASE Same
  BY <1>4, MetOnKeep DEF Same
<1>5. CASE NoteStored
  BY <1>5, MetOnKeep DEF NoteStored
<1>6. CASE NoteHead \/ NoteCount
  <2>1. /\ UNCHANGED <<haveSnap, baseline, first, torn, failed, at, item>>
        /\ sweep # "idle" /\ sweep' # "idle"
    BY <1>6 DEF NoteHead, NoteCount
  <2> QED
    BY <2>1 DEF Met, AllRead, Addr
<1>7. CASE NoteEntry
  <2>1. /\ UNCHANGED <<haveSnap, baseline, first, failed, at, item>>
        /\ sweep # "idle" /\ sweep' # "idle" /\ torn' \in {torn, "note"}
    BY <1>7 DEF NoteEntry
  <2> QED
    BY <2>1 DEF Met, AllRead, Addr
<1>8. CASE bluetti_diag_enable(~g_diagOn) \/ TapResets \/ ResetHead \/ ResetCount
  <2>1. UNCHANGED <<sweep, haveSnap, baseline, first, torn, failed, at, item>>
    BY <1>8 DEF bluetti_diag_enable, TapResets, ResetHead, ResetCount, mainElse
  <2> QED
    BY <2>1, MetStays
<1>9. CASE ResetSnap
  <2>1. /\ UNCHANGED sweep /\ haveSnap' = FALSE /\ first' = [a \in Addresses |-> Unread]
        /\ torn' = "no" => sweep = "idle"
    BY <1>9 DEF ResetSnap, mainElse
  <2> QED
    BY <2>1 DEF Met, AllUnread
<1> QED
  BY <1>2, <1>3, <1>4, <1>5, <1>6, <1>7, <1>8, <1>9 DEF SweepMoves, LoopMoves

-----------------------------------------------------------------------------
(* The changes of one register.                                            *)

Mine(s, a) == {i \in DOMAIN s : s[i].addr = a}
Follow(s, a, i, j) == i < j /\ \A k \in Mine(s, a) : k <= i \/ j <= k

\* The changes of a in s lead from one value to another; the first of them may
\* instead lead to where they should have started.
Chain(s, a, from, to, loose) ==
  /\ Mine(s, a) = {} => to = from
  /\ \A i \in Mine(s, a) :
       /\ s[i].old # s[i].new
       /\ (\A j \in Mine(s, a) : i <= j) => s[i].old = from \/ (s[i].new = from /\ loose)
       /\ (\A j \in Mine(s, a) : j <= i) => s[i].new = to
       /\ \A j \in Mine(s, a) : Follow(s, a, i, j) => s[i].new = s[j].old

LEMMA MineGrows ==
  ASSUME NEW s \in Seq(Changes), NEW c \in Changes, NEW a
  PROVE  /\ Mine(Append(s, c), a) = IF c.addr = a THEN Mine(s, a) \cup {Len(s) + 1} ELSE Mine(s, a)
         /\ \A i \in Mine(s, a) : /\ Append(s, c)[i] = s[i] /\ i \in Int /\ i < Len(s) + 1
                                  /\ i \in DOMAIN s
         /\ Append(s, c)[Len(s) + 1] = c /\ Len(s) + 1 \in Int
<1> DEFINE p == Append(s, c)
           n == Len(s) + 1
<1>1. /\ p[n] = c /\ n \in DOMAIN p /\ n \in Int
      /\ \A i \in DOMAIN s : i \in DOMAIN p /\ i < n /\ i \in Int /\ p[i] = s[i]
      /\ \A i \in DOMAIN p : i \in DOMAIN s \/ i = n
  BY Longer
<1> HIDE DEF p, n
<1>2. \A i \in Mine(s, a) : i \in DOMAIN s /\ s[i].addr = a
  BY DEF Mine
<1>3. \A i \in DOMAIN p : p[i].addr = a <=> i \in Mine(s, a) \/ (i = n /\ c.addr = a)
  BY <1>1 DEF Mine
<1>4. Mine(p, a) = IF c.addr = a THEN Mine(s, a) \cup {n} ELSE Mine(s, a)
  BY <1>1, <1>2, <1>3 DEF Mine
<1> QED
  BY <1>1, <1>2, <1>4 DEF p, n

\* A finite set of indices that is not empty has a last one.
LEMMA LastMine ==
  ASSUME NEW s \in Seq(Changes), NEW a, Mine(s, a) # {}
  PROVE  \E i \in Mine(s, a) : \A j \in Mine(s, a) : j <= i
<1> DEFINE M == Mine(s, a)
           N == Len(s)
           T == {N - i : i \in M}
<1>1. N \in Nat /\ M \subseteq 1 .. N /\ M # {}
  BY LenProperties DEF Mine
<1>2. T \subseteq Nat /\ T # {}
  BY <1>1
<1>3. PICK x \in T : \A y \in T : x <= y
  <2> HIDE DEF T
  <2> QED
    BY <1>2, LeastMember
<1>4. PICK i \in M : x = N - i
  BY <1>3
<1>5. ASSUME NEW j \in M PROVE j <= i
  <2>1. N - j \in T
    OBVIOUS
  <2>2. N - i <= N - j
    BY <1>3, <1>4, <2>1
  <2> QED
    BY <1>1, <2>2
<1> QED
  BY <1>4, <1>5

LEMMA ChainOther ==
  ASSUME NEW s \in Seq(Changes), NEW c \in Changes, NEW a, c.addr # a, NEW from, NEW to, NEW loose,
         Chain(s, a, from, to, loose)
  PROVE  Chain(Append(s, c), a, from, to, loose)
<1> DEFINE p == Append(s, c)
<1>1. Mine(p, a) = Mine(s, a) /\ \A i \in Mine(s, a) : p[i] = s[i]
  BY MineGrows
<1> HIDE DEF p
<1>2. Chain(p, a, from, to, loose)
  BY <1>1 DEF Chain, Follow
<1> QED
  BY <1>2 DEF p

\* A change that starts where the chain ends, or the first one, makes it longer.
LEMMA ChainGrows ==
  ASSUME NEW s \in Seq(Changes), NEW c \in Changes, NEW a, c.addr = a, c.old # c.new,
         NEW from, NEW to, NEW loose,
         Mine(s, a) = {} => c.old = from \/ (c.new = from /\ loose),
         Mine(s, a) # {} => Chain(s, a, from, to, loose) /\ c.old = to
  PROVE  Chain(Append(s, c), a, from, c.new, loose)
<1> DEFINE p == Append(s, c)
           n == Len(s) + 1
           M == Mine(s, a)
<1>1. /\ Mine(p, a) = M \cup {n} /\ p[n] = c /\ n \in Int
      /\ \A i \in M : p[i] = s[i] /\ i \in Int /\ i < n
  BY MineGrows
<1>2. M # {} => \E i \in M : \A j \in M : j <= i
  BY LastMine
<1> HIDE DEF p, n, M
<1>3. ASSUME NEW i \in M
      PROVE  /\ p[i].old # p[i].new
             /\ (\A j \in M \cup {n} : i <= j) => p[i].old = from \/ (p[i].new = from /\ loose)
             /\ ~ \A j \in M \cup {n} : j <= i
             /\ \A j \in M \cup {n} :
                  (i < j /\ \A k \in M \cup {n} : k <= i \/ j <= k) => p[i].new = p[j].old
  <2>1. Chain(s, a, from, to, loose) /\ c.old = to
    BY DEF M
  <2>2. p[i] = s[i] /\ i \in Int /\ i < n
    BY <1>1
  <2>3. p[i].old # p[i].new
    BY <2>1, <2>2 DEF Chain, M
  <2>4. (\A j \in M \cup {n} : i <= j) => p[i].old = from \/ (p[i].new = from /\ loose)
    BY <2>1, <2>2 DEF Chain, M
  <2>5. ~ \A j \in M \cup {n} : j <= i
    BY <1>1, <2>2
  <2>6. ASSUME NEW j \in M \cup {n}, i < j, \A k \in M \cup {n} : k <= i \/ j <= k
        PROVE  p[i].new = p[j].old
    <3>1. CASE j = n
      <4>1. \A k \in M : k <= i
        <5> SUFFICES ASSUME NEW k \in M PROVE k <= i
          OBVIOUS
        <5>1. k <= i \/ n <= k
          BY <2>6, <3>1
        <5>2. k \in Int /\ k < n
          BY <1>1
        <5> QED
          BY <1>1, <5>1, <5>2
      <4>2. s[i].new = to
        BY <2>1, <4>1 DEF Chain, M
      <4> QED
        BY <1>1, <2>1, <2>2, <3>1, <4>2
    <3>2. CASE j \in M
      <4>1. Follow(s, a, i, j)
        BY <2>6 DEF Follow, M
      <4>2. s[i].new = s[j].old
        BY <2>1, <3>2, <4>1 DEF Chain, M
      <4> QED
        BY <1>1, <2>2, <3>2, <4>2
    <3> QED
      BY <3>1, <3>2
  <2> QED
    BY <2>3, <2>4, <2>5, <2>6
<1>4. /\ p[n].old # p[n].new
      /\ (\A j \in M \cup {n} : n <= j) => p[n].old = from \/ (p[n].new = from /\ loose)
      /\ p[n].new = c.new
      /\ \A j \in M \cup {n} : ~(n < j)
  <2>1. \A j \in M \cup {n} : j \in Int /\ j <= n
    BY <1>1
  <2>2. (\A j \in M \cup {n} : n <= j) => M = {}
    BY <1>1
  <2> QED
    BY <1>1, <2>1, <2>2 DEF M
<1>5. Chain(p, a, from, c.new, loose)
  <2>1. Mine(p, a) # {}
    BY <1>1
  <2>2. ASSUME NEW i \in M \cup {n}
        PROVE  /\ p[i].old # p[i].new
               /\ (\A j \in M \cup {n} : i <= j) => p[i].old = from \/ (p[i].new = from /\ loose)
               /\ (\A j \in M \cup {n} : j <= i) => p[i].new = c.new
               /\ \A j \in M \cup {n} :
                    (i < j /\ \A k \in M \cup {n} : k <= i \/ j <= k) => p[i].new = p[j].old
    <3>1. CASE i \in M
      BY <1>3, <3>1
    <3>2. CASE i = n
      BY <1>4, <3>2
    <3> QED
      BY <3>1, <3>2
  <2> QED
    BY <1>1, <2>1, <2>2 DEF Chain, Follow
<1> QED
  BY <1>5 DEF p

LEMMA ChainLoosens ==
  ASSUME NEW s, NEW a, NEW from, NEW to, NEW tight, NEW loose, tight => loose,
         Chain(s, a, from, to, tight)
  PROVE  Chain(s, a, from, to, loose)
BY DEF Chain

\* The baseline and the first values once the change being noted is in them.
snapNow == IF Noting THEN [snap EXCEPT ![Addr] = buf[item]] ELSE snap
firstNow == IF Noting /\ first[Addr] = Unread THEN [first EXCEPT ![Addr] = buf[item]] ELSE first
Loose == torn = "sweep" \/ failed
Steady == {a \in Addresses : ~diagIsNoisy(a)}

Linked ==
  torn # "note" =>
    \A a \in Steady :
      /\ firstNow[a] = Unread => Mine(noted, a) = {}
      /\ firstNow[a] # Unread => Chain(noted, a, firstNow[a], snapNow[a], Loose)

LEMMA LinkedStays ==
  ASSUME Linked, UNCHANGED <<noted, torn>>, failed => failed', snapNow' = snapNow,
         firstNow' = firstNow
  PROVE  Linked'
<1> SUFFICES ASSUME torn # "note", NEW a \in Steady
             PROVE  /\ firstNow[a] = Unread => Mine(noted, a) = {}
                    /\ firstNow[a] # Unread => Chain(noted, a, firstNow[a], snapNow[a], Loose')
  BY DEF Linked, Steady
<1>1. Loose => Loose'
  BY DEF Loose
<1>2. /\ firstNow[a] = Unread => Mine(noted, a) = {}
      /\ firstNow[a] # Unread => Chain(noted, a, firstNow[a], snapNow[a], Loose)
  BY DEF Linked
<1>3. Chain(noted, a, firstNow[a], snapNow[a], Loose) =>
        Chain(noted, a, firstNow[a], snapNow[a], Loose')
  BY <1>1 DEF Chain
<1> QED
  BY <1>2, <1>3

\* What is not a change, or the first value, becomes the baseline.
LEMMA LinkedSame == ASSUME Swept, Met, Linked, Same PROVE Linked'
<1>1. /\ sweep = "diff" /\ ~Differs /\ Keep /\ UNCHANGED <<noted, torn, failed, baseline>>
  BY DEF Same
<1>2. /\ snap' = [snap EXCEPT ![Addr] = buf[item]]
      /\ first' = IF first[Addr] = Unread THEN [first EXCEPT ![Addr] = buf[item]] ELSE first
      /\ sweep' \in {"idle", "read", "diff"}
  BY <1>1, KeepIs
<1>3. /\ Addr \in Addresses /\ Addr \in Int /\ buf[item] \in Digits /\ buf[item] # Unread
      /\ snap \in Snaps /\ first \in Firsts
  BY <1>1, HereIs, DigitsAre DEF Swept, DiagTyped
<1>4. snapNow = snap /\ firstNow = first /\ snapNow' = snap' /\ firstNow' = first' /\ Loose' = Loose
  BY <1>1, <1>2 DEF snapNow, firstNow, Noting, Loose
<1> SUFFICES ASSUME torn # "note", NEW a \in Steady
             PROVE  /\ first'[a] = Unread => Mine(noted, a) = {}
                    /\ first'[a] # Unread => Chain(noted, a, first'[a], snap'[a], Loose)
  BY <1>1, <1>4 DEF Linked, Steady
<1>5. /\ first[a] = Unread => Mine(noted, a) = {}
      /\ first[a] # Unread => Chain(noted, a, first[a], snap[a], Loose)
  BY <1>4 DEF Linked
<1>6. CASE a # Addr
  <2>1. first'[a] = first[a] /\ snap'[a] = snap[a]
    BY <1>2, <1>3, <1>6 DEF Snaps, Firsts, Steady
  <2> QED
    BY <1>5, <2>1
<1>7. CASE a = Addr /\ first[a] = Unread
  <2>1. first'[a] = buf[item] /\ snap'[a] = buf[item]
    BY <1>2, <1>3, <1>7 DEF Snaps, Firsts
  <2>2. Mine(noted, a) = {}
    BY <1>5, <1>7
  <2> QED
    BY <1>3, <2>1, <2>2 DEF Chain
<1>8. CASE a = Addr /\ first[a] # Unread
  <2>1. ~baseline
    BY <1>1, <1>3, <1>8 DEF Met
  <2>2. snap[a] = buf[item]
    BY <1>1, <1>8, <2>1 DEF Differs, Steady
  <2>3. first'[a] = first[a] /\ snap'[a] = snap[a]
    BY <1>2, <1>3, <1>8, <2>2 DEF Snaps
  <2> QED
    BY <1>5, <1>8, <2>3
<1> QED
  BY <1>6, <1>7, <1>8

\* A change that is noted starts where the one before it ended.
LEMMA LinkedNote == ASSUME Swept, Met, Linked, NoteEntry PROVE Linked'
<1>1. /\ sweep = "diff" /\ Differs /\ sweep' = "head" /\ noted' = Append(noted, Change)
      /\ torn' \in {torn, "note"} /\ UNCHANGED <<snap, first, buf, item, at, failed>>
  BY DEF NoteEntry
<1>2. /\ Addr \in Addresses /\ Addr \in Int /\ buf[item] \in Digits /\ buf[item] # Unread
      /\ snap \in Snaps /\ first \in Firsts /\ Change \in Changes /\ noted \in Seq(Changes)
  BY <1>1, HereIs, DigitsAre DEF Swept, DiagTyped
<1>3. Change.addr = Addr /\ Change.old = snap[Addr] /\ Change.new = buf[item]
  BY DEF Change
<1>4. snapNow = snap /\ firstNow = first
  BY <1>1 DEF snapNow, firstNow, Noting
<1>5. /\ snapNow' = [snap EXCEPT ![Addr] = buf[item]]
      /\ firstNow' = IF first[Addr] = Unread THEN [first EXCEPT ![Addr] = buf[item]] ELSE first
  BY <1>1 DEF snapNow, firstNow, Noting, Addr
<1> SUFFICES ASSUME torn' # "note", NEW a \in Steady
             PROVE  /\ firstNow'[a] = Unread => Mine(noted', a) = {}
                    /\ firstNow'[a] # Unread => Chain(noted', a, firstNow'[a], snapNow'[a], Loose')
  BY DEF Linked, Steady
<1>6. torn' = torn /\ torn # "note" /\ Loose' = Loose
  BY <1>1 DEF Loose
<1>7. /\ first[a] = Unread => Mine(noted, a) = {}
      /\ first[a] # Unread => Chain(noted, a, first[a], snap[a], Loose)
  BY <1>4, <1>6 DEF Linked
<1>8. CASE a # Addr
  <2>1. firstNow'[a] = first[a] /\ snapNow'[a] = snap[a]
    BY <1>2, <1>5, <1>8 DEF Snaps, Firsts, Steady
  <2>2. Mine(noted', a) = Mine(noted, a)
    BY <1>1, <1>2, <1>3, <1>8, MineGrows
  <2>3. ASSUME first[a] # Unread PROVE Chain(noted', a, first[a], snap[a], Loose)
    BY <1>1, <1>2, <1>3, <1>7, <1>8, <2>3, ChainOther
  <2> QED
    BY <1>6, <1>7, <2>1, <2>2, <2>3
<1>9. CASE a = Addr
  <2>1. snapNow'[a] = Change.new /\ Change.addr = a /\ Change.old = snap[a]
        /\ Change.old # Change.new
    BY <1>1, <1>2, <1>3, <1>5, <1>9 DEF Snaps, Differs
  <2>2. CASE first[a] = Unread
    <3>1. firstNow'[a] = Change.new
      BY <1>2, <1>3, <1>5, <1>9, <2>2 DEF Firsts
    <3>2. Mine(noted, a) = {}
      BY <1>7, <2>2
    <3>3. Loose
      <4>1. ~baseline /\ torn \in Tears
        BY <1>1 DEF Differs, Swept, DiagTyped
      <4>2. ~(torn = "no" /\ ~failed)
        BY <1>1, <1>2, <1>9, <2>2, <4>1 DEF Met, AllRead
      <4> QED
        BY <1>6, <4>1, <4>2 DEF Loose, Tears
    <3>4. Chain(noted', a, firstNow'[a], Change.new, Loose)
      BY <1>1, <1>2, <2>1, <3>1, <3>2, <3>3, ChainGrows
    <3> QED
      BY <1>2, <1>3, <1>6, <2>1, <3>1, <3>4
  <2>3. CASE first[a] # Unread
    <3>1. firstNow'[a] = first[a]
      BY <1>5, <1>9, <2>3
    <3>2. Chain(noted, a, first[a], snap[a], Loose)
      BY <1>7, <2>3
    <3>3. Mine(noted, a) = {} => Change.old = first[a]
      BY <2>1, <3>2 DEF Chain
    <3>4. Chain(noted', a, first[a], Change.new, Loose)
      BY <1>1, <1>2, <2>1, <3>2, <3>3, ChainGrows
    <3> QED
      BY <1>6, <2>1, <2>3, <3>1, <3>4
  <2> QED
    BY <2>2, <2>3
<1> QED
  BY <1>8, <1>9

LEMMA LinkedNext == ASSUME Swept, Met, Linked, SweepMoves \/ LoopMoves PROVE Linked'
<1>1. CASE \E words \in Replies : ReadBlock(words) /\ (words # <<>> => Len(words) = Quantity)
  <2>1. PICK words : ReadBlock(words)
    BY <1>1
  <2>2. /\ ~Noting /\ ~Noting' /\ UNCHANGED <<snap, first, noted, torn>> /\ (failed => failed')
    BY <2>1 DEF ReadBlock, Onward, Noting
  <2> QED
    BY <2>2, LinkedStays DEF snapNow, firstNow
<1>2. CASE StartSweep
  <2>1. ~Noting /\ ~Noting' /\ UNCHANGED <<snap, first, noted, torn, failed>>
    BY <1>2 DEF StartSweep, Noting
  <2> QED
    BY <2>1, LinkedStays DEF snapNow, firstNow
<1>3. CASE Same
  BY <1>3, LinkedSame
<1>4. CASE NoteEntry
  BY <1>4, LinkedNote
<1>5. CASE NoteHead \/ NoteCount
  <2>1. /\ Noting /\ Noting' /\ UNCHANGED <<snap, first, at, buf, item, noted, torn, failed>>
    BY <1>5 DEF NoteHead, NoteCount, Noting
  <2>2. Addr' = Addr
    BY <2>1 DEF Addr
  <2> QED
    BY <2>1, <2>2, LinkedStays DEF snapNow, firstNow
<1>6. CASE NoteStored
  <2>1. /\ Noting /\ Keep /\ sweep = "store" /\ UNCHANGED <<noted, torn, failed>>
    BY <1>6 DEF NoteStored, Noting
  <2>2. /\ snap' = [snap EXCEPT ![Addr] = buf[item]]
        /\ first' = IF first[Addr] = Unread THEN [first EXCEPT ![Addr] = buf[item]] ELSE first
        /\ sweep' \in {"idle", "read", "diff"}
    BY <2>1, KeepIs
  <2>3. ~Noting'
    BY <2>2 DEF Noting
  <2>4. snapNow' = snapNow /\ firstNow' = firstNow
    BY <2>1, <2>2, <2>3 DEF snapNow, firstNow
  <2> QED
    BY <2>1, <2>4, LinkedStays
<1>7. CASE bluetti_diag_enable(~g_diagOn) \/ TapResets \/ ResetHead \/ ResetCount
  <2>1. UNCHANGED <<sweep, snap, first, at, buf, item, noted, torn, failed>>
    BY <1>7 DEF bluetti_diag_enable, TapResets, ResetHead, ResetCount, mainElse
  <2>2. Addr' = Addr /\ Noting' = Noting
    BY <2>1 DEF Addr, Noting
  <2> QED
    BY <2>1, <2>2, LinkedStays DEF snapNow, firstNow
<1>8. CASE ResetSnap
  <2>1. /\ noted' = <<>> /\ first' = [a \in Addresses |-> Unread] /\ UNCHANGED sweep
        /\ torn' # "note" => ~Noting
    BY <1>8 DEF ResetSnap, mainElse
  <2>2. \A a : Mine(noted', a) = {}
    BY <2>1 DEF Mine
  <2>3. torn' # "note" => firstNow' = first'
    BY <2>1 DEF firstNow, Noting
  <2> QED
    BY <2>1, <2>2, <2>3 DEF Linked, Steady
<1> QED
  BY <1>1, <1>2, <1>3, <1>4, <1>5, <1>6, <1>7, <1>8 DEF SweepMoves, LoopMoves

\* diagScan() between any two of its steps: which registers have been read since
\* the baseline was taken, and how the notes of each lead to its baseline.
LEMMA LinkHolds == Spec => [](Met /\ Linked)
<1>1. Init => Met /\ Linked
  <2> SUFFICES ASSUME Init PROVE Met /\ Linked
    OBVIOUS
  <2>1. /\ sweep = "idle" /\ haveSnap = FALSE /\ noted = <<>>
        /\ first = [a \in Addresses |-> Unread]
    BY DEF Init, DiagInit
  <2>2. Met
    BY <2>1 DEF Met, AllUnread
  <2>3. \A a : Mine(noted, a) = {}
    BY <2>1 DEF Mine
  <2>4. firstNow = first
    BY <2>1 DEF firstNow, Noting
  <2> QED
    BY <2>1, <2>2, <2>3, <2>4 DEF Linked, Steady
<1>2. IInv /\ Met /\ Linked /\ [Next]_vars => (Met /\ Linked)'
  <2> SUFFICES ASSUME IInv, Met, Linked, [Next]_vars PROVE Met' /\ Linked'
    OBVIOUS
  <2>1. SweepMoves \/ LoopMoves \/ UNCHANGED diagVars
    BY DiagSteps DEF IInv
  <2>2. CASE UNCHANGED diagVars
    <3>1. Met'
      BY <2>2, MetStays DEF diagVars
    <3>2. Addr' = Addr /\ Noting' = Noting
      BY <2>2 DEF diagVars, Addr, Noting
    <3>3. snapNow' = snapNow /\ firstNow' = firstNow
      BY <2>2, <3>2 DEF diagVars, snapNow, firstNow
    <3>4. UNCHANGED <<noted, torn, failed>>
      BY <2>2 DEF diagVars
    <3> QED
      BY <3>1, <3>3, <3>4, LinkedStays
  <2> QED
    BY <2>1, <2>2, MetNext, LinkedNext DEF IInv
<1> QED
  BY <1>1, <1>2, WellTyped, PTL DEF Spec

\* The changes noted for a register lead from the first value read to the present
\* baseline without a gap, for every table of ranges and every block size; only
\* where the chain starts may differ, after a reset in a sweep or a failed read.
THEOREM ChangesAreLinked == Spec => []ChangesLink
<1>1. ASSUME IInv, Linked PROVE ChangesLink
  <2> SUFFICES ASSUME Quiet, NEW a \in Addresses, ~diagIsNoisy(a), first[a] # Unread
               PROVE  LET mine == {i \in DOMAIN noted : noted[i].addr = a}
                          next(i, j) == i < j /\ \A k \in mine : k <= i \/ j <= k
                      IN  /\ mine = {} => snap[a] = first[a]
                          /\ \A i \in mine :
                               /\ noted[i].old # noted[i].new
                               /\ (\A j \in mine : i <= j) =>
                                    \/ noted[i].old = first[a]
                                    \/ noted[i].new = first[a] /\ (torn = "sweep" \/ failed)
                               /\ (\A j \in mine : j <= i) => noted[i].new = snap[a]
                               /\ \A j \in mine : next(i, j) => noted[i].new = noted[j].old
    BY DEF ChangesLink
  <2>1. firstNow = first /\ snapNow = snap /\ torn # "note"
    BY DEF Quiet, firstNow, snapNow, Noting
  <2>2. Chain(noted, a, first[a], snap[a], Loose)
    BY <1>1, <2>1 DEF Linked, Steady
  <2> QED
    BY <2>2 DEF Chain, Follow, Mine, Loose
<1> QED
  BY <1>1, WellTyped, LinkHolds, PTL

===============================================================================
