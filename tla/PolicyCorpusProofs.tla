------------------------- MODULE PolicyCorpusProofs -------------------------
(***************************************************************************)
(* Files of any length: their chunks are bounded, and read back in order   *)
(* they are the file.                                                      *)
(***************************************************************************)
EXTENDS PolicyCorpus, DataLemmas

-----------------------------------------------------------------------------
(* Sequences                                                               *)

LEMMA Appended ==
  ASSUME NEW S, NEW s \in Seq(S), NEW e \in S
  PROVE  /\ Append(s, e) \in Seq(S) /\ Len(Append(s, e)) = Len(s) + 1
         /\ Append(s, e) # <<>>
         /\ \A k \in 1 .. Len(s) : Append(s, e)[k] = s[k]
         /\ Append(s, e)[Len(s) + 1] = e
OBVIOUS

Associates(S) == \A s, t, u \in Seq(S) : (s \o t) \o u = s \o (t \o u)

LEMMA Associative == \A S : Associates(S)
<1> SUFFICES ASSUME NEW S PROVE Associates(S)
  OBVIOUS
<1> SUFFICES ASSUME NEW s \in Seq(S), NEW t \in Seq(S), NEW u \in Seq(S)
             PROVE  (s \o t) \o u = s \o (t \o u)
  BY DEF Associates
<1> QED BY ConcatAssociative

LEMMA PrefixNext ==
  ASSUME NEW S, NEW s \in Seq(S), NEW k \in 0 .. Len(s) - 1
  PROVE  /\ SubSeq(s, 1, k) \in Seq(S) /\ s[k + 1] \in S
         /\ SubSeq(s, 1, k + 1) = Append(SubSeq(s, 1, k), s[k + 1])
<1>1. SubSeq(s, 1, k + 1) = SubSeq(s, 1, k) \o <<s[k + 1]>>
  <2>1. 1 \in 1 .. Len(s) /\ k + 1 \in 1 .. Len(s) /\ (k + 1) - 1 = k
    OBVIOUS
  <2> QED BY <2>1, SubSeqRecursiveSecond
<1>2. SubSeq(s, 1, k) \in Seq(S) /\ s[k + 1] \in S
  <2>1. \A i \in 1 .. k : s[i] \in S
    OBVIOUS
  <2> QED BY <2>1, SubSeqProperties
<1> QED BY <1>1, <1>2, AppendIsConcat

-----------------------------------------------------------------------------
(* Flattening                                                              *)

(* f[i] is what the first i sequences flatten to.                          *)
Flattens(f, S, ss) ==
  /\ f \in [1 .. Len(ss) -> Seq(S)]
  /\ f[1] = ss[1] /\ FlattenSeq(ss) = f[Len(ss)]
  /\ \A i \in 2 .. Len(ss) : f[i] = f[i - 1] \o ss[i]

LEMMA FlattenIs ==
  ASSUME NEW S, NEW ss \in Seq(Seq(S)), ss # <<>>
  PROVE  \E f : Flattens(f, S, ss)
<1> DEFINE N == Len(ss)
           Flat(f) == f = [i \in 1 .. N |-> IF i = 1 THEN ss[i] ELSE f[i - 1] \o ss[i]]
           flatten == CHOOSE f : Flat(f)
<1>1. N \in Nat /\ N > 0 /\ \A i \in 1 .. N : ss[i] \in Seq(S)
  OBVIOUS
<1>2. FlattenSeq(ss) = flatten[N]
  BY <1>1 DEF FlattenSeq
<1>3. \E f : Flat(f)
  <2> DEFINE step == [p \in Seq(S) \X (1 .. N) |-> p[1] \o ss[p[2]]]
  <2>1. step \in [Seq(S) \X (1 .. N) -> Seq(S)]
    <3> SUFFICES ASSUME NEW p \in Seq(S) \X (1 .. N) PROVE p[1] \o ss[p[2]] \in Seq(S)
      OBVIOUS
    <3>1. p[1] \in Seq(S) /\ ss[p[2]] \in Seq(S)
      BY <1>1
    <3> QED BY <3>1, ConcatProperties
  <2>2. \A x \in Seq(S), n \in 1 .. N : step[<<x, n>>] = x \o ss[n]
    OBVIOUS
  <2>3. <<>> \in Seq(S)
    OBVIOUS
  <2> DEFINE X == Seq(S)
             empty == <<>>
  <2>x. N \in Nat /\ step \in [X \X (1 .. N) -> X] /\ empty \in X
    BY <1>1, <2>1, <2>3
  <2> HIDE DEF step, N, X, empty
  <2>y. PICK f : Recurses(f, X, empty, N, step)
    BY <2>x, Recursion
  <2>4. /\ f \in [0 .. N -> Seq(S)] /\ f[0] = <<>>
        /\ \A n \in 1 .. N : f[n] = step[<<f[n - 1], n>>]
    BY Zenon, <2>y DEF Recurses, X, empty
  <2> DEFINE g == [i \in 1 .. N |-> f[i]]
  <2>5. ASSUME NEW i \in 1 .. N
        PROVE  g[i] = IF i = 1 THEN ss[i] ELSE g[i - 1] \o ss[i]
    <3>0. i - 1 \in 0 .. N /\ i \in 1 .. N
      BY <2>x
    <3>1. f[i - 1] \in Seq(S) /\ f[i] = f[i - 1] \o ss[i] /\ g[i] = f[i]
      <4>1. f[i - 1] \in Seq(S) /\ f[i] = step[<<f[i - 1], i>>]
        BY Zenon, <3>0, <2>4
      <4>2. step[<<f[i - 1], i>>] = f[i - 1] \o ss[i]
        BY Zenon, <4>1, <2>2
      <4> QED BY Zenon, <4>1, <4>2
    <3>2. CASE i = 1
      <4>1. f[i] = <<>> \o ss[i] /\ ss[i] \in Seq(S)
        <5>1. i - 1 = 0
          BY <3>2
        <5> QED BY Zenon, <3>1, <5>1, <2>4, <1>1 DEF N
      <4> QED BY <4>1, <3>1, <3>2, ConcatEmptySeq
    <3>3. CASE i # 1
      <4>1. g[i - 1] = f[i - 1]
        BY <3>3, <1>1
      <4> QED BY <4>1, <3>1, <3>3
    <3> QED BY <3>2, <3>3
  <2>6. Flat(g)
    <3>1. g = [i \in 1 .. N |-> g[i]]
      OBVIOUS
    <3> HIDE DEF g
    <3> QED BY <3>1, <2>5, Zenon
  <2> QED BY <2>6
<1>4. Flat(flatten)
  BY <1>3
<1> HIDE DEF flatten
<1>5. \A i \in 1 .. N : flatten[i] = IF i = 1 THEN ss[i] ELSE flatten[i - 1] \o ss[i]
  BY <1>4
<1>6. \A i \in 1 .. N : flatten[i] \in Seq(S)
  <2> DEFINE T == {i \in Nat : flatten[i] \in Seq(S)}
  <2>1. 1 \in T
    <3>1. 1 \in 1 .. N /\ ss[1] \in Seq(S)
      BY <1>1
    <3> QED BY <3>1, <1>5
  <2>2. ASSUME NEW k \in 1 .. N - 1, k \in T
        PROVE  k + 1 \in T
    <3>1. k + 1 \in 1 .. N /\ k + 1 # 1 /\ (k + 1) - 1 = k /\ k + 1 \in Nat
      BY <1>1
    <3>2. flatten[k + 1] = flatten[k] \o ss[k + 1]
      BY <3>1, <1>5
    <3>3. flatten[k] \in Seq(S) /\ ss[k + 1] \in Seq(S)
      BY <2>2, <3>1, <1>1
    <3>4. flatten[k + 1] \in Seq(S)
      BY <3>2, <3>3, ConcatProperties
    <3> QED BY <3>1, <3>4
  <2> HIDE DEF T
  <2>3. \A k \in 1 .. N : k \in T
    BY <1>1, <2>1, <2>2, Onward
  <2> QED BY <2>3 DEF T
<1>7. flatten \in [1 .. N -> Seq(S)]
  <2>1. DOMAIN flatten = 1 .. N /\ flatten = [i \in 1 .. N |-> flatten[i]]
    BY <1>4
  <2> QED BY <2>1, <1>6
<1>8. ASSUME NEW i \in 2 .. N
      PROVE  flatten[i] = flatten[i - 1] \o ss[i]
  <2>1. i \in 1 .. N /\ i # 1
    OBVIOUS
  <2> QED BY <2>1, <1>5
<1>9. flatten[1] = ss[1]
  <2>1. 1 \in 1 .. N
    BY <1>1
  <2> QED BY <2>1, <1>5
<1> QED BY Zenon, <1>2, <1>7, <1>8, <1>9 DEF Flattens

LEMMA FlattenNone == FlattenSeq(<<>>) = <<>>
BY DEF FlattenSeq

LEMMA FlattenType ==
  ASSUME NEW S, NEW ss \in Seq(Seq(S))
  PROVE  FlattenSeq(ss) \in Seq(S)
<1>1. CASE ss = <<>>
  BY <1>1, FlattenNone, EmptySeq
<1>2. CASE ss # <<>>
  <2>1. PICK f : f \in [1 .. Len(ss) -> Seq(S)] /\ FlattenSeq(ss) = f[Len(ss)]
    BY Zenon, <1>2, FlattenIs DEF Flattens
  <2>2. Len(ss) \in 1 .. Len(ss)
    BY <1>2
  <2> QED BY <2>1, <2>2
<1> QED BY <1>1, <1>2

LEMMA FlattenAppend ==
  ASSUME NEW S, NEW ss \in Seq(Seq(S)), NEW t \in Seq(S)
  PROVE  FlattenSeq(Append(ss, t)) = FlattenSeq(ss) \o t
<1> DEFINE tt == Append(ss, t)
           N  == Len(ss)
<1>1. /\ tt \in Seq(Seq(S)) /\ tt # <<>> /\ Len(tt) = N + 1 /\ N \in Nat
      /\ tt[N + 1] = t /\ \A i \in 1 .. N : tt[i] = ss[i]
  <2> DEFINE Y == Seq(S)
  <2>1. ss \in Seq(Y) /\ t \in Y /\ N \in Nat
    OBVIOUS
  <2> HIDE DEF Y
  <2>2. /\ tt \in Seq(Y) /\ Len(tt) = N + 1 /\ tt # <<>>
        /\ tt[N + 1] = t /\ \A i \in 1 .. N : tt[i] = ss[i]
    BY <2>1, Appended
  <2> QED BY <2>1, <2>2 DEF Y
<1> HIDE DEF tt
<1>2. PICK g :
        /\ g \in [1 .. N + 1 -> Seq(S)]
        /\ g[1] = tt[1] /\ FlattenSeq(tt) = g[N + 1]
        /\ \A i \in 2 .. N + 1 : g[i] = g[i - 1] \o tt[i]
  <2>1. PICK g : Flattens(g, S, tt)
    BY <1>1, FlattenIs
  <2>2. Len(tt) = N + 1
    BY <1>1
  <2> QED BY Zenon, <2>1, <2>2 DEF Flattens
<1>3. CASE ss = <<>>
  <2>1. N = 0 /\ FlattenSeq(tt) = t
    BY <1>1, <1>2, <1>3
  <2>2. FlattenSeq(ss) \o t = t
    BY <1>3, FlattenNone, ConcatEmptySeq
  <2> QED BY <2>1, <2>2 DEF tt
<1>4. CASE ss # <<>>
  <2>1. PICK f :
          /\ f \in [1 .. N -> Seq(S)]
          /\ f[1] = ss[1] /\ FlattenSeq(ss) = f[N]
          /\ \A i \in 2 .. N : f[i] = f[i - 1] \o ss[i]
    BY Zenon, <1>4, FlattenIs DEF Flattens
  <2>2. N > 0
    BY <1>4
  <2> DEFINE T == {i \in Nat : f[i] = g[i]}
  <2>3. 1 \in T
    BY <1>1, <1>2, <2>1, <2>2
  <2>4. ASSUME NEW k \in 1 .. N - 1, k \in T
        PROVE  k + 1 \in T
    <3>1. k + 1 \in 2 .. N /\ k + 1 \in 2 .. N + 1 /\ (k + 1) - 1 = k /\ k + 1 \in Nat /\ k + 1 \in 1 .. N
      BY <1>1
    <3>2. f[k + 1] = f[k] \o ss[k + 1] /\ g[k + 1] = g[k] \o tt[k + 1]
      BY <1>2, <2>1, <3>1
    <3>3. tt[k + 1] = ss[k + 1] /\ f[k] = g[k]
      BY <1>1, <2>4, <3>1
    <3> QED BY <3>1, <3>2, <3>3
  <2> HIDE DEF T
  <2>5. \A k \in 1 .. N : k \in T
    BY <1>1, <2>2, <2>3, <2>4, Onward
  <2>6. f[N] = g[N]
    BY <1>1, <2>2, <2>5 DEF T
  <2>7. g[N + 1] = g[N] \o t
    <3>1. N + 1 \in 2 .. N + 1 /\ (N + 1) - 1 = N
      BY <1>1, <2>2
    <3> QED BY <3>1, <1>1, <1>2
  <2> QED BY <1>2, <2>1, <2>6, <2>7 DEF tt
<1> QED BY <1>3, <1>4

-----------------------------------------------------------------------------
(* The size of a text                                                      *)

Sums(u, text) ==
  /\ u \in [0 .. Len(text) -> Nat] /\ u[0] = 0 /\ Sum(text) = u[Len(text)]
  /\ \A n \in 1 .. Len(text) : u[n] = u[n - 1] + text[n]

LEMMA SumIs ==
  ASSUME NEW text \in Seq(Nat)
  PROVE  \E u : Sums(u, text)
<1> DEFINE N == Len(text)
           Eq(u) == u = [n \in 0 .. N |-> IF n = 0 THEN 0 ELSE u[n - 1] + text[n]]
           upto == CHOOSE u : Eq(u)
<1>1. N \in Nat /\ \A n \in 1 .. N : text[n] \in Nat
  OBVIOUS
<1>2. Sum(text) = upto[N]
  BY DEF Sum
<1>3. \E u : Eq(u)
  <2> DEFINE step == [p \in Nat \X (1 .. N) |-> p[1] + text[p[2]]]
  <2>1. step \in [Nat \X (1 .. N) -> Nat]
    BY <1>1
  <2>2. \A x \in Nat, n \in 1 .. N : step[<<x, n>>] = x + text[n]
    OBVIOUS
  <2> HIDE DEF step, N
  <2>3. PICK u : Recurses(u, Nat, 0, N, step)
    BY <1>1, <2>1, Recursion
  <2>4. u \in [0 .. N -> Nat] /\ u[0] = 0
    BY <2>3 DEF Recurses
  <2>5. ASSUME NEW n \in 0 .. N
        PROVE  u[n] = IF n = 0 THEN 0 ELSE u[n - 1] + text[n]
    <3>1. CASE n = 0
      BY <2>4, <3>1
    <3>2. CASE n # 0
      <4>1. n \in 1 .. N /\ n - 1 \in 0 .. N
        BY <1>1, <3>2
      <4>2. u[n] = step[<<u[n - 1], n>>] /\ u[n - 1] \in Nat
        BY Zenon, <2>3, <2>4, <4>1 DEF Recurses
      <4> QED BY Zenon, <4>1, <4>2, <2>2, <3>2
    <3> QED BY <3>1, <3>2
  <2>6. u = [n \in 0 .. N |-> u[n]]
    BY <2>4
  <2>7. Eq(u)
    BY Zenon, <2>5, <2>6
  <2> QED BY <2>7
<1>4. Eq(upto)
  BY <1>3
<1> HIDE DEF upto, N
<1>5. \A n \in 0 .. N : upto[n] = IF n = 0 THEN 0 ELSE upto[n - 1] + text[n]
  BY <1>4
<1>6. upto[0] = 0
  BY <1>1, <1>5, 0 \in 0 .. N
<1>7. ASSUME NEW n \in 1 .. N
      PROVE  upto[n] = upto[n - 1] + text[n]
  <2>1. n \in 0 .. N /\ n # 0
    OBVIOUS
  <2> QED BY <2>1, <1>5
<1>8. \A n \in 0 .. N : upto[n] \in Nat
  <2> DEFINE T == {n \in Nat : upto[n] \in Nat}
  <2>1. 0 \in T
    BY <1>6
  <2>2. ASSUME NEW k \in 0 .. N - 1, k \in T
        PROVE  k + 1 \in T
    <3>1. k + 1 \in 1 .. N /\ (k + 1) - 1 = k /\ k + 1 \in Nat
      BY <1>1
    <3>2. upto[k + 1] = upto[k] + text[k + 1]
      BY <3>1, <1>7
    <3>3. upto[k] \in Nat /\ text[k + 1] \in Nat
      BY <2>2, <3>1, <1>1
    <3>4. upto[k + 1] \in Nat
      BY <3>2, <3>3
    <3> QED BY <3>1, <3>4
  <2> HIDE DEF T
  <2>3. \A k \in 0 .. N : k \in T
    BY <1>1, <2>1, <2>2, Onward
  <2> QED BY <2>3 DEF T
<1>9. upto \in [0 .. N -> Nat]
  <2>1. DOMAIN upto = 0 .. N /\ upto = [n \in 0 .. N |-> upto[n]]
    BY <1>4
  <2> QED BY <2>1, <1>8
<1> QED BY Zenon, <1>2, <1>6, <1>7, <1>9 DEF Sums, N

LEMMA SumNone == Sum(<<>>) = 0
<1>1. <<>> \in Seq(Nat) /\ Len(<<>>) = 0
  OBVIOUS
<1>2. PICK u : Sums(u, <<>>)
  BY <1>1, SumIs
<1> QED BY Zenon, <1>1, <1>2 DEF Sums

LEMMA SumNext ==
  ASSUME NEW text \in Seq(Nat), NEW p \in Nat
  PROVE  Sum(text) \in Nat /\ Sum(Append(text, p)) = Sum(text) + p
<1> DEFINE N == Len(text)
           more == Append(text, p)
<1>1. /\ more \in Seq(Nat) /\ Len(more) = N + 1 /\ more[N + 1] = p /\ N \in Nat
      /\ \A n \in 1 .. N : more[n] = text[n]
  BY Appended
<1> HIDE DEF more
<1>2. PICK u : Sums(u, text)
  BY SumIs
<1>3. PICK w : Sums(w, more)
  BY <1>1, SumIs
<1>4. /\ u \in [0 .. N -> Nat] /\ u[0] = 0 /\ Sum(text) = u[N]
      /\ \A n \in 1 .. N : u[n] = u[n - 1] + text[n]
  BY Zenon, <1>2 DEF Sums
<1>5. /\ w[0] = 0 /\ Sum(more) = w[N + 1]
      /\ \A n \in 1 .. N + 1 : w[n] = w[n - 1] + more[n]
  BY Zenon, <1>1, <1>3 DEF Sums
<1> DEFINE T == {n \in Nat : u[n] = w[n]}
<1>6. 0 \in T
  BY Zenon, <1>4, <1>5, 0 \in Nat
<1> HIDE DEF N
<1>7. ASSUME NEW k \in 0 .. N - 1, k \in T
      PROVE  k + 1 \in T
  <2>1. k + 1 \in 1 .. N /\ k + 1 \in 1 .. N + 1 /\ (k + 1) - 1 = k /\ k + 1 \in Nat
    BY <1>1
  <2>2. u[k + 1] = u[(k + 1) - 1] + text[k + 1] /\ w[k + 1] = w[(k + 1) - 1] + more[k + 1]
    BY Zenon, <2>1, <1>4, <1>5
  <2>3. u[k] = w[k] /\ text[k + 1] = more[k + 1]
    BY Zenon, <1>1, <1>7, <2>1
  <2>4. u[k + 1] = w[k + 1]
    BY Zenon, <2>1, <2>2, <2>3
  <2> QED BY <2>1, <2>4
<1> HIDE DEF T
<1>8. \A k \in 0 .. N : k \in T
  BY <1>1, <1>6, <1>7, Onward
<1>9. N \in 0 .. N /\ N + 1 \in 1 .. N + 1 /\ (N + 1) - 1 = N
  BY <1>1
<1>10. u[N] = w[N]
  BY Zenon, <1>8, <1>9 DEF T
<1>11. w[N + 1] = w[(N + 1) - 1] + more[N + 1]
  BY Zenon, <1>5, <1>9
<1>12. Sum(more) = Sum(text) + p
  BY Zenon, <1>1, <1>4, <1>5, <1>9, <1>10, <1>11
<1>13. Sum(text) \in Nat
  BY <1>4, <1>9
<1> QED BY <1>12, <1>13 DEF more

LEMMA SizeNext ==
  ASSUME NEW text \in Seq(Nat), NEW p \in Nat
  PROVE  /\ Size(text) \in Nat
         /\ Size(Append(text, p)) = Size(text) + p + (IF text = <<>> THEN 0 ELSE 2)
<1>1. Sum(text) \in Nat /\ Sum(Append(text, p)) = Sum(text) + p
  BY SumNext
<1>2. /\ Append(text, p) # <<>> /\ Len(Append(text, p)) = Len(text) + 1
      /\ Len(text) \in Nat /\ (text = <<>> => Len(text) = 0)
      /\ text # <<>> => Len(text) > 0
  OBVIOUS
<1> DEFINE more == Append(text, p)
<1> HIDE DEF more
<1>3. /\ more # <<>> /\ Len(more) = Len(text) + 1 /\ Sum(more) = Sum(text) + p
  BY <1>1, <1>2 DEF more
<1>4. CASE text = <<>>
  <2>1. Size(more) = Sum(more) + 2 * (Len(more) - 1) /\ Size(text) = Sum(text) + 2 * 0
    BY Zenon, <1>3, <1>4 DEF Size
  <2> QED BY <1>1, <1>2, <1>3, <1>4, <2>1 DEF more
<1>5. CASE text # <<>>
  <2>1. Size(more) = Sum(more) + 2 * (Len(more) - 1) /\ Size(text) = Sum(text) + 2 * (Len(text) - 1)
    BY Zenon, <1>3, <1>5 DEF Size
  <2> QED BY <1>1, <1>2, <1>3, <1>5, <2>1 DEF more
<1> QED BY <1>4, <1>5

-----------------------------------------------------------------------------
(* Chunks                                                                  *)

Bounded(text) == Len(text) = 1 \/ Size(text) <= max_chars + 2

Chunked == Seq(Seq(Nat)) \X Seq(Nat)

(* acc holds the given paragraphs, in chunks that are bounded.             *)
Holds(acc, text) ==
  /\ acc \in Chunked
  /\ FlattenSeq(acc[1]) \o acc[2] = text
  /\ \A i \in DOMAIN acc[1] : Bounded(acc[1][i])
  /\ acc[2] = <<>> \/ Bounded(acc[2])

LEMMA AddType ==
  ASSUME NEW acc \in Chunked, NEW p \in Nat
  PROVE  AddParagraph(acc, p) \in Chunked
<1>1. acc[1] \in Seq(Seq(Nat)) /\ acc[2] \in Seq(Nat) /\ <<p>> \in Seq(Nat)
  BY DEF Chunked
<1>2. Append(acc[1], acc[2]) \in Seq(Seq(Nat)) /\ Append(acc[2], p) \in Seq(Nat)
  BY <1>1
<1> QED BY Zenon, <1>1, <1>2 DEF AddParagraph, Chunked

LEMMA AddHolds ==
  ASSUME NEW acc, NEW text \in Seq(Nat), NEW p \in Nat, Holds(acc, text)
  PROVE  Holds(AddParagraph(acc, p), Append(text, p))
<1> DEFINE done == acc[1]
           current == acc[2]
           next == AddParagraph(acc, p)
<1>1. /\ acc \in Chunked /\ done \in Seq(Seq(Nat)) /\ current \in Seq(Nat) /\ <<p>> \in Seq(Nat)
      /\ FlattenSeq(done) \o current = text
      /\ \A i \in DOMAIN done : Bounded(done[i])
      /\ current = <<>> \/ Bounded(current)
  BY DEF Holds, Chunked
<1>2. next \in Chunked
  BY <1>1, AddType
<1>3. Append(text, p) = text \o <<p>>
  BY AppendIsConcat
<1>4. FlattenSeq(done) \in Seq(Nat)
  BY <1>1, FlattenType
<1> HIDE DEF done, current
<1>5. CASE Full(current, p)
  <2> DEFINE more == Append(done, current)
             one == <<p>>
  <2>1. next[1] = more /\ next[2] = one
    BY <1>5 DEF AddParagraph, done, current
  <2>2. /\ Len(more) = Len(done) + 1 /\ more[Len(done) + 1] = current
        /\ \A i \in 1 .. Len(done) : more[i] = done[i]
        /\ DOMAIN more = 1 .. Len(done) + 1 /\ DOMAIN done = 1 .. Len(done) /\ Len(done) \in Nat
    <3> DEFINE Y == Seq(Nat)
    <3>1. done \in Seq(Y) /\ current \in Y
      BY <1>1
    <3> HIDE DEF Y
    <3> QED BY <3>1, Appended
  <2>3. FlattenSeq(more) = FlattenSeq(done) \o current
    BY <1>1, FlattenAppend
  <2> HIDE DEF more, one
  <2>4. FlattenSeq(next[1]) \o next[2] = Append(text, p)
    BY Zenon, <1>1, <1>3, <2>1, <2>3 DEF one
  <2>5. \A i \in DOMAIN next[1] : Bounded(next[1][i])
    <3>1. current # <<>>
      BY <1>5 DEF Full
    <3>2. ASSUME NEW i \in DOMAIN more
          PROVE  Bounded(more[i])
      <4>1. CASE i \in 1 .. Len(done)
        BY Zenon, <4>1, <2>2, <1>1
      <4>2. CASE i = Len(done) + 1
        BY Zenon, <4>2, <2>2, <1>1, <3>1
      <4> QED BY <4>1, <4>2, <2>2
    <3> QED BY Zenon, <2>1, <3>2
  <2>6. Bounded(next[2])
    <3>1. Len(one) = 1
      BY DEF one
    <3> QED BY Zenon, <2>1, <3>1 DEF Bounded
  <2> QED BY Zenon, <1>2, <2>4, <2>5, <2>6 DEF Holds
<1>6. CASE ~Full(current, p)
  <2> DEFINE more == Append(current, p)
  <2>1. next[1] = done /\ next[2] = more
    BY <1>6 DEF AddParagraph, done, current
  <2>2. more = current \o <<p>>
    BY <1>1, AppendIsConcat
  <2>3. FlattenSeq(done) \o (current \o <<p>>) = (FlattenSeq(done) \o current) \o <<p>>
    BY <1>1, <1>4, ConcatAssociative
  <2>4. FlattenSeq(next[1]) \o next[2] = Append(text, p)
    BY Zenon, <1>1, <1>3, <2>1, <2>2, <2>3
  <2>5. Size(current) \in Nat /\ Size(more) = Size(current) + p + (IF current = <<>> THEN 0 ELSE 2)
    BY <1>1, SizeNext
  <2>6. Bounded(more)
    <3>1. CASE current = <<>>
      <4>1. Len(more) = 1
        BY <3>1
      <4> QED BY <4>1 DEF Bounded
    <3>2. CASE current # <<>>
      <4>1. ~(Size(current) + p > max_chars) /\ max_chars \in Nat
        BY <1>6, <3>2, CorpusAssumption DEF Full
      <4> HIDE DEF more
      <4>2. Size(more) <= max_chars + 2
        BY <4>1, <2>5, <3>2
      <4> QED BY <4>2 DEF Bounded
    <3> QED BY <3>1, <3>2
  <2> HIDE DEF more
  <2> QED BY Zenon, <1>1, <1>2, <2>1, <2>4, <2>6 DEF Holds
<1> QED BY <1>5, <1>6

LEMMA LoopHolds ==
  ASSUME NEW paragraphs \in Seq(Nat)
  PROVE  Holds(Loop(paragraphs), paragraphs)
<1> DEFINE N == Len(paragraphs)
           empty == <<<<>>, <<>>>>
           Eq(a) == a = [n \in 0 .. N |-> IF n = 0 THEN empty ELSE AddParagraph(a[n - 1], paragraphs[n])]
           acc == CHOOSE a : Eq(a)
<1>1. N \in Nat /\ \A n \in 1 .. N : paragraphs[n] \in Nat
  OBVIOUS
<1>2. Loop(paragraphs) = acc[N]
  BY DEF Loop
<1>3. empty \in Chunked
  <2>1. <<>> \in Seq(Seq(Nat)) /\ <<>> \in Seq(Nat)
    BY EmptySeq
  <2> QED BY Zenon, <2>1 DEF Chunked
<1>4. Holds(empty, <<>>)
  <2>1. empty[1] = <<>> /\ empty[2] = <<>> /\ DOMAIN empty[1] = {}
    OBVIOUS
  <2>2. <<>> \o <<>> = <<>>
    BY ConcatEmptySeq, EmptySeq
  <2> HIDE DEF empty
  <2>3. FlattenSeq(empty[1]) \o empty[2] = <<>>
    BY Zenon, <2>1, <2>2, FlattenNone
  <2> QED BY Zenon, <1>3, <2>1, <2>3 DEF Holds
<1> HIDE DEF empty
<1>5. \E a : Eq(a)
  <2> DEFINE step == [p \in Chunked \X (1 .. N) |-> AddParagraph(p[1], paragraphs[p[2]])]
  <2>1. step \in [Chunked \X (1 .. N) -> Chunked]
    <3> SUFFICES ASSUME NEW p \in Chunked \X (1 .. N)
                 PROVE  AddParagraph(p[1], paragraphs[p[2]]) \in Chunked
      OBVIOUS
    <3>1. p[1] \in Chunked /\ paragraphs[p[2]] \in Nat
      BY <1>1
    <3> QED BY <3>1, AddType
  <2>2. \A x \in Chunked, n \in 1 .. N : step[<<x, n>>] = AddParagraph(x, paragraphs[n])
    OBVIOUS
  <2> HIDE DEF step, N
  <2>3. PICK a : Recurses(a, Chunked, empty, N, step)
    BY <1>1, <1>3, <2>1, Recursion
  <2>4. a \in [0 .. N -> Chunked] /\ a[0] = empty
    BY <2>3 DEF Recurses
  <2>5. ASSUME NEW n \in 0 .. N
        PROVE  a[n] = IF n = 0 THEN empty ELSE AddParagraph(a[n - 1], paragraphs[n])
    <3>1. CASE n = 0
      BY <2>4, <3>1
    <3>2. CASE n # 0
      <4>1. n \in 1 .. N /\ n - 1 \in 0 .. N
        BY <1>1, <3>2
      <4>2. a[n] = step[<<a[n - 1], n>>] /\ a[n - 1] \in Chunked
        BY Zenon, <2>3, <2>4, <4>1 DEF Recurses
      <4> QED BY Zenon, <4>1, <4>2, <2>2, <3>2
    <3> QED BY <3>1, <3>2
  <2>6. a = [n \in 0 .. N |-> a[n]]
    BY <2>4
  <2>7. Eq(a)
    BY Zenon, <2>5, <2>6
  <2> QED BY <2>7
<1>6. Eq(acc)
  BY <1>5
<1> HIDE DEF acc, N
<1>7. \A n \in 0 .. N :
        acc[n] = IF n = 0 THEN empty ELSE AddParagraph(acc[n - 1], paragraphs[n])
  BY <1>6
<1> DEFINE T == {n \in Nat : Holds(acc[n], SubSeq(paragraphs, 1, n))}
<1>8. 0 \in T
  <2>1. SubSeq(paragraphs, 1, 0) = <<>>
    BY SubSeqEmpty
  <2>2. acc[0] = empty
    BY <1>1, <1>7, 0 \in 0 .. N
  <2>3. Holds(acc[0], SubSeq(paragraphs, 1, 0))
    BY Zenon, <1>4, <2>1, <2>2
  <2> QED BY <2>3
<1>9. ASSUME NEW k \in 0 .. N - 1, k \in T
      PROVE  k + 1 \in T
  <2>1. k + 1 \in 0 .. N /\ k + 1 # 0 /\ (k + 1) - 1 = k /\ k + 1 \in Nat /\ k + 1 \in 1 .. N
    BY <1>1
  <2>2. acc[k + 1] = AddParagraph(acc[k], paragraphs[k + 1])
    BY <1>7, <2>1
  <2>3. /\ SubSeq(paragraphs, 1, k) \in Seq(Nat) /\ paragraphs[k + 1] \in Nat
        /\ SubSeq(paragraphs, 1, k + 1) = Append(SubSeq(paragraphs, 1, k), paragraphs[k + 1])
    BY PrefixNext DEF N
  <2>4. Holds(acc[k], SubSeq(paragraphs, 1, k))
    BY <1>9
  <2>5. Holds(acc[k + 1], SubSeq(paragraphs, 1, k + 1))
    <3> DEFINE text == SubSeq(paragraphs, 1, k)
               p == paragraphs[k + 1]
    <3>1. text \in Seq(Nat) /\ p \in Nat /\ Holds(acc[k], text)
      BY <2>3, <2>4
    <3> HIDE DEF text, p
    <3>2. Holds(AddParagraph(acc[k], p), Append(text, p))
      BY <3>1, AddHolds
    <3> QED BY Zenon, <3>2, <2>2, <2>3 DEF text, p
  <2> QED BY <2>1, <2>5
<1> HIDE DEF T
<1>10. \A k \in 0 .. N : k \in T
  BY <1>1, <1>8, <1>9, Onward
<1>11. Holds(acc[N], SubSeq(paragraphs, 1, N))
  BY <1>1, <1>10, N \in 0 .. N DEF T
<1>12. SubSeq(paragraphs, 1, N) = paragraphs
  BY SubSeqFull DEF N
<1> QED BY Zenon, <1>2, <1>11, <1>12

(* The chunks of a file are the file, and none is larger than max_chars by *)
(* more than a separator unless it is one paragraph.                       *)
LEMMA ChunksHold ==
  ASSUME NEW paragraphs \in Seq(Nat)
  PROVE  /\ chunk_text(paragraphs) \in Seq(Seq(Nat))
         /\ FlattenSeq(chunk_text(paragraphs)) = paragraphs
         /\ \A i \in DOMAIN chunk_text(paragraphs) : Bounded(chunk_text(paragraphs)[i])
<1> DEFINE acc == Loop(paragraphs)
           done == acc[1]
           current == acc[2]
           texts == chunk_text(paragraphs)
<1>1. /\ done \in Seq(Seq(Nat)) /\ current \in Seq(Nat)
      /\ FlattenSeq(done) \o current = paragraphs
      /\ \A i \in DOMAIN done : Bounded(done[i])
      /\ current = <<>> \/ Bounded(current)
  BY LoopHolds DEF Holds, Chunked
<1>2. FlattenSeq(done) \in Seq(Nat)
  BY <1>1, FlattenType
<1>3. texts = IF current = <<>> THEN done ELSE Append(done, current)
  BY DEF chunk_text
<1> HIDE DEF done, current, texts
<1>4. CASE current = <<>>
  <2>1. FlattenSeq(done) \o current = FlattenSeq(done)
    BY <1>2, <1>4, ConcatEmptySeq
  <2> QED BY <1>1, <1>3, <1>4, <2>1 DEF texts
<1>5. CASE current # <<>>
  <2> DEFINE Y == Seq(Nat)
  <2>1. done \in Seq(Y) /\ current \in Y /\ texts = Append(done, current)
    BY <1>1, <1>3, <1>5
  <2>2. FlattenSeq(texts) = FlattenSeq(done) \o current
    BY <2>1, FlattenAppend
  <2> HIDE DEF Y
  <2>3. /\ texts \in Seq(Y) /\ texts[Len(done) + 1] = current
        /\ \A i \in 1 .. Len(done) : texts[i] = done[i]
        /\ DOMAIN texts = 1 .. Len(done) + 1 /\ DOMAIN done = 1 .. Len(done) /\ Len(done) \in Nat
    BY <2>1, Appended
  <2>4. ASSUME NEW i \in DOMAIN texts
        PROVE  Bounded(texts[i])
    <3>1. CASE i \in 1 .. Len(done)
      BY Zenon, <3>1, <2>3, <1>1
    <3>2. CASE i = Len(done) + 1
      BY Zenon, <3>2, <2>3, <1>1, <1>5
    <3> QED BY <3>1, <3>2, <2>3
  <2> QED BY Zenon, <1>1, <2>2, <2>3, <2>4 DEF texts, Y
<1> QED BY <1>4, <1>5

-----------------------------------------------------------------------------
(* What a flattened sequence is made of                                    *)

(* Each element of s is one of those sequences of ss whose index is in M.  *)
AllFrom(s, ss, M) ==
  \A i \in DOMAIN s : \E m \in M : \E k \in DOMAIN ss[m] : s[i] = ss[m][k]

LEMMA FromBoth ==
  ASSUME NEW S, NEW u \in Seq(S), NEW v \in Seq(S), NEW ss, NEW M, NEW N,
         AllFrom(u, ss, M), AllFrom(v, ss, N), M \subseteq N
  PROVE  AllFrom(u \o v, ss, N)
<1> DEFINE w == u \o v
<1>1. /\ w \in Seq(S) /\ Len(w) = Len(u) + Len(v) /\ Len(u) \in Nat /\ Len(v) \in Nat
      /\ \A k \in 1 .. Len(u) + Len(v) : w[k] = IF k <= Len(u) THEN u[k] ELSE v[k - Len(u)]
      /\ DOMAIN u = 1 .. Len(u) /\ DOMAIN v = 1 .. Len(v)
  BY ConcatProperties
<1>2. DOMAIN w = 1 .. Len(u) + Len(v)
  BY <1>1
<1> HIDE DEF w
<1>3. ASSUME NEW i \in DOMAIN w
      PROVE  (\E k \in DOMAIN u : w[i] = u[k]) \/ (\E k \in DOMAIN v : w[i] = v[k])
  <2>1. CASE i <= Len(u)
    <3>1. i \in DOMAIN u /\ w[i] = u[i]
      BY <1>1, <1>2, <2>1
    <3> QED BY <3>1
  <2>2. CASE ~(i <= Len(u))
    <3>1. i - Len(u) \in DOMAIN v /\ w[i] = v[i - Len(u)]
      BY <1>1, <1>2, <2>2
    <3> QED BY <3>1
  <2> QED BY <2>1, <2>2
<1>4. ASSUME NEW i \in DOMAIN w
      PROVE  \E m \in N : \E k \in DOMAIN ss[m] : w[i] = ss[m][k]
  <2>1. CASE \E k \in DOMAIN u : w[i] = u[k]
    <3>1. PICK k \in DOMAIN u : w[i] = u[k]
      BY <2>1
    <3>2. PICK m \in M : \E l \in DOMAIN ss[m] : u[k] = ss[m][l]
      BY Zenon DEF AllFrom
    <3> QED BY Zenon, <3>1, <3>2
  <2>2. CASE \E k \in DOMAIN v : w[i] = v[k]
    <3>1. PICK k \in DOMAIN v : w[i] = v[k]
      BY <2>2
    <3>2. PICK m \in N : \E l \in DOMAIN ss[m] : v[k] = ss[m][l]
      BY Zenon DEF AllFrom
    <3> QED BY Zenon, <3>1, <3>2
  <2> QED BY Zenon, <1>3, <2>1, <2>2
<1>5. AllFrom(w, ss, N)
  BY Zenon, <1>4 DEF AllFrom
<1> QED BY <1>5 DEF w

LEMMA FlattenFrom ==
  ASSUME NEW S, NEW ss \in Seq(Seq(S)), NEW j \in 0 .. Len(ss)
  PROVE  /\ SubSeq(ss, 1, j) \in Seq(Seq(S))
         /\ AllFrom(FlattenSeq(SubSeq(ss, 1, j)), ss, 1 .. j)
<1> DEFINE Y == Seq(S)
           part(m) == SubSeq(ss, 1, m)
           N == Len(ss)
           T == {m \in Nat : part(m) \in Seq(Y) /\ AllFrom(FlattenSeq(part(m)), ss, 1 .. m)}
<1>1. N \in Nat /\ ss \in Seq(Y) /\ \A m \in 1 .. N : ss[m] \in Seq(S) /\ ss[m] \in Y
  OBVIOUS
<1>2. 0 \in T
  <2>1. part(0) = <<>>
    BY SubSeqEmpty
  <2>2. <<>> \in Seq(Y) /\ DOMAIN <<>> = {}
    OBVIOUS
  <2> HIDE DEF Y, part
  <2>3. part(0) \in Seq(Y) /\ AllFrom(FlattenSeq(part(0)), ss, 1 .. 0)
    BY Zenon, <2>1, <2>2, FlattenNone DEF AllFrom
  <2> QED BY <2>3
<1> HIDE DEF Y
<1>3. ASSUME NEW k \in 0 .. N - 1, k \in T
      PROVE  k + 1 \in T
  <2>1. part(k) \in Seq(Y) /\ ss[k + 1] \in Y /\ part(k + 1) = Append(part(k), ss[k + 1])
    BY <1>1, PrefixNext
  <2>2. k + 1 \in Nat /\ 1 .. k \subseteq 1 .. k + 1 /\ k + 1 \in 1 .. k + 1 /\ k + 1 \in 1 .. N
    BY <1>1
  <2>3. AllFrom(FlattenSeq(part(k)), ss, 1 .. k)
    BY <1>3
  <2> HIDE DEF part, N
  <2>4. FlattenSeq(part(k + 1)) = FlattenSeq(part(k)) \o ss[k + 1]
    BY <2>1, FlattenAppend DEF Y
  <2>5. AllFrom(ss[k + 1], ss, 1 .. k + 1)
    BY Zenon, <2>2 DEF AllFrom
  <2>6. FlattenSeq(part(k)) \in Seq(S) /\ ss[k + 1] \in Seq(S)
    BY <2>1, FlattenType DEF Y
  <2> DEFINE u == FlattenSeq(part(k))
             v == ss[k + 1]
             uv == u \o v
  <2> HIDE DEF u, v
  <2>7. AllFrom(uv, ss, 1 .. k + 1)
    BY <2>2, <2>3, <2>5, <2>6, FromBoth DEF u, v
  <2>8. AllFrom(FlattenSeq(part(k + 1)), ss, 1 .. k + 1)
    BY Zenon, <2>4, <2>7 DEF u, v
  <2>9. part(k + 1) \in Seq(Y)
    <3>1. Append(part(k), ss[k + 1]) \in Seq(Y)
      BY <2>1, Appended
    <3> QED BY <2>1, <3>1
  <2> QED BY <2>2, <2>8, <2>9
<1> HIDE DEF T
<1>4. \A k \in 0 .. N : k \in T
  BY <1>1, <1>2, <1>3, Onward
<1>5. j \in T
  BY <1>4
<1> QED BY Zenon, <1>5 DEF T, Y

(* ss[n] is in one piece, between what the others make.                    *)
LEMMA FlattenAround ==
  ASSUME NEW S, NEW ss \in Seq(Seq(S)), NEW n \in 1 .. Len(ss)
  PROVE  \E a, b \in Seq(S) :
           /\ FlattenSeq(ss) = (a \o ss[n]) \o b
           /\ AllFrom(a, ss, (1 .. Len(ss)) \ {n}) /\ AllFrom(b, ss, (1 .. Len(ss)) \ {n})
<1> DEFINE Y == Seq(S)
           part(m) == SubSeq(ss, 1, m)
           N == Len(ss)
           Rest == (1 .. N) \ {n}
           a == FlattenSeq(part(n - 1))
           am == a \o ss[n]
           Fine(m, b) == /\ b \in Seq(S) /\ FlattenSeq(part(m)) = am \o b
                         /\ AllFrom(b, ss, Rest)
           T == {m \in Nat : \E b : Fine(m, b)}
<1>1. /\ N \in Nat /\ n \in Nat /\ n - 1 \in 0 .. N - 1 /\ (n - 1) + 1 = n /\ n - 1 \in 0 .. N
      /\ \A m \in 1 .. N : ss[m] \in Seq(S)
  OBVIOUS
<1>2. part(n - 1) \in Seq(Y) /\ AllFrom(a, ss, 1 .. n - 1)
  BY <1>1, FlattenFrom
<1>3. a \in Seq(S) /\ ss[n] \in Seq(S)
  BY <1>1, <1>2, FlattenType
<1> HIDE DEF Y, a
<1>4. FlattenSeq(part(n)) = am
  <2>1. part(n) = Append(part(n - 1), ss[n])
    <3>1. part((n - 1) + 1) = Append(part(n - 1), ss[(n - 1) + 1])
      BY <1>1, PrefixNext DEF Y
    <3> QED BY Zenon, <3>1, <1>1
  <2> HIDE DEF part
  <2>2. FlattenSeq(Append(part(n - 1), ss[n])) = FlattenSeq(part(n - 1)) \o ss[n]
    BY <1>2, <1>3, FlattenAppend DEF Y
  <2> QED BY Zenon, <2>1, <2>2 DEF a
<1>5. am \in Seq(S)
  BY <1>3, ConcatProperties
<1> HIDE DEF am, Rest
<1>6. Fine(n, <<>>)
  <2>1. <<>> \in Seq(S) /\ DOMAIN <<>> = {}
    OBVIOUS
  <2>2. am \o <<>> = am
    BY <1>5, ConcatEmptySeq
  <2>3. AllFrom(<<>>, ss, Rest)
    BY Zenon, <2>1 DEF AllFrom
  <2> QED BY Zenon, <1>4, <2>1, <2>2, <2>3
<1>7. n \in T
  BY <1>1, <1>6
<1>8. ASSUME NEW k \in n .. N - 1, k \in T
      PROVE  k + 1 \in T
  <2>1. PICK b : Fine(k, b)
    BY <1>8
  <2>2. /\ k \in 0 .. N - 1 /\ k \in 0 .. N /\ k + 1 \in Nat /\ k + 1 \in 1 .. N /\ k + 1 # n
    BY <1>1
  <2>3. part(k) \in Seq(Y) /\ ss[k + 1] \in Seq(S) /\ part(k + 1) = Append(part(k), ss[k + 1])
    BY <1>1, <2>2, PrefixNext DEF Y
  <2> HIDE DEF part, N
  <2>4. FlattenSeq(part(k + 1)) = FlattenSeq(part(k)) \o ss[k + 1]
    <3>1. FlattenSeq(Append(part(k), ss[k + 1])) = FlattenSeq(part(k)) \o ss[k + 1]
      BY <2>3, FlattenAppend DEF Y
    <3> QED BY Zenon, <3>1, <2>3
  <2> DEFINE v == ss[k + 1]
             bv == b \o v
  <2>6. AllFrom(v, ss, Rest)
    <3>1. k + 1 \in Rest
      BY <2>2 DEF Rest
    <3> QED BY Zenon, <3>1 DEF AllFrom
  <2> HIDE DEF v
  <2>7. v \in Seq(S)
    BY <2>3 DEF v
  <2>5. (am \o b) \o v = am \o (b \o v)
    <3>1. b \in Seq(S)
      BY <2>1
    <3> HIDE DEF Fine
    <3>2. Associates(S)
      BY Zenon, Associative
    <3> QED BY Zenon, <1>5, <3>1, <2>7, <3>2 DEF Associates
  <2>8. AllFrom(bv, ss, Rest)
    BY <2>1, <2>6, <2>7, FromBoth
  <2>9. bv \in Seq(S)
    BY <2>1, <2>7, ConcatProperties
  <2>10. FlattenSeq(part(k + 1)) = am \o bv
    BY Zenon, <2>1, <2>4, <2>5 DEF v
  <2> HIDE DEF bv
  <2>11. Fine(k + 1, bv)
    BY Zenon, <2>8, <2>9, <2>10
  <2> QED BY <2>2, <2>11
<1> HIDE DEF T
<1>9. \A k \in n .. N : k \in T
  BY <1>1, <1>7, <1>8, Onward
<1>10. N \in T
  BY <1>1, <1>9
<1>11. PICK b : Fine(N, b)
  BY <1>10 DEF T
<1>12. part(N) = ss
  BY SubSeqFull
<1>13. AllFrom(a, ss, Rest)
  <2>1. 1 .. n - 1 \subseteq Rest
    BY <1>1 DEF Rest
  <2> QED BY Zenon, <2>1, <1>2 DEF AllFrom
<1> QED BY Zenon, <1>3, <1>11, <1>12, <1>13 DEF Rest, am

-----------------------------------------------------------------------------
(* The collection                                                          *)

Chunk == [version: Nat, date: Nat, chunk_index: Nat, text: Seq(Nat)]

LEMMA FileType ==
  ASSUME NEW file \in File
  PROVE  file.version \in Nat /\ file.date \in Nat /\ file.paragraphs \in Seq(Nat)
<1> DEFINE text == file.paragraphs
           Y == Nat \ {0}
<1>1. file.version \in Nat /\ file.date \in Nat /\ text \in Seq(Y)
  BY DEF File
<1>2. \A i \in 1 .. Len(text) : text[i] \in Nat
  BY <1>1
<1>3. text \in [1 .. Len(text) -> Nat] /\ Len(text) \in Nat
  BY <1>1, <1>2
<1> HIDE DEF text
<1>4. text \in Seq(Nat)
  BY <1>3, FunctionSeq
<1> QED BY <1>1, <1>4 DEF text

LEMMA PointsHold ==
  ASSUME NEW file \in File
  PROVE  /\ PointsOf(file) \in Seq(Chunk)
         /\ Len(PointsOf(file)) = Len(chunk_text(file.paragraphs))
         /\ \A i \in DOMAIN PointsOf(file) :
              /\ PointsOf(file)[i].version = file.version /\ PointsOf(file)[i].date = file.date
              /\ PointsOf(file)[i].chunk_index = i
              /\ PointsOf(file)[i].text = chunk_text(file.paragraphs)[i]
              /\ Bounded(PointsOf(file)[i].text)
<1> DEFINE texts == chunk_text(file.paragraphs)
           points == PointsOf(file)
           N == Len(texts)
           Y == Seq(Nat)
<1>1. file.version \in Nat /\ file.date \in Nat /\ file.paragraphs \in Seq(Nat)
  BY FileType
<1>2. texts \in Seq(Y) /\ \A i \in DOMAIN texts : Bounded(texts[i])
  BY Zenon, <1>1, ChunksHold
<1>3. points = [i \in DOMAIN texts |-> [version |-> file.version, date |-> file.date,
                                        chunk_index |-> i, text |-> texts[i]]]
  BY DEF PointsOf
<1> HIDE DEF Y, texts, points
<1>4. DOMAIN texts = 1 .. N /\ N \in Nat /\ \A i \in 1 .. N : texts[i] \in Y
  BY <1>2
<1>5. DOMAIN points = 1 .. N
  BY <1>3, <1>4
<1>6. ASSUME NEW i \in 1 .. N
      PROVE  /\ points[i] \in Chunk
             /\ points[i].version = file.version /\ points[i].date = file.date
             /\ points[i].chunk_index = i /\ points[i].text = texts[i]
             /\ Bounded(points[i].text)
  <2>1. points[i] = [version |-> file.version, date |-> file.date,
                     chunk_index |-> i, text |-> texts[i]]
    BY <1>3, <1>4
  <2>2. i \in DOMAIN texts /\ i \in Nat /\ texts[i] \in Y
    BY <1>4
  <2>3. texts[i] \in Seq(Nat) /\ Bounded(texts[i])
    BY Zenon, <1>2, <2>2 DEF Y
  <2> QED BY <1>1, <2>1, <2>2, <2>3 DEF Chunk
<1>7. points \in [1 .. N -> Chunk]
  BY <1>3, <1>4, <1>6
<1> HIDE DEF N
<1>8. points \in Seq(Chunk) /\ Len(points) = N
  BY <1>4, <1>7, FunctionSeq
<1> QED BY Zenon, <1>5, <1>6, <1>8 DEF points, texts, N

(* One file a version.                                                     *)
Versioned(files) ==
  /\ files \in Seq(File)
  /\ \A m, n \in DOMAIN files : files[m].version = files[n].version => m = n

(* The points of each file.                                                *)
Batches(files) == [n \in DOMAIN files |-> PointsOf(files[n])]

LEMMA BatchesType ==
  ASSUME NEW files \in Seq(File)
  PROVE  /\ Batches(files) \in Seq(Seq(Chunk)) /\ Len(Batches(files)) = Len(files)
         /\ \A n \in 1 .. Len(files) : Batches(files)[n] = PointsOf(files[n])
         /\ all_chunks(files) = FlattenSeq(Batches(files))
<1> DEFINE N == Len(files)
           Y == Seq(Chunk)
<1>1. N \in Nat /\ DOMAIN files = 1 .. N /\ \A n \in 1 .. N : files[n] \in File
  OBVIOUS
<1>2. \A n \in 1 .. N : PointsOf(files[n]) \in Y
  BY <1>1, PointsHold
<1> HIDE DEF Y
<1>3. Batches(files) \in [1 .. N -> Y] /\ \A n \in 1 .. N : Batches(files)[n] = PointsOf(files[n])
  BY <1>1, <1>2 DEF Batches
<1> HIDE DEF N
<1>4. Batches(files) \in Seq(Y) /\ Len(Batches(files)) = N
  BY <1>1, <1>3, FunctionSeq
<1>5. all_chunks(files) = FlattenSeq(Batches(files))
  BY Zenon DEF all_chunks, Batches
<1> QED BY Zenon, <1>3, <1>4, <1>5 DEF N, Y

(* A chunk made from the files in M is a point of one of them.             *)
LEMMA ChunkOfFile ==
  ASSUME NEW files \in Seq(File), NEW M \in SUBSET (1 .. Len(files)),
         NEW s, AllFrom(s, Batches(files), M), NEW i \in DOMAIN s
  PROVE  \E m \in M : /\ s[i].version = files[m].version /\ s[i].date = files[m].date
                      /\ Bounded(s[i].text)
<1>1. PICK m \in M : \E k \in DOMAIN Batches(files)[m] : s[i] = Batches(files)[m][k]
  BY Zenon DEF AllFrom
<1>2. m \in 1 .. Len(files) /\ files[m] \in File
  OBVIOUS
<1>3. Batches(files)[m] = PointsOf(files[m])
  BY Zenon, <1>2, BatchesType
<1>4. PICK k \in DOMAIN PointsOf(files[m]) : s[i] = PointsOf(files[m])[k]
  BY Zenon, <1>1, <1>3
<1>5. /\ PointsOf(files[m])[k].version = files[m].version
      /\ PointsOf(files[m])[k].date = files[m].date /\ Bounded(PointsOf(files[m])[k].text)
  BY <1>2, PointsHold
<1> QED BY Zenon, <1>4, <1>5

LEMMA CollectionHolds ==
  ASSUME NEW files, Versioned(files)
  PROVE  /\ all_chunks(files) \in Seq(Chunk)
         /\ \A i \in DOMAIN all_chunks(files) : Bounded(all_chunks(files)[i].text)
         /\ \A i, j \in DOMAIN all_chunks(files) :
              all_chunks(files)[i].version = all_chunks(files)[j].version
                => all_chunks(files)[i].date = all_chunks(files)[j].date
<1> DEFINE ss == Batches(files)
           cs == all_chunks(files)
           N == Len(files)
<1>1. /\ files \in Seq(File) /\ N \in Nat /\ DOMAIN files = 1 .. N
      /\ \A m, n \in 1 .. N : files[m].version = files[n].version => m = n
  BY DEF Versioned
<1>2. ss \in Seq(Seq(Chunk)) /\ Len(ss) = N /\ cs = FlattenSeq(ss)
  BY Zenon, <1>1, BatchesType
<1> HIDE DEF cs
<1>3. cs \in Seq(Chunk)
  BY Zenon, <1>2, FlattenType
<1>4. AllFrom(cs, ss, 1 .. N)
  <2> HIDE DEF ss, N
  <2>1. N \in 0 .. N
    BY <1>1
  <2>2. SubSeq(ss, 1, N) = ss
    <3> DEFINE Y == Seq(Chunk)
    <3>1. ss \in Seq(Y)
      BY <1>2
    <3> HIDE DEF Y
    <3> QED BY <1>2, <3>1, SubSeqFull
  <2>3. AllFrom(FlattenSeq(SubSeq(ss, 1, N)), ss, 1 .. N)
    BY Zenon, <1>2, <2>1, FlattenFrom
  <2> QED BY Zenon, <1>2, <2>2, <2>3
<1>5. \A i \in DOMAIN cs :
        \E m \in 1 .. N : /\ cs[i].version = files[m].version /\ cs[i].date = files[m].date
                          /\ Bounded(cs[i].text)
  BY Zenon, <1>1, <1>4, ChunkOfFile
<1>6. \A i \in DOMAIN cs : Bounded(cs[i].text)
  BY Zenon, <1>5
<1>7. ASSUME NEW i \in DOMAIN cs, NEW j \in DOMAIN cs, cs[i].version = cs[j].version
      PROVE  cs[i].date = cs[j].date
  <2>1. PICK m \in 1 .. N : cs[i].version = files[m].version /\ cs[i].date = files[m].date
    BY Zenon, <1>5
  <2>2. PICK n \in 1 .. N : cs[j].version = files[n].version /\ cs[j].date = files[n].date
    BY Zenon, <1>5
  <2> QED BY Zenon, <1>1, <1>7, <2>1, <2>2
<1> QED BY Zenon, <1>3, <1>6, <1>7 DEF cs

-----------------------------------------------------------------------------
(* Reading a version back                                                  *)

(* The chunks of a version lie together, in the order of their indices.    *)
Block(cs, version, A, L) ==
  /\ version_chunks(cs, version) = A + 1 .. A + L
  /\ \A i \in 1 .. L : cs[A + i].chunk_index = i

LEMMA BlockSorted ==
  ASSUME NEW cs, NEW version, NEW A \in Nat, NEW L \in Nat,
         Block(cs, version, A, L)
  PROVE  /\ DOMAIN sorted(cs, version) = 1 .. L
         /\ \A n \in 1 .. L : sorted(cs, version)[n] = A + n
<1> DEFINE rows == version_chunks(cs, version)
           ahead(j) == {i \in rows : Before(cs, i, j)}
<1>1. rows = A + 1 .. A + L
  BY DEF Block
<1>2. \A j \in rows : cs[j].chunk_index = j - A
  <2> SUFFICES ASSUME NEW j \in rows PROVE cs[j].chunk_index = j - A
    OBVIOUS
  <2>1. j - A \in 1 .. L /\ A + (j - A) = j
    BY <1>1
  <2> QED BY <2>1 DEF Block
<1> HIDE DEF rows
<1>3. Cardinality(rows) = L
  <2>1. Cardinality(A + 1 .. A + L) = IF A + 1 > A + L THEN 0 ELSE (A + L) - (A + 1) + 1
    BY FS_Interval
  <2> QED BY <1>1, <2>1
<1>4. ASSUME NEW j \in rows
      PROVE  Cardinality(ahead(j)) = j - A - 1
  <2>1. j \in Nat /\ A + 1 <= j /\ j <= A + L
    BY <1>1
  <2>2. \A i \in rows : Before(cs, i, j) <=> i < j
    <3> SUFFICES ASSUME NEW i \in rows PROVE Before(cs, i, j) <=> i < j
      OBVIOUS
    <3>1. cs[i].chunk_index = i - A /\ cs[j].chunk_index = j - A /\ i \in Nat
      BY <1>1, <1>2
    <3> QED BY <2>1, <3>1 DEF Before
  <2>3. ahead(j) = {i \in rows : i < j}
    BY <2>2
  <2>4. {i \in rows : i < j} = A + 1 .. j - 1
    BY <1>1, <2>1
  <2>5. Cardinality(A + 1 .. j - 1) = IF A + 1 > j - 1 THEN 0 ELSE (j - 1) - (A + 1) + 1
    BY <2>1, FS_Interval
  <2>6. Cardinality(ahead(j)) = Cardinality(A + 1 .. j - 1)
    BY Zenon, <2>3, <2>4
  <2> HIDE DEF ahead
  <2> QED BY <2>1, <2>5, <2>6
<1> DEFINE place(n) == CHOOSE j \in rows : Cardinality(ahead(j)) = n - 1
<1>5. sorted(cs, version) = [n \in 1 .. Cardinality(rows) |-> place(n)]
  BY DEF sorted, rows
<1> HIDE DEF ahead
<1>6. ASSUME NEW n \in 1 .. L
      PROVE  place(n) = A + n
  <2>1. A + n \in rows /\ Cardinality(ahead(A + n)) = n - 1
    <3>1. A + n \in rows
      BY <1>1
    <3>2. Cardinality(ahead(A + n)) = (A + n) - A - 1
      BY <1>4, <3>1
    <3> QED BY <3>1, <3>2
  <2>2. place(n) \in rows /\ Cardinality(ahead(place(n))) = n - 1
    BY Zenon, <2>1
  <2>3. place(n) \in Nat /\ Cardinality(ahead(place(n))) = place(n) - A - 1
    BY <1>1, <1>4, <2>2
  <2> HIDE DEF place
  <2> QED BY <2>2, <2>3
<1> HIDE DEF place
<1> QED BY <1>3, <1>5, <1>6

(* What the other files make is of other versions.                         *)
LEMMA OtherVersions ==
  ASSUME NEW files, Versioned(files), NEW n \in DOMAIN files,
         NEW s, AllFrom(s, Batches(files), (1 .. Len(files)) \ {n}), NEW i \in DOMAIN s
  PROVE  s[i].version # files[n].version
<1> DEFINE Rest == (1 .. Len(files)) \ {n}
<1>1. files \in Seq(File) /\ DOMAIN files = 1 .. Len(files) /\ Rest \in SUBSET (1 .. Len(files))
  BY DEF Versioned
<1>2. \A m \in Rest : files[m].version # files[n].version
  BY <1>1 DEF Versioned
<1>3. AllFrom(s, Batches(files), Rest)
  OBVIOUS
<1> HIDE DEF Rest
<1>4. PICK m \in Rest : /\ s[i].version = files[m].version /\ s[i].date = files[m].date
                       /\ Bounded(s[i].text)
  BY Zenon, <1>1, <1>3, ChunkOfFile
<1> QED BY Zenon, <1>2, <1>4

LEMMA TextWhole ==
  ASSUME NEW files, Versioned(files), NEW n \in DOMAIN files
  PROVE  policy_text(all_chunks(files), files[n].version) = files[n].paragraphs
<1> DEFINE ss == Batches(files)
           cs == all_chunks(files)
           N == Len(files)
           version == files[n].version
           P == PointsOf(files[n])
           texts == chunk_text(files[n].paragraphs)
           L == Len(P)
           Rest == (1 .. N) \ {n}
<1>1. /\ files \in Seq(File) /\ N \in Nat /\ DOMAIN files = 1 .. N /\ n \in 1 .. N
      /\ files[n] \in File /\ files[n].paragraphs \in Seq(Nat)
      /\ \A m \in 1 .. N : files[m].version = version => m = n
  <2>1. /\ files \in Seq(File) /\ N \in Nat /\ DOMAIN files = 1 .. N /\ n \in 1 .. N
        /\ \A m \in 1 .. N : files[m].version = version => m = n
    BY DEF Versioned
  <2>2. files[n] \in File
    BY <2>1
  <2> QED BY <2>1, <2>2, FileType
<1>2. ss \in Seq(Seq(Chunk)) /\ Len(ss) = N /\ cs = FlattenSeq(ss) /\ ss[n] = P
  BY Zenon, <1>1, BatchesType
<1>3. /\ P \in Seq(Chunk) /\ L = Len(texts)
      /\ \A i \in DOMAIN P : /\ P[i].version = version /\ P[i].chunk_index = i
                             /\ P[i].text = texts[i]
  BY Zenon, <1>1, PointsHold
<1>4. texts \in Seq(Seq(Nat)) /\ FlattenSeq(texts) = files[n].paragraphs
  BY Zenon, <1>1, ChunksHold
<1> HIDE DEF ss, cs, P, texts, version
<1>5. PICK a \in Seq(Chunk), b \in Seq(Chunk) :
        /\ FlattenSeq(ss) = (a \o ss[n]) \o b
        /\ AllFrom(a, ss, (1 .. Len(ss)) \ {n}) /\ AllFrom(b, ss, (1 .. Len(ss)) \ {n})
  <2>1. n \in 1 .. Len(ss)
    BY <1>1, <1>2
  <2> QED BY Zenon, <1>2, <2>1, FlattenAround
<1>6. cs = (a \o P) \o b /\ AllFrom(a, ss, Rest) /\ AllFrom(b, ss, Rest)
  BY Zenon, <1>2, <1>5
<1>7. ASSUME NEW s, AllFrom(s, ss, Rest), NEW i \in DOMAIN s
      PROVE  s[i].version # version
  BY Zenon, <1>7, OtherVersions DEF ss, version
<1> DEFINE A == Len(a)
           B == Len(b)
           aP == a \o P
<1>8. A \in Nat /\ B \in Nat /\ L \in Nat /\ DOMAIN P = 1 .. L /\ DOMAIN a = 1 .. A /\ DOMAIN b = 1 .. B
  BY <1>3
<1> HIDE DEF A, B, L, aP
<1>9. /\ aP \in Seq(Chunk) /\ Len(aP) = A + L
      /\ \A k \in 1 .. A + L : aP[k] = IF k <= A THEN a[k] ELSE P[k - A]
  <2>1. aP = a \o P /\ A = Len(a) /\ L = Len(P)
    BY DEF aP, A, L
  <2> QED BY <1>3, <1>8, <2>1, Joined
<1>10. /\ cs \in Seq(Chunk) /\ Len(cs) = (A + L) + B
       /\ \A k \in 1 .. (A + L) + B : cs[k] = IF k <= A + L THEN aP[k] ELSE b[k - (A + L)]
  <2>1. cs = aP \o b /\ A + L \in Nat /\ A + L = Len(aP) /\ B = Len(b)
    BY <1>6, <1>8, <1>9 DEF aP, B
  <2>2. /\ cs \in Seq(Chunk) /\ Len(cs) = Len(aP) + B
        /\ \A k \in 1 .. Len(aP) + B :
             cs[k] = IF k <= Len(aP) THEN aP[k] ELSE b[k - Len(aP)]
    <3>1. Len(aP) \in Nat /\ aP \in Seq(Chunk) /\ B \in Nat
      BY <1>8, <1>9, <2>1
    <3> QED BY <2>1, <3>1, Joined
  <2> QED BY Zenon, <2>1, <2>2
<1>11. DOMAIN cs = 1 .. (A + L) + B
  BY <1>10
<1>12. ASSUME NEW i \in 1 .. L
       PROVE  A + i \in DOMAIN cs /\ cs[A + i] = P[i]
  <2>1. /\ A + i \in 1 .. A + L /\ A + i \in 1 .. (A + L) + B /\ A + i <= A + L
        /\ ~(A + i <= A) /\ (A + i) - A = i
    BY <1>8
  <2> QED BY <1>9, <1>10, <1>11, <2>1
<1>13. version_chunks(cs, version) = A + 1 .. A + L
  <2>1. ASSUME NEW k \in DOMAIN cs
        PROVE  cs[k].version = version <=> k \in A + 1 .. A + L
    <3>1. CASE k \in A + 1 .. A + L
      <4>1. k - A \in 1 .. L /\ A + (k - A) = k
        BY <1>8, <3>1
      <4>2. cs[k] = P[k - A]
        BY <1>12, <4>1
      <4>3. cs[k].version = version
        BY Zenon, <1>3, <1>8, <4>1, <4>2
      <4> QED BY <3>1, <4>3
    <3>2. CASE k <= A
      <4>1. k \in 1 .. A /\ cs[k] = a[k]
        BY <1>8, <1>9, <1>10, <1>11, <3>2
      <4>2. cs[k].version # version
        BY Zenon, <1>6, <1>7, <1>8, <4>1
      <4>3. k \notin A + 1 .. A + L
        BY <1>8, <3>2
      <4> QED BY <4>2, <4>3
    <3>3. CASE k > A + L
      <4>1. k - (A + L) \in 1 .. B /\ cs[k] = b[k - (A + L)]
        BY <1>8, <1>10, <1>11, <3>3
      <4>2. cs[k].version # version
        BY Zenon, <1>6, <1>7, <1>8, <4>1
      <4>3. k \notin A + 1 .. A + L
        BY <1>8, <3>3
      <4> QED BY <4>2, <4>3
    <3> QED BY <1>8, <1>11, <3>1, <3>2, <3>3
  <2>2. A + 1 .. A + L \subseteq DOMAIN cs
    BY <1>8, <1>11
  <2> QED BY <2>1, <2>2 DEF version_chunks
<1>14. \A i \in 1 .. L : cs[A + i].chunk_index = i
  BY Zenon, <1>3, <1>8, <1>12
<1> DEFINE rows == sorted(cs, version)
<1>15. DOMAIN rows = 1 .. L /\ \A k \in 1 .. L : rows[k] = A + k
  <2>1. A \in Nat /\ L \in Nat
    BY <1>8
  <2>2. Block(cs, version, A, L)
    BY Zenon, <1>13, <1>14 DEF Block
  <2> QED BY Zenon, <2>1, <2>2, BlockSorted
<1>16. policy_text(cs, version) = FlattenSeq([k \in DOMAIN rows |-> cs[rows[k]].text])
  BY Zenon DEF policy_text
<1> HIDE DEF rows
<1>17. [k \in DOMAIN rows |-> cs[rows[k]].text] = texts
  <2>1. [k \in DOMAIN rows |-> cs[rows[k]].text] = [k \in 1 .. L |-> texts[k]]
    <3>1. \A k \in 1 .. L : cs[rows[k]].text = texts[k]
      BY Zenon, <1>3, <1>8, <1>12, <1>15
    <3> QED BY Zenon, <1>15, <3>1
  <2>2. texts = [k \in 1 .. L |-> texts[k]]
    <3> DEFINE Y == Seq(Nat)
    <3>1. texts \in Seq(Y)
      BY <1>4
    <3> HIDE DEF Y
    <3> QED BY <1>3, <3>1 DEF L
  <2> QED BY Zenon, <2>1, <2>2
<1> QED BY Zenon, <1>4, <1>16, <1>17 DEF cs, version
=============================================================================
