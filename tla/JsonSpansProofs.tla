-------------------------- MODULE JsonSpansProofs --------------------------
(***************************************************************************)
(* Texts of any length: an object or array with no bracket in its strings  *)
(* is one of the spans that the counting of brackets finds, and so         *)
(* utils/json_extract.py never comes back with nothing when there is one.  *)
(***************************************************************************)
EXTENDS JsonSpans, DataLemmas

-----------------------------------------------------------------------------
(* Counting                                                                *)

Among(text, i, j, chars) == {n \in i .. j : text[n] \in chars}

LEMMA CountNext ==
  ASSUME NEW text, NEW i \in Nat, NEW j \in Nat, i <= j + 1, NEW chars
  PROVE  /\ Cardinality(Among(text, i, j, chars)) \in Nat
         /\ text[j + 1] \in chars =>
              Cardinality(Among(text, i, j + 1, chars)) = Cardinality(Among(text, i, j, chars)) + 1
         /\ text[j + 1] \notin chars => Among(text, i, j + 1, chars) = Among(text, i, j, chars)
<1>1. IsFiniteSet(i .. j)
  BY FS_Interval
<1>2. Among(text, i, j, chars) \subseteq i .. j
  BY DEF Among
<1>3. /\ IsFiniteSet(Among(text, i, j, chars))
      /\ Cardinality(Among(text, i, j, chars)) \in Nat
  BY <1>1, <1>2, FS_Subset, FS_CardinalityType
<1>4. i .. j + 1 = (i .. j) \cup {j + 1} /\ j + 1 \notin i .. j
  OBVIOUS
<1>5. ASSUME text[j + 1] \in chars
      PROVE  /\ Among(text, i, j + 1, chars) = Among(text, i, j, chars) \cup {j + 1}
             /\ j + 1 \notin Among(text, i, j, chars)
  BY <1>4, <1>5 DEF Among
<1>6. ASSUME text[j + 1] \notin chars
      PROVE  Among(text, i, j + 1, chars) = Among(text, i, j, chars)
  BY <1>4, <1>6 DEF Among
<1>7. ASSUME text[j + 1] \in chars
      PROVE  Cardinality(Among(text, i, j + 1, chars)) = Cardinality(Among(text, i, j, chars)) + 1
  BY <1>3, <1>5, <1>7, FS_AddElement
<1> QED BY <1>3, <1>6, <1>7

(* What one more piece does to the count.                                  *)
Counts(piece, open_ch, close_ch) ==
  IF piece \in Opens(open_ch) THEN 1
  ELSE IF piece \in {close_ch, "quoted_bracket"} THEN -1 ELSE 0

(* No piece opens and closes.                                              *)
Apart(open_ch, close_ch) == Opens(open_ch) \cap {close_ch, "quoted_bracket"} = {}

LEMMA DepthNext ==
  ASSUME NEW text, NEW i \in Nat, NEW j \in Nat, i <= j + 1,
         NEW open_ch, NEW close_ch, Apart(open_ch, close_ch)
  PROVE  /\ Depth(text, i, j, open_ch, close_ch) \in Int
         /\ Depth(text, i, j + 1, open_ch, close_ch)
              = Depth(text, i, j, open_ch, close_ch) + Counts(text[j + 1], open_ch, close_ch)
<1> DEFINE opens == Opens(open_ch)
           closes == {close_ch, "quoted_bracket"}
           piece == text[j + 1]
<1>1. \A m : Depth(text, i, m, open_ch, close_ch)
               = Cardinality(Among(text, i, m, opens)) - Cardinality(Among(text, i, m, closes))
  BY DEF Depth, Among
<1>2. /\ piece \in opens => piece \notin closes
      /\ piece \in opens => Counts(piece, open_ch, close_ch) = 1
      /\ piece \in closes => Counts(piece, open_ch, close_ch) = -1
      /\ piece \notin opens /\ piece \notin closes => Counts(piece, open_ch, close_ch) = 0
  BY DEF Counts, Apart
<1> HIDE DEF opens, closes
<1> DEFINE o  == Cardinality(Among(text, i, j, opens))
           c  == Cardinality(Among(text, i, j, closes))
           o1 == Cardinality(Among(text, i, j + 1, opens))
           c1 == Cardinality(Among(text, i, j + 1, closes))
<1>3. o \in Nat /\ (piece \in opens => o1 = o + 1) /\ (piece \notin opens => o1 = o)
  BY CountNext
<1>4. c \in Nat /\ (piece \in closes => c1 = c + 1) /\ (piece \notin closes => c1 = c)
  BY CountNext
<1>5. /\ Depth(text, i, j, open_ch, close_ch) = o - c
      /\ Depth(text, i, j + 1, open_ch, close_ch) = o1 - c1
  BY <1>1
<1> HIDE DEF o, c, o1, c1, piece
<1>6. CASE piece \in opens
  BY <1>2, <1>3, <1>4, <1>5, <1>6 DEF piece
<1>7. CASE piece \in closes
  BY <1>2, <1>3, <1>4, <1>5, <1>7 DEF piece
<1>8. CASE piece \notin opens /\ piece \notin closes
  BY <1>2, <1>3, <1>4, <1>5, <1>8 DEF piece
<1> QED BY <1>6, <1>7, <1>8

LEMMA DepthNone ==
  ASSUME NEW text, NEW i \in Nat, NEW open_ch, NEW close_ch, i > 0
  PROVE  Depth(text, i, i - 1, open_ch, close_ch) = 0
<1>1. i .. i - 1 = {}
  OBVIOUS
<1>2. /\ {n \in i .. i - 1 : text[n] \in Opens(open_ch)} = {}
      /\ {n \in i .. i - 1 : text[n] \in {close_ch, "quoted_bracket"}} = {}
  BY <1>1
<1>3. Cardinality({}) = 0
  BY FS_EmptySet
<1>4. Depth(text, i, i - 1, open_ch, close_ch) = Cardinality({}) - Cardinality({})
  BY <1>2 DEF Depth
<1> QED BY <1>3, <1>4

(* What the count of a text is to be, up to each piece of a span.          *)
Follows(f, text, i, j, open_ch, close_ch) ==
  /\ f[i - 1] = 0
  /\ \A n \in i .. j : f[n] = f[n - 1] + Counts(text[n], open_ch, close_ch)

LEMMA DepthIs ==
  ASSUME NEW text, NEW i \in Nat, NEW j \in Nat, 0 < i, i <= j,
         NEW open_ch, NEW close_ch, Apart(open_ch, close_ch),
         NEW f, Follows(f, text, i, j, open_ch, close_ch)
  PROVE  \A n \in i .. j : Depth(text, i, n, open_ch, close_ch) = f[n]
<1> DEFINE D(n) == Depth(text, i, n, open_ch, close_ch)
           T == {n \in Nat : D(n) = f[n]}
<1>1. i - 1 \in Nat /\ (i - 1) + 1 = i
  OBVIOUS
<1>2. D(i - 1) = f[i - 1]
  BY DepthNone DEF Follows
<1>3. i - 1 \in T
  BY <1>1, <1>2
<1>4. ASSUME NEW k \in (i - 1) .. (j - 1), k \in T
      PROVE  k + 1 \in T
  <2>1. k \in Nat /\ i <= k + 1 /\ k + 1 \in i .. j /\ (k + 1) - 1 = k
    BY <1>1
  <2>2. D(k + 1) = D(k) + Counts(text[k + 1], open_ch, close_ch)
    BY <2>1, DepthNext
  <2>3. f[k + 1] = f[k] + Counts(text[k + 1], open_ch, close_ch)
    BY <2>1 DEF Follows
  <2>4. D(k) = f[k]
    BY <1>4
  <2>5. D(k + 1) = f[k + 1] /\ k + 1 \in Nat
    BY <2>1, <2>2, <2>3, <2>4
  <2> QED BY <2>5
<1> HIDE DEF T
<1>5. \A k \in (i - 1) .. j : k \in T
  BY <1>1, <1>3, <1>4, Onward
<1>6. \A k \in i .. j : k \in T
  BY <1>1, <1>5
<1>7. \A k \in i .. j : D(k) = f[k]
  BY <1>6 DEF T
<1> QED BY <1>7

-----------------------------------------------------------------------------
(* What is a span                                                          *)

LEMMA Spanning ==
  ASSUME NEW text, NEW i \in Nat, NEW j \in Nat, 0 < i, i <= j,
         NEW open_ch, NEW close_ch, Apart(open_ch, close_ch),
         NEW f, Follows(f, text, i, j, open_ch, close_ch),
         f[j] = 0, \A n \in i .. j - 1 : f[n] # 0, Counts(text[i], open_ch, close_ch) = 1
  PROVE  IsSpan(text, i, j, open_ch, close_ch)
<1> DEFINE D(n) == Depth(text, i, n, open_ch, close_ch)
<1>1. \A n \in i .. j : D(n) = f[n]
  BY DepthIs
<1>2. text[i] \in Opens(open_ch)
  BY DEF Counts
<1> HIDE DEF D
<1>3. D(j) = 0 /\ \A n \in i .. j - 1 : D(n) # 0
  BY <1>1
<1> QED BY <1>2, <1>3 DEF IsSpan, D

(* A part of a text, piece by piece.                                       *)
LEMMA PartOf ==
  ASSUME NEW text \in Seq(Pieces), NEW i \in 1 .. Len(text), NEW j \in 1 .. Len(text), i <= j
  PROVE  /\ SubSeq(text, i, j) \in Seq(Pieces)
         /\ Len(SubSeq(text, i, j)) = j - i + 1
         /\ \A k \in i .. j : k - i + 1 \in 1 .. j - i + 1 /\ SubSeq(text, i, j)[k - i + 1] = text[k]
<1> DEFINE part == SubSeq(text, i, j)
<1>1. i \in Int /\ j \in Int /\ \A k \in i .. j : text[k] \in Pieces
  OBVIOUS
<1>2. /\ part \in Seq(Pieces) /\ Len(part) = IF i <= j THEN j - i + 1 ELSE 0
      /\ \A k \in 1 .. j - i + 1 : part[k] = text[i + k - 1]
  BY <1>1, SubSeqProperties
<1> HIDE DEF part
<1>3. ASSUME NEW k \in i .. j
      PROVE  k - i + 1 \in 1 .. j - i + 1 /\ part[k - i + 1] = text[k]
  <2>1. k - i + 1 \in 1 .. j - i + 1 /\ i + (k - i + 1) - 1 = k
    OBVIOUS
  <2> QED BY <2>1, <1>2
<1>4. part \in Seq(Pieces) /\ Len(part) = j - i + 1
  BY <1>2
<1> QED BY <1>3, <1>4 DEF part

-----------------------------------------------------------------------------
(* The shape of a JSON value                                               *)

Kinds == {<<"{", "}">>, <<"[", "]">>}

LEMMA Brackets ==
  ASSUME NEW kind \in Kinds
  PROVE  /\ Apart(kind[1], kind[2])
         /\ \A pair \in {<<"[", "]">>, <<"keyed", "}">>} :
              /\ Counts(pair[1], kind[1], kind[2]) \in {0, 1}
              /\ Counts(pair[2], kind[1], kind[2]) = 0 - Counts(pair[1], kind[1], kind[2])
         /\ Counts("{", kind[1], kind[2]) \in {0, 1}
         /\ Counts("}", kind[1], kind[2]) = 0 - Counts("{", kind[1], kind[2])
         /\ Counts("value", kind[1], kind[2]) = 0 /\ Counts("member", kind[1], kind[2]) = 0
<1>1. CASE kind = <<"{", "}">>
  <2>1. kind[1] = "{" /\ kind[2] = "}"
    BY <1>1
  <2> DEFINE C(p) == Counts(p, "{", "}")
  <2>2. /\ C("{") = 1 /\ C("keyed") = 1 /\ C("}") = -1 /\ C("[") = 0 /\ C("]") = 0
        /\ C("value") = 0 /\ C("member") = 0 /\ Apart("{", "}")
    BY Zenon DEF Counts, Opens, Apart
  <2> HIDE DEF C
  <2>3. /\ \A pair \in {<<"[", "]">>, <<"keyed", "}">>} : C(pair[1]) \in {0, 1} /\ C(pair[2]) = 0 - C(pair[1])
        /\ C("{") \in {0, 1} /\ C("}") = 0 - C("{")
    <3> DEFINE ob == "{"
               cb == "}"
               os == "["
               cs == "]"
               ky == "keyed"
    <3>1. C(os) = 0 /\ C(cs) = 0 /\ C(ky) = 1 /\ C(cb) = -1 /\ C(ob) = 1
      BY Zenon, <2>2
    <3> HIDE DEF ob, cb, os, cs, ky
    <3>2. /\ C(ob) \in {0, 1} /\ C(cb) = 0 - C(ob) /\ C(os) \in {0, 1} /\ C(cs) = 0 - C(os)
          /\ C(ky) \in {0, 1} /\ C(cb) = 0 - C(ky)
      BY <3>1
    <3>3. ASSUME NEW pair \in {<<os, cs>>, <<ky, cb>>}
          PROVE  C(pair[1]) \in {0, 1} /\ C(pair[2]) = 0 - C(pair[1])
      <4>1. CASE pair = <<os, cs>>
        <5>1. pair[1] = os /\ pair[2] = cs
          BY <4>1
        <5> QED BY <5>1, <3>2
      <4>2. CASE pair = <<ky, cb>>
        <5>1. pair[1] = ky /\ pair[2] = cb
          BY <4>2
        <5> QED BY <5>1, <3>2
      <4> QED BY <4>1, <4>2
    <3> QED BY Zenon, <3>2, <3>3 DEF ob, cb, os, cs, ky
  <2> QED BY Zenon, <2>1, <2>2, <2>3 DEF C
<1>2. CASE kind = <<"[", "]">>
  <2>1. kind[1] = "[" /\ kind[2] = "]"
    BY <1>2
  <2> DEFINE C(p) == Counts(p, "[", "]")
  <2>2. /\ C("[") = 1 /\ C("keyed") = 0 /\ C("]") = -1 /\ C("{") = 0 /\ C("}") = 0
        /\ C("value") = 0 /\ C("member") = 0 /\ Apart("[", "]")
    BY Zenon DEF Counts, Opens, Apart
  <2> HIDE DEF C
  <2>3. /\ \A pair \in {<<"[", "]">>, <<"keyed", "}">>} : C(pair[1]) \in {0, 1} /\ C(pair[2]) = 0 - C(pair[1])
        /\ C("{") \in {0, 1} /\ C("}") = 0 - C("{")
    <3> DEFINE ob == "{"
               cb == "}"
               os == "["
               cs == "]"
               ky == "keyed"
    <3>1. C(os) = 1 /\ C(cs) = -1 /\ C(ky) = 0 /\ C(cb) = 0 /\ C(ob) = 0
      BY Zenon, <2>2
    <3> HIDE DEF ob, cb, os, cs, ky
    <3>2. /\ C(ob) \in {0, 1} /\ C(cb) = 0 - C(ob) /\ C(os) \in {0, 1} /\ C(cs) = 0 - C(os)
          /\ C(ky) \in {0, 1} /\ C(cb) = 0 - C(ky)
      BY <3>1
    <3>3. ASSUME NEW pair \in {<<os, cs>>, <<ky, cb>>}
          PROVE  C(pair[1]) \in {0, 1} /\ C(pair[2]) = 0 - C(pair[1])
      <4>1. CASE pair = <<os, cs>>
        <5>1. pair[1] = os /\ pair[2] = cs
          BY <4>1
        <5> QED BY <5>1, <3>2
      <4>2. CASE pair = <<ky, cb>>
        <5>1. pair[1] = ky /\ pair[2] = cb
          BY <4>2
        <5> QED BY <5>1, <3>2
      <4> QED BY <4>1, <4>2
    <3> QED BY Zenon, <3>2, <3>3 DEF ob, cb, os, cs, ky
  <2> QED BY Zenon, <2>1, <2>2, <2>3 DEF C
<1> QED BY <1>1, <1>2 DEF Kinds

(* What each piece of a value without brackets in its strings counts.      *)
Shaped(s, cnt, n, e) ==
  /\ 2 * n < Len(s)
  /\ \A k \in 1 .. n : cnt[s[k]] \in {0, 1} /\ cnt[s[Len(s) + 1 - k]] = 0 - cnt[s[k]]
  /\ \A k \in n + 1 .. Len(s) - n :
       cnt[s[k]] = IF 2 * n + 1 = Len(s) THEN 0
                   ELSE IF k = n + 1 THEN e ELSE IF k = Len(s) - n THEN -e ELSE 0

LEMMA FlatShape ==
  ASSUME NEW kind \in Kinds, NEW s \in Flat, \A k \in 1 .. Len(s) : s[k] # "quoted_bracket",
         NEW cnt, cnt = [p \in Pieces |-> Counts(p, kind[1], kind[2])]
  PROVE  \E e \in {0, 1} : Shaped(s, cnt, 0, e)
<1> DEFINE ob == "{"
           cb == "}"
           os == "["
           cs == "]"
           mb == "member"
           vl == "value"
           qb == "quoted_bracket"
<1>1. \/ s = <<vl>> \/ s = <<os, cs>> \/ s = <<ob, cb>> \/ s = <<ob, mb, cb>>
      \/ s = <<ob, qb, cb>>
  BY Zenon DEF Flat
<1>2. /\ cnt[ob] \in {0, 1} /\ cnt[cb] = 0 - cnt[ob] /\ cnt[os] \in {0, 1} /\ cnt[cs] = 0 - cnt[os]
      /\ cnt[vl] = 0 /\ cnt[mb] = 0
  <2> DEFINE C(p) == Counts(p, kind[1], kind[2])
  <2>1. /\ C(ob) \in {0, 1} /\ C(cb) = 0 - C(ob) /\ C(vl) = 0 /\ C(mb) = 0
    BY Zenon, Brackets
  <2>2. C(os) \in {0, 1} /\ C(cs) = 0 - C(os)
    <3> DEFINE pair == <<os, cs>>
    <3>1. C(pair[1]) \in {0, 1} /\ C(pair[2]) = 0 - C(pair[1])
      BY Zenon, Brackets
    <3>2. pair[1] = os /\ pair[2] = cs
      OBVIOUS
    <3> HIDE DEF pair, C
    <3> QED BY <3>1, <3>2
  <2>3. \A p \in {ob, cb, os, cs, mb, vl} : cnt[p] = C(p)
    BY Zenon DEF Pieces
  <2> HIDE DEF C
  <2> QED BY <2>1, <2>2, <2>3
<1>3. \A k \in 1 .. Len(s) : s[k] # qb
  OBVIOUS
<1> HIDE DEF ob, cb, os, cs, mb, vl, qb
<1>4. CASE s = <<vl>>
  <2>1. Len(s) = 1 /\ s[1] = vl
    BY <1>4
  <2>2. Shaped(s, cnt, 0, 0)
    BY <2>1, <1>2 DEF Shaped
  <2> QED BY <2>2
<1>5. ASSUME NEW o, NEW c, s = <<o, c>>, cnt[o] \in {0, 1}, cnt[c] = 0 - cnt[o]
      PROVE  Shaped(s, cnt, 0, cnt[o])
  <2>1. Len(s) = 2 /\ s[1] = o /\ s[2] = c
    BY <1>5
  <2> QED BY <2>1, <1>5 DEF Shaped
<1>6. CASE s = <<ob, mb, cb>>
  <2>1. Len(s) = 3 /\ s[1] = ob /\ s[2] = mb /\ s[3] = cb
    BY <1>6
  <2>2. Shaped(s, cnt, 0, cnt[ob])
    BY <2>1, <1>2 DEF Shaped
  <2> QED BY <2>2, <1>2
<1>7. s # <<ob, qb, cb>>
  BY <1>3
<1> QED BY <1>1, <1>2, <1>4, <1>5, <1>6, <1>7

LEMMA JsonShape ==
  ASSUME NEW kind \in Kinds, NEW s \in Seq(Pieces), IsJson(s),
         \A k \in 1 .. Len(s) : s[k] # "quoted_bracket",
         NEW cnt, cnt = [p \in Pieces |-> Counts(p, kind[1], kind[2])]
  PROVE  \E n \in Nat, e \in {0, 1} : Shaped(s, cnt, n, e)
<1> DEFINE L == Len(s)
           Pairs == {<<"[", "]">>, <<"keyed", "}">>}
           part(m) == SubSeq(s, m + 1, L - m)
<1>1. PICK n \in 0 .. L :
        /\ 2 * n <= L /\ \A k \in 1 .. n : <<s[k], s[L + 1 - k]>> \in Pairs
        /\ part(n) \in Flat
  BY Zenon DEF IsJson
<1>2. n \in Nat /\ L \in Nat
  BY LenProperties
<1>3. ASSUME NEW k \in 1 .. n
      PROVE  cnt[s[k]] \in {0, 1} /\ cnt[s[L + 1 - k]] = 0 - cnt[s[k]]
  <2> DEFINE pair == <<s[k], s[L + 1 - k]>>
             C(p) == Counts(p, kind[1], kind[2])
  <2>1. C(pair[1]) \in {0, 1} /\ C(pair[2]) = 0 - C(pair[1])
    BY Zenon, <1>1, Brackets
  <2>2. k \in 1 .. L /\ L + 1 - k \in 1 .. L
    <3>1. 2 * n <= L
      BY <1>1
    <3> HIDE DEF L
    <3> QED BY <3>1, <1>2
  <2>3. s[k] \in Pieces /\ s[L + 1 - k] \in Pieces
    BY <2>2
  <2>4. cnt[s[k]] = C(s[k]) /\ cnt[s[L + 1 - k]] = C(s[L + 1 - k])
    BY Zenon, <2>3
  <2>5. pair[1] = s[k] /\ pair[2] = s[L + 1 - k]
    OBVIOUS
  <2> HIDE DEF pair, C
  <2> QED BY <2>1, <2>4, <2>5
<1> HIDE DEF Pairs
<1>4. n + 1 <= L - n
  <2>1. ASSUME ~(n + 1 <= L - n)
        PROVE  part(n) = <<>>
    BY <2>1, <1>2, SubSeqEmpty
  <2>2. <<>> \notin Flat
    BY DEF Flat
  <2> QED BY <1>1, <2>1, <2>2
<1>5. /\ Len(part(n)) = L - 2 * n
      /\ \A k \in n + 1 .. L - n : k - n \in 1 .. L - 2 * n /\ part(n)[k - n] = s[k]
  <2>1. n + 1 \in 1 .. L /\ L - n \in 1 .. L
    BY <1>2, <1>4
  <2>2. /\ Len(part(n)) = (L - n) - (n + 1) + 1
        /\ \A k \in n + 1 .. L - n :
             /\ k - (n + 1) + 1 \in 1 .. (L - n) - (n + 1) + 1
             /\ part(n)[k - (n + 1) + 1] = s[k]
    BY <2>1, <1>4, PartOf
  <2> HIDE DEF part
  <2>3. (L - n) - (n + 1) + 1 = L - 2 * n /\ \A k \in n + 1 .. L - n : k - (n + 1) + 1 = k - n
    BY <1>2
  <2> QED BY <2>2, <2>3
<1> HIDE DEF part
<1>6. \A k \in 1 .. Len(part(n)) : part(n)[k] # "quoted_bracket"
  <2> SUFFICES ASSUME NEW k \in 1 .. Len(part(n)) PROVE part(n)[k] # "quoted_bracket"
    OBVIOUS
  <2>1. k + n \in n + 1 .. L - n /\ (k + n) - n = k /\ k + n \in 1 .. L
    BY <1>2, <1>5
  <2> QED BY <2>1, <1>5
<1>7. PICK e \in {0, 1} : Shaped(part(n), cnt, 0, e)
  BY Zenon, <1>1, <1>6, FlatShape
<1>8. ASSUME NEW k \in n + 1 .. L - n
      PROVE  cnt[s[k]] = IF 2 * n + 1 = L THEN 0
                         ELSE IF k = n + 1 THEN e ELSE IF k = L - n THEN -e ELSE 0
  <2> DEFINE l == k - n
  <2>1. l \in 0 + 1 .. Len(part(n)) - 0 /\ part(n)[l] = s[k]
    BY <1>2, <1>5
  <2>2. cnt[part(n)[l]] = IF 2 * 0 + 1 = Len(part(n)) THEN 0
                          ELSE IF l = 0 + 1 THEN e
                          ELSE IF l = Len(part(n)) - 0 THEN -e ELSE 0
    BY <2>1, <1>7 DEF Shaped
  <2> HIDE DEF L
  <2>3. Len(part(n)) = L - 2 * n
    BY <1>5
  <2> QED BY <2>1, <2>2, <2>3, <1>2
<1>9. 2 * n < L
  BY <1>2, <1>4
<1>10. Shaped(s, cnt, n, e)
  BY <1>3, <1>8, <1>9 DEF Shaped
<1> QED BY <1>2, <1>10

(* How many brackets are open after k pieces: h[k] of the first n ones, as *)
(* many before the last k, and one more in between if the innermost value  *)
(* has a bracket of the kind.                                              *)
Height(h, n, e, L, k) ==
  IF k <= n THEN h[k] ELSE IF k >= L - n THEN h[L - k] ELSE h[n] + e

Climbs(h, s, cnt, n, e) ==
  /\ Height(h, n, e, Len(s), 0) = 0 /\ Height(h, n, e, Len(s), Len(s)) = 0
  /\ \A k \in 1 .. Len(s) :
       /\ k # Len(s) => Height(h, n, e, Len(s), k) # 0
       /\ Height(h, n, e, Len(s), k) = Height(h, n, e, Len(s), k - 1) + cnt[s[k]]

LEMMA Heights ==
  ASSUME NEW s, NEW cnt, NEW n \in Nat, NEW e \in {0, 1}, Shaped(s, cnt, n, e),
         Len(s) \in Nat, cnt[s[1]] = 1
  PROVE  \E h \in [0 .. n -> Nat] : Climbs(h, s, cnt, n, e)
<1> DEFINE L == Len(s)
           step == [p \in Nat \X (1 .. n) |-> p[1] + cnt[s[p[2]]]]
<1>1. /\ L \in Nat /\ 2 * n < L
      /\ \A k \in 1 .. n : cnt[s[k]] \in {0, 1} /\ cnt[s[L + 1 - k]] = 0 - cnt[s[k]]
      /\ \A k \in n + 1 .. L - n :
           cnt[s[k]] = IF 2 * n + 1 = L THEN 0
                       ELSE IF k = n + 1 THEN e ELSE IF k = L - n THEN -e ELSE 0
  BY DEF Shaped
<1>2. step \in [Nat \X (1 .. n) -> Nat]
  <2> SUFFICES ASSUME NEW p \in Nat \X (1 .. n) PROVE p[1] + cnt[s[p[2]]] \in Nat
    OBVIOUS
  <2>1. p[1] \in Nat /\ p[2] \in 1 .. n
    OBVIOUS
  <2>2. cnt[s[p[2]]] \in {0, 1}
    BY <2>1, <1>1
  <2> QED BY <2>1, <2>2
<1>3. PICK h : Recurses(h, Nat, 0, n, step)
  BY <1>2, Recursion
<1>4. h \in [0 .. n -> Nat] /\ h[0] = 0
  BY <1>3 DEF Recurses
<1>5. ASSUME NEW k \in 1 .. n
      PROVE  h[k] = h[k - 1] + cnt[s[k]] /\ k - 1 \in 0 .. n /\ h[k - 1] \in Nat
  <2>1. k - 1 \in 0 .. n
    OBVIOUS
  <2>2. <<h[k - 1], k>> \in Nat \X (1 .. n) /\ h[k - 1] \in Nat
    BY <2>1, <1>4
  <2>3. h[k] = step[<<h[k - 1], k>>]
    BY <1>3 DEF Recurses
  <2>4. step[<<h[k - 1], k>>] = h[k - 1] + cnt[s[k]]
    BY <2>2
  <2> QED BY <2>1, <2>2, <2>3, <2>4
<1> HIDE DEF step, L
<1>6. \A k \in 1 .. n : h[k] >= 1
  <2> DEFINE T == {k \in 0 .. n : h[k] >= 1}
  <2>1. CASE n = 0
    BY <2>1
  <2>2. CASE n # 0
    <3>1. 1 \in 1 .. n /\ 1 - 1 = 0
      BY <2>2
    <3>2. h[1] = 1
      BY <3>1, <1>4, <1>5
    <3>3. 1 \in T
      BY <3>1, <3>2
    <3>4. ASSUME NEW k \in 1 .. n - 1, k \in T
          PROVE  k + 1 \in T
      <4>1. k + 1 \in 1 .. n /\ (k + 1) - 1 = k /\ k \in 0 .. n
        OBVIOUS
      <4>2. h[k + 1] = h[k] + cnt[s[k + 1]] /\ cnt[s[k + 1]] \in {0, 1} /\ h[k] \in Nat
        BY <4>1, <1>1, <1>4, <1>5
      <4>3. h[k + 1] >= 1
        BY <4>2, <3>4
      <4> QED BY <4>1, <4>3
    <3> HIDE DEF T
    <3>5. \A k \in 1 .. n : k \in T
      BY <3>3, <3>4, Onward
    <3> QED BY <3>5 DEF T
  <2> QED BY <2>1, <2>2
<1> DEFINE H(k) == Height(h, n, e, L, k)
<1>7. H(0) = 0 /\ H(L) = 0
  BY <1>1, <1>4 DEF Height
<1>8. n = 0 => 2 * n + 1 # L /\ e = 1
  <2>1. ASSUME n = 0
        PROVE  cnt[s[1]] = IF 2 * n + 1 = L THEN 0
                           ELSE IF 1 = n + 1 THEN e ELSE IF 1 = L - n THEN -e ELSE 0
    <3>1. 1 \in n + 1 .. L - n
      BY <2>1, <1>1
    <3> QED BY <3>1, <1>1
  <2> QED BY <2>1
<1>9. ASSUME NEW k \in 1 .. L, k # L
      PROVE  H(k) # 0
  <2>1. CASE k <= n
    <3>1. H(k) = h[k] /\ k \in 1 .. n /\ k \in 0 .. n
      BY <2>1 DEF Height
    <3> QED BY <3>1, <1>4, <1>6
  <2>2. CASE k > n /\ k >= L - n
    <3>1. H(k) = h[L - k] /\ L - k \in 1 .. n /\ L - k \in 0 .. n
      BY <2>2, <1>1, <1>9 DEF Height
    <3> QED BY <3>1, <1>4, <1>6
  <2>3. CASE k > n /\ k < L - n
    <3>1. H(k) = h[n] + e
      BY <2>3, <1>1 DEF Height
    <3>2. h[n] \in Nat /\ (n # 0 => h[n] >= 1)
      BY <1>4, <1>6
    <3> QED BY <3>1, <3>2, <1>8
  <2> QED BY <2>1, <2>2, <2>3, <1>1
<1>10. ASSUME NEW k \in 1 .. L
       PROVE  H(k) = H(k - 1) + cnt[s[k]]
  <2>1. CASE k <= n
    <3>1. H(k) = h[k] /\ H(k - 1) = h[k - 1] /\ k \in 1 .. n
      BY <2>1 DEF Height
    <3> QED BY <3>1, <1>5
  <2>2. CASE k > L - n
    <3> DEFINE l == L + 1 - k
    <3>1. l \in 1 .. n /\ L + 1 - l = k /\ l - 1 = L - k /\ l = L - (k - 1)
      BY <2>2, <1>1
    <3>2. cnt[s[k]] = 0 - cnt[s[l]] /\ cnt[s[l]] \in {0, 1}
      BY <3>1, <1>1
    <3>3. H(k) = h[l - 1]
      BY <2>2, <3>1, <1>1 DEF Height
    <3>4. H(k - 1) = h[l]
      BY <2>2, <3>1, <1>1 DEF Height
    <3>5. h[l] = h[l - 1] + cnt[s[l]] /\ h[l - 1] \in Nat
      BY <3>1, <1>5
    <3> QED BY <3>2, <3>3, <3>4, <3>5
  <2>3. CASE k > n /\ k <= L - n
    <3>1. cnt[s[k]] = IF 2 * n + 1 = L THEN 0
                      ELSE IF k = n + 1 THEN e ELSE IF k = L - n THEN -e ELSE 0
      BY <2>3, <1>1
    <3>2. h[n] \in Nat
      BY <1>4
    <3>3. H(k) = IF k = L - n THEN h[n] ELSE h[n] + e
      BY <2>3, <1>1 DEF Height
    <3>4. H(k - 1) = IF k = n + 1 THEN h[n] ELSE h[n] + e
      BY <2>3, <1>1 DEF Height
    <3> QED BY <3>1, <3>2, <3>3, <3>4, <2>3, <1>1
  <2> QED BY <2>1, <2>2, <2>3, <1>1
<1>11. Climbs(h, s, cnt, n, e)
  BY <1>7, <1>9, <1>10 DEF L, Climbs
<1> QED BY <1>4, <1>11

(* The counting finds it.                                                  *)
LEMMA JsonIsSpan ==
  ASSUME NEW kind \in Kinds, NEW text \in Seq(Pieces),
         NEW i \in 1 .. Len(text), NEW j \in 1 .. Len(text), i <= j,
         IsJson(SubSeq(text, i, j)), text[i] \in Opens(kind[1]),
         \A k \in i .. j : text[k] # "quoted_bracket"
  PROVE  IsSpan(text, i, j, kind[1], kind[2])
<1> DEFINE s == SubSeq(text, i, j)
           cnt == [p \in Pieces |-> Counts(p, kind[1], kind[2])]
<1>1. /\ s \in Seq(Pieces) /\ Len(s) = j - i + 1
      /\ \A k \in i .. j : k - i + 1 \in 1 .. j - i + 1 /\ s[k - i + 1] = text[k]
  BY PartOf
<1>2. \A k \in 1 .. Len(s) : s[k] # "quoted_bracket"
  <2>1. ASSUME NEW k \in 1 .. Len(s)
        PROVE  i + k - 1 \in i .. j /\ (i + k - 1) - i + 1 = k
    BY <1>1
  <2> QED BY <2>1, <1>1
<1>3. IsJson(s)
  OBVIOUS
<1>4. \A k \in i .. j : text[k] \in Pieces
  OBVIOUS
<1>5. \A k \in i .. j : cnt[text[k]] = Counts(text[k], kind[1], kind[2])
  BY <1>4
<1>6. Counts(text[i], kind[1], kind[2]) = 1
  BY DEF Counts
<1> HIDE DEF s
<1>7. PICK n \in Nat, e \in {0, 1} : Shaped(s, cnt, n, e)
  BY <1>1, <1>2, <1>3, JsonShape
<1> HIDE DEF cnt
<1>8. cnt[s[1]] = 1 /\ Len(s) \in Nat /\ Len(s) = j - i + 1
  <2>1. i \in i .. j /\ i - i + 1 = 1
    OBVIOUS
  <2> QED BY <2>1, <1>1, <1>5, <1>6
<1>9. PICK h \in [0 .. n -> Nat] : Climbs(h, s, cnt, n, e)
  BY Zenon, <1>7, <1>8, Heights
<1> DEFINE height(k) == Height(h, n, e, Len(s), k)
           f == [k \in i - 1 .. j |-> height(k - i + 1)]
<1>10. f[i - 1] = 0 /\ f[j] = 0
  BY <1>8, <1>9 DEF Climbs
<1>11. ASSUME NEW k \in i .. j
       PROVE  f[k] = f[k - 1] + cnt[text[k]] /\ (k # j => f[k] # 0)
  <2>1. /\ k - i + 1 \in 1 .. Len(s) /\ (k - i + 1) - 1 = (k - 1) - i + 1
        /\ k # j => k - i + 1 # Len(s)
        /\ k \in i - 1 .. j /\ k - 1 \in i - 1 .. j
    BY <1>8
  <2>2. f[k] = height(k - i + 1) /\ f[k - 1] = height((k - i + 1) - 1)
    BY <2>1
  <2>3. s[k - i + 1] = text[k]
    BY <1>1
  <2> HIDE DEF f
  <2> QED BY <1>9, <2>1, <2>2, <2>3 DEF Climbs
<1> HIDE DEF f
<1>12. Follows(f, text, i, j, kind[1], kind[2])
  <2>1. \A k \in i .. j : f[k] = f[k - 1] + Counts(text[k], kind[1], kind[2])
    BY <1>5, <1>11
  <2> QED BY Zenon, <1>10, <2>1 DEF Follows
<1>13. \A k \in i .. j - 1 : f[k] # 0
  BY <1>11
<1>14. i \in Nat /\ j \in Nat /\ 0 < i
  OBVIOUS
<1>15. Apart(kind[1], kind[2])
  BY Brackets
<1> QED BY Zenon, <1>6, <1>10, <1>12, <1>13, <1>14, <1>15, Spanning

-----------------------------------------------------------------------------
(* What is extracted                                                       *)

(* Of the spans to choose from there is one that starts last.              *)
LEMMA RightmostExists ==
  ASSUME NEW n \in Nat, NEW spans, spans \subseteq (1 .. n) \X (1 .. n), spans # {}
  PROVE  Rightmost(spans) \in spans
<1> DEFINE T == {n - s[1] : s \in spans}
<1>1. T \subseteq Nat /\ T # {}
  OBVIOUS
<1>2. PICK d \in T : \A e \in T : d <= e
  BY <1>1, LeastExists
<1>3. PICK s \in spans : d = n - s[1]
  OBVIOUS
<1>4. \A t \in spans : t[1] <= s[1]
  <2> SUFFICES ASSUME NEW t \in spans PROVE t[1] <= s[1]
    OBVIOUS
  <2>1. n - s[1] <= n - t[1]
    BY <1>2, <1>3
  <2>2. s[1] \in 1 .. n /\ t[1] \in 1 .. n
    OBVIOUS
  <2> QED BY <2>1, <2>2
<1> QED BY <1>3, <1>4 DEF Rightmost

LEMMA WholeIsPart ==
  ASSUME NEW text \in Seq(Pieces), text # <<>>
  PROVE  /\ SubSeq(text, 1, Len(text)) = text /\ 1 \in 1 .. Len(text)
         /\ Len(text) \in 1 .. Len(text) /\ DOMAIN text = 1 .. Len(text) /\ Len(text) \in Nat
BY SubSeqFull, EmptySeq, LenProperties

LEMMA PartIsSpan ==
  ASSUME NEW text \in Seq(Pieces), NEW p \in (1 .. Len(text)) \X (1 .. Len(text)), p[1] <= p[2],
         \A n \in p[1] .. p[2] : text[n] # "quoted_bracket"
  PROVE  /\ IsObject(SubSeq(text, p[1], p[2])) => IsSpan(text, p[1], p[2], "{", "}")
         /\ IsArray(SubSeq(text, p[1], p[2])) => IsSpan(text, p[1], p[2], "[", "]")
<1>1. /\ p[1] \in 1 .. Len(text) /\ p[2] \in 1 .. Len(text)
      /\ p[1] \in p[1] .. p[2] /\ p[1] - p[1] + 1 = 1
  OBVIOUS
<1>2. SubSeq(text, p[1], p[2])[1] = text[p[1]]
  BY <1>1, PartOf
<1>3. ASSUME NEW o, NEW c, <<o, c>> \in Kinds,
             IsJson(SubSeq(text, p[1], p[2])), text[p[1]] \in Opens(o)
      PROVE  IsSpan(text, p[1], p[2], o, c)
  <2> DEFINE kind == <<o, c>>
  <2>1. kind[1] = o /\ kind[2] = c /\ kind \in Kinds
    BY <1>3
  <2> HIDE DEF kind
  <2>2. IsSpan(text, p[1], p[2], kind[1], kind[2])
    BY <1>1, <1>3, <2>1, JsonIsSpan
  <2> QED BY <2>1, <2>2
<1>4. /\ <<"{", "}">> \in Kinds /\ <<"[", "]">> \in Kinds
      /\ "[" \in Opens("[") /\ \A piece \in {"{", "keyed"} : piece \in Opens("{")
  BY DEF Kinds, Opens
<1> QED BY Zenon, <1>2, <1>3, <1>4 DEF IsObject, IsArray

(* An answer is not lost amid prose, other values and stray brackets, but  *)
(* for one that is JSON as a whole.                                        *)
LEMMA PlainObjectFound ==
  ASSUME NEW text \in Seq(Pieces), PlainObjects(text) # {}
  PROVE  LET found == extract_json_object(text)
         IN  IF IsJson(text) /\ ~IsObject(text) THEN found.kind = "other"
             ELSE found.kind = "object" /\ <<found.from, found.to>> \in Objects(text)
<1> DEFINE spans == _find_balanced_spans(text, "{", "}")
           good  == {s \in spans : IsObject(SubSeq(text, s[1], s[2]))}
           found == extract_json_object(text)
<1>1. PICK p \in (1 .. Len(text)) \X (1 .. Len(text)) :
        /\ p[1] <= p[2] /\ IsObject(SubSeq(text, p[1], p[2]))
        /\ \A n \in p[1] .. p[2] : text[n] # "quoted_bracket"
  BY DEF PlainObjects, Objects
<1>2. p[1] \in 1 .. Len(text) /\ p[2] \in 1 .. Len(text) /\ text # <<>>
  BY <1>1
<1>3. IsSpan(text, p[1], p[2], "{", "}")
  BY Zenon, <1>1, PartIsSpan
<1>4. p \in good
  BY Zenon, <1>1, <1>2, <1>3, WholeIsPart DEF _find_balanced_spans
<1>5. good \subseteq (1 .. Len(text)) \X (1 .. Len(text))
  BY Zenon, <1>2, WholeIsPart DEF _find_balanced_spans
<1>6. good \subseteq Objects(text)
  BY Zenon, <1>2, WholeIsPart DEF _find_balanced_spans, IsSpan, Objects
<1>7. Rightmost(good) \in good
  BY <1>2, <1>4, <1>5, RightmostExists, WholeIsPart
<1>8. CASE IsJson(text)
  <2>1. found = Parsed(IF IsObject(text) THEN "object" ELSE "other", <<1, Len(text)>>)
    BY <1>8 DEF extract_json_object
  <2>2. /\ found.kind = IF IsObject(text) THEN "object" ELSE "other"
        /\ found.from = 1 /\ found.to = Len(text)
    BY <2>1 DEF Parsed
  <2>3. ASSUME IsObject(text)
        PROVE  <<1, Len(text)>> \in Objects(text)
    <3> DEFINE w == <<1, Len(text)>>
    <3>1. /\ w \in (DOMAIN text) \X (DOMAIN text) /\ w[1] = 1 /\ w[2] = Len(text)
          /\ w[1] <= w[2] /\ SubSeq(text, w[1], w[2]) = text
      BY <1>2, WholeIsPart
    <3> HIDE DEF w
    <3>2. w \in Objects(text)
      BY Zenon, <3>1, <2>3 DEF Objects
    <3> QED BY <3>2 DEF w
  <2> HIDE DEF found
  <2> QED BY Zenon, <1>8, <2>2, <2>3 DEF found
<1>9. CASE ~IsJson(text)
  <2>1. found = Parsed("object", Rightmost(good))
    BY Zenon, <1>4, <1>9 DEF extract_json_object
  <2> HIDE DEF found, good
  <2>2. found.kind = "object" /\ found.from = Rightmost(good)[1] /\ found.to = Rightmost(good)[2]
    BY <2>1 DEF Parsed
  <2>3. <<Rightmost(good)[1], Rightmost(good)[2]>> = Rightmost(good)
    BY <1>5, <1>7
  <2>4. <<found.from, found.to>> \in Objects(text)
    BY <1>6, <1>7, <2>2, <2>3
  <2> QED BY <1>9, <2>2, <2>4 DEF found
<1> QED BY <1>8, <1>9

(* Nothing is not JSON.                                                    *)
LEMMA NotEmpty ==
  ASSUME NEW text \in Seq(Pieces), IsArray(text)
  PROVE  text # <<>>
<1> SUFFICES ASSUME text = <<>>
             PROVE  FALSE
  OBVIOUS
<1>1. PICK n \in 0 .. Len(text) : 2 * n <= Len(text) /\ SubSeq(text, n + 1, Len(text) - n) \in Flat
  BY DEF IsArray, IsJson
<1>2. Len(text) = 0 /\ n = 0
  BY <1>1
<1>3. SubSeq(text, n + 1, Len(text) - n) = <<>>
  BY <1>2
<1>4. <<>> \notin Flat
  BY DEF Flat
<1> QED BY Zenon, <1>1, <1>3, <1>4

(* A text that is an array is taken as it is; one that holds an array with *)
(* no bracket in its strings yields an array of its own.                   *)
LEMMA PlainArrayFound ==
  ASSUME NEW text \in Seq(Pieces)
  PROVE  LET found == extract_json_array(text) IN
         /\ IsArray(text) => <<found.from, found.to>> = <<1, Len(text)>>
         /\ IsArray(text) \/ PlainArrays(text) # {} => found # Unparsed
         /\ found # Unparsed => <<found.from, found.to>> \in Arrays(text)
<1> DEFINE spans == _find_balanced_spans(text, "[", "]")
           good  == {s \in spans : IsArray(SubSeq(text, s[1], s[2]))}
           found == extract_json_array(text)
<1>1. good \subseteq Arrays(text)
  BY Zenon DEF _find_balanced_spans, IsSpan, Arrays
<1>2. CASE IsArray(text)
  <2> DEFINE w == <<1, Len(text)>>
  <2>1. text # <<>>
    BY <1>2, NotEmpty
  <2>2. /\ w \in (DOMAIN text) \X (DOMAIN text) /\ w[1] = 1 /\ w[2] = Len(text)
        /\ w[1] <= w[2] /\ SubSeq(text, w[1], w[2]) = text
    BY <2>1, WholeIsPart
  <2>3. found.kind = "array" /\ found.from = 1 /\ found.to = Len(text)
    BY <1>2 DEF extract_json_array, Parsed
  <2> HIDE DEF w, found
  <2>4. w \in Arrays(text)
    BY Zenon, <2>2, <1>2 DEF Arrays
  <2>5. found # Unparsed
    BY <2>3 DEF Unparsed, Parsed
  <2>6. <<found.from, found.to>> = w
    BY <2>3 DEF w
  <2> QED BY <2>4, <2>5, <2>6 DEF found, w
<1>3. CASE ~IsArray(text) /\ good = {}
  <2>1. found = Unparsed
    BY Zenon, <1>3 DEF extract_json_array
  <2>2. PlainArrays(text) = {}
    <3> SUFFICES ASSUME PlainArrays(text) # {}
                 PROVE  FALSE
      OBVIOUS
    <3>1. PICK p \in (1 .. Len(text)) \X (1 .. Len(text)) :
            /\ p[1] <= p[2] /\ IsArray(SubSeq(text, p[1], p[2]))
            /\ \A n \in p[1] .. p[2] : text[n] # "quoted_bracket"
      BY DEF PlainArrays, Arrays
    <3>2. text # <<>>
      BY <3>1
    <3>3. IsSpan(text, p[1], p[2], "[", "]")
      BY Zenon, <3>1, PartIsSpan
    <3>4. p \in good
      BY Zenon, <3>1, <3>2, <3>3, WholeIsPart DEF _find_balanced_spans
    <3> QED BY <1>3, <3>4
  <2> HIDE DEF found
  <2> QED BY <1>3, <2>1, <2>2 DEF found
<1>4. CASE ~IsArray(text) /\ good # {}
  <2>1. text # <<>>
    BY <1>4 DEF _find_balanced_spans
  <2>2. good \subseteq (1 .. Len(text)) \X (1 .. Len(text))
    BY Zenon, <2>1, WholeIsPart DEF _find_balanced_spans
  <2>3. Rightmost(good) \in good
    BY <1>4, <2>1, <2>2, RightmostExists, WholeIsPart
  <2>4. found = Parsed("array", Rightmost(good))
    BY Zenon, <1>4 DEF extract_json_array
  <2>5. /\ found.kind = "array"
        /\ found.from = Rightmost(good)[1] /\ found.to = Rightmost(good)[2]
    BY <2>4 DEF Parsed
  <2> HIDE DEF good, found
  <2>6. <<Rightmost(good)[1], Rightmost(good)[2]>> = Rightmost(good)
    BY <2>2, <2>3
  <2>7. found # Unparsed
    BY <2>5 DEF Unparsed, Parsed
  <2>8. <<found.from, found.to>> \in Arrays(text)
    BY <1>1, <2>3, <2>5, <2>6
  <2> QED BY <1>4, <2>7, <2>8 DEF found
<1> QED BY <1>2, <1>3, <1>4
=============================================================================
