----------------------------- MODULE JsonSpans -----------------------------
(***************************************************************************)
(* utils/json_extract.py: the JSON object or array amid the prose of an    *)
(* LLM.                                                                    *)
(*                                                                         *)
(* A text is a sequence of pieces: the brackets, prose, one well-formed    *)
(* member, a member with a closing bracket in its string, a JSON value of  *)
(* another kind (a number, a string, null), and "keyed", an opening brace  *)
(* with the key of a member whose value comes next.  An object has one     *)
(* member at most, and an array one element: that is enough for flat and   *)
(* nested ones, and for brackets that are not JSON's.                      *)
(***************************************************************************)
EXTENDS Integers, Sequences, FiniteSets, FiniteSetsExt

Pieces == {"{", "keyed", "}", "[", "]", "prose", "member", "quoted_bracket", "value"}

(* What json.loads takes as a value in one piece, or with nothing nested.  *)
Flat == {<<"value">>, <<"[", "]">>, <<"{", "}">>,
         <<"{", "member", "}">>, <<"{", "quoted_bracket", "}">>}

(* json.loads accepts s: n arrays and objects around such a value.         *)
IsJson(s) ==
  \E n \in 0 .. Len(s) :
    /\ 2 * n <= Len(s)
    /\ \A k \in 1 .. n : <<s[k], s[Len(s) + 1 - k]>> \in {<<"[", "]">>, <<"keyed", "}">>}
    /\ SubSeq(s, n + 1, Len(s) - n) \in Flat

IsArray(s) == IsJson(s) /\ s[1] = "["
IsObject(s) == IsJson(s) /\ s[1] \in {"{", "keyed"}

(* The pieces that count as an opening bracket.                            *)
Opens(open_ch) == IF open_ch = "{" THEN {"{", "keyed"} ELSE {open_ch}

(* Brackets are counted without regard to strings.                         *)
Depth(text, i, j, open_ch, close_ch) ==
    Cardinality({n \in i .. j : text[n] \in Opens(open_ch)})
  - Cardinality({n \in i .. j : text[n] \in {close_ch, "quoted_bracket"}})

(* The bracket that brings the count back to zero, if there is one.        *)
IsSpan(text, i, j, open_ch, close_ch) ==
  /\ i <= j /\ text[i] \in Opens(open_ch)
  /\ Depth(text, i, j, open_ch, close_ch) = 0
  /\ \A n \in i .. j - 1 : Depth(text, i, n, open_ch, close_ch) # 0

(* Mutant of _find_balanced_spans: from the first opening bracket only.    *)
spans_of_first(text, open_ch, close_ch) ==
  {s \in (DOMAIN text) \X (DOMAIN text) :
     IsSpan(text, s[1], s[2], open_ch, close_ch) /\ \A i \in 1 .. s[1] - 1 : text[i] \notin Opens(open_ch)}

_find_balanced_spans(text, open_ch, close_ch) ==
  {s \in (DOMAIN text) \X (DOMAIN text) : IsSpan(text, s[1], s[2], open_ch, close_ch)}

Parsed(kind, span) == [kind |-> kind, from |-> span[1], to |-> span[2]]
Unparsed == Parsed("error", <<0, 0>>)

(* The span that starts last.                                              *)
Rightmost(spans) == CHOOSE s \in spans : \A t \in spans : t[1] <= s[1]

(* The whole text as it is, whatever JSON it holds, a list included; else  *)
(* the spans, the one that starts last first.                              *)
extract_json_object(text) ==
  LET good == {s \in _find_balanced_spans(text, "{", "}") : IsObject(SubSeq(text, s[1], s[2]))}
  IN  IF IsJson(text)
      THEN Parsed(IF IsObject(text) THEN "object" ELSE "other", <<1, Len(text)>>)
      ELSE IF good = {} THEN Unparsed
      ELSE Parsed("object", Rightmost(good))

(* Only a list will do, also where the whole text is JSON.                 *)
extract_json_array(text) ==
  LET good == {s \in _find_balanced_spans(text, "[", "]") : IsArray(SubSeq(text, s[1], s[2]))}
  IN  IF IsArray(text) THEN Parsed("array", <<1, Len(text)>>)
      ELSE IF good = {} THEN Unparsed
      ELSE Parsed("array", Rightmost(good))

-----------------------------------------------------------------------------
(* Reference definitions                                                   *)

Objects(text) ==
  {s \in (DOMAIN text) \X (DOMAIN text) : s[1] <= s[2] /\ IsObject(SubSeq(text, s[1], s[2]))}

(* The objects that are not part of another one.                           *)
WholeObjects(text) ==
  {s \in Objects(text) :
     \A t \in Objects(text) : t[1] <= s[1] /\ s[2] <= t[2] => t = s}

(* An object none of whose strings holds a bracket.                        *)
PlainObjects(text) ==
  {s \in Objects(text) : \A n \in s[1] .. s[2] : text[n] # "quoted_bracket"}

(* The arrays of a text, and those none of whose strings holds a bracket.  *)
Arrays(text) ==
  {s \in (DOMAIN text) \X (DOMAIN text) : s[1] <= s[2] /\ IsArray(SubSeq(text, s[1], s[2]))}

PlainArrays(text) ==
  {s \in Arrays(text) : \A n \in s[1] .. s[2] : text[n] # "quoted_bracket"}
=============================================================================
