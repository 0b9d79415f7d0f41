--------------------------- MODULE MCInvestigator ---------------------------
(* Finite instances of Investigator for TLC.                               *)
EXTENDS Investigator

TextsOver(pieces, n) == UNION {[1 .. m -> pieces] : m \in 0 .. n}

(* An object inside an object, and a bracket inside a string.              *)
MCDeepTexts ==
  {<<"prose">> \o t \o u : t \in {<<"keyed", "{", "}", "}">>,
                                  <<"{", "quoted_bracket", "}">>,
                                  <<"{", "member", "}">>},
                           u \in {<<>>, <<"prose">>}}

(* Arrays and objects around a value or one another, alone and amid prose. *)
MCNested ==
  UNION {{v, <<"prose">> \o v, v \o <<"prose">>} :
    v \in {<<"[", "{", "member", "}", "]">>, <<"keyed", "[", "]", "}">>, <<"keyed", "value", "}">>,
           <<"[", "keyed", "{", "}", "}", "]">>, <<"[", "[", "]", "]">>, <<"[", "{", "}", "{", "}", "]">>}}

(* Every text of four pieces with flat objects amid prose and stray        *)
(* brackets, every text of three with arrays, and some longer ones.        *)
MCTexts ==
  TextsOver({"{", "}", "prose", "member"}, 4)
  \cup TextsOver({"{", "}", "[", "]", "keyed", "value"}, 3)
  \cup MCDeepTexts \cup MCNested
  \cup {<<"{", "}", p, "{", "}">> : p \in {"{", "}", "prose"}}

(* A policy without a file, with one, and with two whose dates are in      *)
(* either order or the same; the last has more chunks than are fetched.    *)
(* Paragraphs fit a chunk, fill it or exceed it.                           *)
MCFile(v, d, text) == [version |-> v, date |-> d, paragraphs |-> text]

MCFolders ==
  {<<>>, <<MCFile(1, 1, <<3>>)>>,
   <<MCFile(1, 1, <<2, 1, 3, 2>>), MCFile(2, 2, <<5, 2, 2>>)>>,
   <<MCFile(1, 2, <<2, 2>>), MCFile(2, 1, <<1, 5, 1>>)>>,
   <<MCFile(1, 1, <<4, 1>>), MCFile(2, 1, <<1, 1, 1>>)>>,
   <<MCFile(1, 1, <<5, 4, 5>>), MCFile(2, 2, <<5, 4, 5>>)>>}
=============================================================================
