---------------------------- MODULE PolicyCorpus ----------------------------
(***************************************************************************)
(* data/load_policies_to_qdrant.py and what retrieve_policy reads back: the*)
(* files of a policy become points of the collection, one per chunk.       *)
(*                                                                         *)
(* A file is its version, its date and its paragraphs, a paragraph its     *)
(* length, none of them empty; a text is a sequence of paragraphs, two     *)
(* characters apart.  The collection is loaded before anyone reads it.     *)
(***************************************************************************)
EXTENDS PolicyVersion, SequencesExt

CONSTANT max_chars

ASSUME CorpusAssumption == max_chars \in Nat \ {0}

File == [version: Nat, date: Nat, paragraphs: Seq(Nat \ {0})]

Sum(text) ==
  LET upto[n \in 0 .. Len(text)] == IF n = 0 THEN 0 ELSE upto[n - 1] + text[n]
  IN  upto[Len(text)]

Size(text) == Sum(text) + 2 * (IF text = <<>> THEN 0 ELSE Len(text) - 1)

Full(current, p) == Size(current) + p > max_chars /\ current # <<>>

(* The loop's step: acc is <<chunks, current>>.                            *)
AddParagraph(acc, p) ==
  IF Full(acc[2], p) THEN <<Append(acc[1], acc[2]), <<p>>>>
                     ELSE <<acc[1], Append(acc[2], p)>>

(* The loop, after all paragraphs.                                         *)
Loop(paragraphs) ==
  LET acc[n \in 0 .. Len(paragraphs)] ==
        IF n = 0 THEN <<<<>>, <<>>>> ELSE AddParagraph(acc[n - 1], paragraphs[n])
  IN  acc[Len(paragraphs)]

(* Mutant of chunk_text: what is left after the loop is forgotten.         *)
chunk_text_dropping(paragraphs) == Loop(paragraphs)[1]

chunk_text(paragraphs) ==
  LET acc == Loop(paragraphs)
  IN  IF acc[2] = <<>> THEN acc[1] ELSE Append(acc[1], acc[2])

(* main: the points, numbered in the order of the files.                   *)
PointsOf(file) ==
  LET texts == chunk_text(file.paragraphs)
  IN  [i \in DOMAIN texts |-> [version |-> file.version, date |-> file.date,
                               chunk_index |-> i, text |-> texts[i]]]

all_chunks(files) == FlattenSeq([n \in DOMAIN files |-> PointsOf(files[n])])

(* The chunks of a version, by their index and then as they come.          *)
version_chunks(chunks, version) == {i \in DOMAIN chunks : chunks[i].version = version}

Before(chunks, i, j) ==
  \/ chunks[i].chunk_index < chunks[j].chunk_index
  \/ chunks[i].chunk_index = chunks[j].chunk_index /\ i < j

sorted(chunks, version) ==
  LET rows == version_chunks(chunks, version)
  IN  [n \in 1 .. Cardinality(rows) |->
         CHOOSE j \in rows : Cardinality({i \in rows : Before(chunks, i, j)}) = n - 1]

(* The text returned.                                                      *)
policy_text(chunks, version) ==
  LET rows == sorted(chunks, version)
  IN  FlattenSeq([n \in DOMAIN rows |-> chunks[rows[n]].text])
=============================================================================
