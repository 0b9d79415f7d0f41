------------------------ MODULE MCStatementIngestion ------------------------
(* Finite instances of StatementIngestion for TLC.                         *)
EXTENDS StatementIngestion, TLC

CONSTANTS c1, c2, l1

MCStatement == [c \in Cases |-> CHOOSE t \in Txn : TRUE]

Symmetry == Permutations(Invs)

ARow(c) == [kind |-> "valid", case |-> c, hit |-> l1]

(* Same id, another reference: this one matches nothing.                   *)
Unmatched(c) == [ARow(c) EXCEPT !.hit = None]

Invalid == [ARow(c1) EXCEPT !.kind = "invalid"]

Malformed == [ARow(c1) EXCEPT !.kind = "malformed"]

(* A page whose answer has rows in each of its arrays.                     *)
Replied(reply, rows) ==
  [text |-> [len |-> 9, replacement |-> 5, printable |-> 70],
   call |-> "answered", reply |-> reply, rows |-> [a \in Arrays(reply) |-> rows]]

APage(rows) == Replied(<<"prose", "[", "{", "}", "]">>, rows)

(* With a bracket of the prose in front of it, or nothing else.            *)
Stray(rows) == Replied(<<"[", "prose", "[", "{", "}", "]">>, rows)
Bare(rows)  == Replied(<<"[", "{", "}", "]">>, rows)

Garbled(p) == [p EXCEPT !.text.replacement = 6]

Blank == [len |-> 0, replacement |-> 0, printable |-> 0]

(* A page with a bad row, and one the vision model fails on; one           *)
(* transaction on two pages, one of them garbled; and an answer without an *)
(* array, and a row that fails.                                            *)
MCStatements == {
  <<Stray(<<ARow(c1), Invalid, ARow(c2)>>),
    [APage(<<>>) EXCEPT !.text = Blank, !.call = "failed"]>>,
  <<Garbled(Bare(<<ARow(c2)>>)), APage(<<Unmatched(c2)>>)>>,
  <<Replied(<<"prose">>, <<>>), APage(<<ARow(c2), Malformed>>)>>}
=============================================================================
