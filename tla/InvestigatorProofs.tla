------------------------- MODULE InvestigatorProofs -------------------------
(***************************************************************************)
(* One call of investigate(), for any limit of rounds, any number of tool  *)
(* calls in a message, any texts of the model and any policies.            *)
(***************************************************************************)
EXTENDS Investigator, JsonSpansProofs, PolicyCorpusProofs

-----------------------------------------------------------------------------
(* What extraction yields                                                  *)

(* An object, the whole text if that is JSON of another kind, or nothing.  *)
LEMMA ExtractKinds ==
  ASSUME NEW text
  PROVE  /\ extract_json_object(text).kind \in {"object", "other", "error"}
         /\ extract_json_object(text) # Unparsed =>
              extract_json_object(text).kind \in {"object", "other"}
         /\ ~(IsJson(text) /\ ~IsObject(text)) => extract_json_object(text).kind # "other"
<1>1. \/ \E span : extract_json_object(text) = Parsed("object", span)
      \/ IsJson(text) /\ ~IsObject(text) /\ extract_json_object(text) = Parsed("other", <<1, Len(text)>>)
      \/ extract_json_object(text) = Unparsed
  BY DEF extract_json_object
<1>2. /\ \A span : Parsed("object", span).kind = "object"
      /\ \A span : Parsed("other", span).kind = "other"
      /\ Unparsed.kind = "error"
  BY DEF Parsed, Unparsed
<1> QED BY <1>1, <1>2

(* Nothing is made up.                                                     *)
LEMMA NoObjectFound ==
  ASSUME NEW text \in Seq(Pieces), Objects(text) = {}, ~(IsJson(text) /\ ~IsObject(text))
  PROVE  extract_json_object(text) = Unparsed
<1> DEFINE good == {s \in _find_balanced_spans(text, "{", "}") : IsObject(SubSeq(text, s[1], s[2]))}
<1>1. good \subseteq Objects(text)
  BY Zenon DEF _find_balanced_spans, IsSpan, Objects
<1>2. ~IsObject(text)
  <2> SUFFICES ASSUME IsObject(text) PROVE FALSE
    OBVIOUS
  <2> DEFINE w == <<1, Len(text)>>
  <2>1. text # <<>>
    <3> SUFFICES ASSUME Len(text) = 0 PROVE FALSE
      BY LenProperties
    <3>1. PICK n \in 0 .. Len(text) : SubSeq(text, n + 1, Len(text) - n) \in Flat
      BY DEF IsObject, IsJson
    <3>2. SubSeq(text, n + 1, Len(text) - n) = <<>>
      <4>1. n + 1 \in Int /\ Len(text) - n \in Int /\ Len(text) - n < n + 1
        OBVIOUS
      <4> QED BY <4>1, SubSeqEmpty
    <3>3. <<>> \notin Flat
      BY DEF Flat
    <3> QED BY <3>1, <3>2, <3>3
  <2>2. /\ w \in (DOMAIN text) \X (DOMAIN text) /\ w[1] = 1 /\ w[2] = Len(text)
        /\ w[1] <= w[2] /\ SubSeq(text, w[1], w[2]) = text
    BY <2>1, WholeIsPart
  <2> HIDE DEF w
  <2>3. w \in Objects(text)
    BY Zenon, <2>2 DEF Objects
  <2> QED BY <2>3
<1>3. ~IsJson(text)
  BY <1>2
<1> QED BY Zenon, <1>1, <1>3 DEF extract_json_object

-----------------------------------------------------------------------------
(* Types, rounds and costs                                                 *)

(* The limit is not exceeded because nobody asks at it; a conclusion that  *)
(* is no object does not get past the reflection.                          *)
LoopInv ==
  /\ TypeOK
  /\ pc = "gather" => iteration = 0
  /\ pc = "ask" => iteration < MAX_REACT_ITERATIONS
  /\ pc \in {"reflect", "revise"} => IsConclusion(tentative)
  /\ pc = "revise" => tentative.kind # "other"
  /\ pc \notin {"returned", "raised"} => total_cost = spent
  /\ pc = "returned" => final.cost = spent

LEMMA LoopInit == Init => LoopInv
<1> SUFFICES ASSUME Init PROVE LoopInv
  OBVIOUS
<1> QED BY InvestigatorAssumption DEF Init, LoopInv, TypeOK

(* What a message with tool calls adds.                                    *)
LEMMA Asked ==
  ASSUME LoopInv, AskForTools
  PROVE  \E n \in 1 .. MaxToolCalls, new \in Seq(Message), calls \in Seq(CallId) :
           /\ messages' = messages \o new /\ pending' = calls
           /\ Len(new) = n /\ Len(calls) = n
           /\ \A k \in 1 .. n : /\ calls[k] = <<iteration', k>>
                                /\ new[k] = [role |-> "assistant", call |-> calls[k]]
<1>1. PICK n \in 1 .. MaxToolCalls :
        /\ pending' = [i \in 1 .. n |-> <<iteration', i>>]
        /\ messages' = messages \o [i \in 1 .. n |->
             [role |-> "assistant", call |-> [k \in 1 .. n |-> <<iteration', k>>][i]]]
  BY DEF AskForTools
<1> DEFINE calls == [i \in 1 .. n |-> <<iteration', i>>]
           new == [i \in 1 .. n |-> [role |-> "assistant", call |-> calls[i]]]
<1>2. iteration' \in 1 .. MAX_REACT_ITERATIONS /\ n \in Nat
  BY InvestigatorAssumption DEF LoopInv, TypeOK, AskForTools, Complete
<1>3. \A k \in 1 .. n : calls[k] \in CallId /\ calls[k] = <<iteration', k>>
  <2> SUFFICES ASSUME NEW k \in 1 .. n
               PROVE  calls[k] \in CallId /\ calls[k] = <<iteration', k>>
    OBVIOUS
  <2>1. k \in 1 .. MaxToolCalls
    BY InvestigatorAssumption
  <2> QED BY <1>2, <2>1 DEF CallId
<1>4. calls \in Seq(CallId) /\ Len(calls) = n
  BY <1>2, <1>3
<1>5. \A k \in 1 .. n : new[k] = [role |-> "assistant", call |-> calls[k]]
  OBVIOUS
<1>6. new \in Seq(Message) /\ Len(new) = n
  <2>1. \A k \in 1 .. n : new[k] \in Message
    BY <1>3, <1>5 DEF Message
  <2> QED BY <1>2, <2>1
<1>7. messages' = messages \o new /\ pending' = calls
  BY <1>1
<1> HIDE DEF calls, new
<1> QED BY <1>3, <1>4, <1>5, <1>6, <1>7

(* What a call adds: the head of the pending ones is answered.             *)
LEMMA Dispatched ==
  ASSUME LoopInv, _dispatch_tool
  PROVE  \E c \in CallId :
           /\ pending # <<>> /\ c = pending[1]
           /\ [role |-> "tool", call |-> c] \in Message
           /\ messages' = Append(messages, [role |-> "tool", call |-> c])
           /\ pending' = Tail(pending)
           /\ messages' \in Seq(Message) /\ pending' \in Seq(CallId)
<1>1. messages \in Seq(Message) /\ pending \in Seq(CallId) /\ pending # <<>>
  BY DEF LoopInv, TypeOK, _dispatch_tool
<1>2. pending[1] \in CallId /\ Tail(pending) \in Seq(CallId) /\ Head(pending) = pending[1]
  BY <1>1
<1>3. [role |-> "tool", call |-> pending[1]] \in Message
  BY <1>2 DEF Message
<1>4. Append(messages, [role |-> "tool", call |-> pending[1]]) \in Seq(Message)
  BY <1>1, <1>3
<1> QED BY <1>1, <1>2, <1>3, <1>4 DEF _dispatch_tool

LEMMA LoopStep == LoopInv /\ [Next]_vars => LoopInv'
<1> SUFFICES ASSUME LoopInv, [Next]_vars PROVE LoopInv'
  OBVIOUS
<1>1. CASE AskForTools
  <2>1. messages' \in Seq(Message) /\ pending' \in Seq(CallId)
    <3>1. messages \in Seq(Message)
      BY DEF LoopInv, TypeOK
    <3>2. PICK new \in Seq(Message), calls \in Seq(CallId) :
            messages' = messages \o new /\ pending' = calls
      BY <1>1, Asked
    <3> QED BY <3>1, <3>2
  <2>2. iteration' \in 0 .. MAX_REACT_ITERATIONS
    BY <1>1, InvestigatorAssumption DEF LoopInv, TypeOK, AskForTools, Complete
  <2> QED BY <1>1, <2>1, <2>2 DEF LoopInv, TypeOK, AskForTools, Complete
<1>2. CASE Conclude
  <2>1. iteration' \in 0 .. MAX_REACT_ITERATIONS
    BY <1>2, InvestigatorAssumption DEF LoopInv, TypeOK, Conclude, Complete
  <2>2. PICK text \in Texts \cup {None} :
          /\ reply' = text
          /\ IF text = None
             THEN pc' = "raised" /\ UNCHANGED tentative
             ELSE /\ pc' = "reflect"
                  /\ tentative' = IF extract_json_object(text) = Unparsed
                                  THEN Unresolved ELSE extract_json_object(text)
    BY <1>2 DEF Conclude
  <2>3. pc' = "reflect" => IsConclusion(tentative')
    BY <2>2, ExtractKinds DEF IsConclusion, Unresolved
  <2>4. tentative' = None \/ IsConclusion(tentative')
    BY <2>2, <2>3 DEF LoopInv, TypeOK
  <2>5. pc' \in {"raised", "reflect"}
    BY <2>2
  <2> QED BY <1>2, <2>1, <2>2, <2>3, <2>4, <2>5 DEF LoopInv, TypeOK, Conclude, Complete
<1>3. CASE _dispatch_tool
  <2>1. messages' \in Seq(Message) /\ pending' \in Seq(CallId)
    BY <1>3, Dispatched
  <2> QED BY <1>3, <2>1 DEF LoopInv, TypeOK, _dispatch_tool
<1>4. CASE Again
  <2>1. IsConclusion(Unresolved)
    BY DEF IsConclusion, Unresolved
  <2>2. CASE iteration < MAX_REACT_ITERATIONS
    BY <1>4, <2>2 DEF LoopInv, TypeOK, Again
  <2>3. CASE ~(iteration < MAX_REACT_ITERATIONS)
    <3>1. /\ pc' = "reflect" /\ tentative' = Unresolved /\ messages' = <<>>
          /\ pc = "tools"
      BY <1>4, <2>3 DEF Again
    <3>2. messages' \in Seq(Message)
      BY <3>1
    <3> QED BY <1>4, <2>1, <3>1, <3>2 DEF LoopInv, TypeOK, Again
  <2> QED BY <2>2, <2>3
<1>5. CASE _reflect
  BY <1>5 DEF LoopInv, TypeOK, _reflect
<1>6. CASE Revise
  <2>1. PICK text \in Texts \cup {None} :
          /\ reply' = text
          /\ IF text = None \/ (IsJson(text) /\ ~IsObject(text))
             THEN pc' = "raised" /\ UNCHANGED final
             ELSE /\ pc' = "returned"
                  /\ final' = Result(IF extract_json_object(text) = Unparsed
                                     THEN tentative ELSE extract_json_object(text))
    BY <1>6 DEF Revise
  <2>2. CASE text = None \/ (IsJson(text) /\ ~IsObject(text))
    BY <1>6, <2>1, <2>2 DEF LoopInv, TypeOK, Revise
  <2>3. CASE ~(text = None \/ (IsJson(text) /\ ~IsObject(text)))
    <3>1. PICK conclusion : /\ final' = Result(conclusion)
                            /\ conclusion.kind \in {"object", "unresolved"}
      <4>1. tentative.kind \in {"object", "unresolved"}
        BY <1>6 DEF LoopInv, IsConclusion, Revise
      <4>2. extract_json_object(text) # Unparsed =>
              extract_json_object(text).kind \in {"object", "unresolved"}
        BY <2>3, ExtractKinds
      <4> QED BY <2>1, <2>3, <4>1, <4>2
    <3>2. final'.conclusion = conclusion /\ final'.cost = total_cost + 1
      BY <3>1 DEF Result
    <3> QED BY <1>6, <2>1, <2>3, <3>1, <3>2 DEF LoopInv, TypeOK, Revise
  <2> QED BY <2>2, <2>3
<1>7. CASE _rewoo_initial_gather
  BY <1>7, InvestigatorAssumption DEF LoopInv, TypeOK, _rewoo_initial_gather
<1>8. CASE Running /\ Raise
  BY <1>8 DEF LoopInv, TypeOK, Raise
<1>9. CASE UNCHANGED vars
  BY <1>9 DEF LoopInv, TypeOK, vars
<1> QED BY <1>1, <1>2, <1>3, <1>4, <1>5, <1>6, <1>7, <1>8, <1>9 DEF Next, Step

LEMMA LoopInvariance == Spec => []LoopInv
<1> QED BY LoopInit, LoopStep, PTL DEF Spec

(* Every variable keeps its type: the loop's limit holds, and what is      *)
(* returned to the workflow is an object or the code's own "unresolved".   *)
THEOREM TypeCorrect == Spec => []TypeOK
<1>1. LoopInv => TypeOK
  BY DEF LoopInv
<1> QED BY <1>1, LoopInvariance, PTL

(* On every path to a result its cost is that of all completions made.     *)
THEOREM CostsAddUp == Spec => []CostAccounted
<1>1. LoopInv => CostAccounted
  BY DEF LoopInv, CostAccounted
<1> QED BY <1>1, LoopInvariance, PTL

-----------------------------------------------------------------------------
(* The answers                                                             *)

(* There is a reply only from where something has been made of it.         *)
AnswerInv ==
  /\ AnswerKept
  /\ pc \in {"gather", "ask", "tools", "revise"} => reply = None

LEMMA AnswerConcluded ==
  ASSUME LoopInv, AnswerInv, Conclude
  PROVE  AnswerInv'
<1>1. PICK text \in Texts \cup {None} :
        /\ reply' = text
        /\ IF text = None
           THEN pc' = "raised" /\ UNCHANGED tentative
           ELSE /\ pc' = "reflect"
                /\ tentative' = IF extract_json_object(text) = Unparsed
                                THEN Unresolved ELSE extract_json_object(text)
  BY DEF Conclude
<1>2. CASE text = None
  BY <1>1, <1>2 DEF AnswerInv, AnswerKept
<1>3. CASE text # None
  <2>1. text \in Seq(Pieces) /\ pc' = "reflect"
    BY <1>1, <1>3, InvestigatorAssumption
  <2>2. ASSUME PlainObjects(text) # {}, IsJson(text) => IsObject(text)
        PROVE  /\ tentative'.kind = "object"
               /\ <<tentative'.from, tentative'.to>> \in Objects(text)
    <3> DEFINE found == extract_json_object(text)
    <3>1. found.kind = "object" /\ <<found.from, found.to>> \in Objects(text)
      BY Zenon, <2>1, <2>2, PlainObjectFound
    <3> HIDE DEF found
    <3>2. Unparsed.kind = "error"
      BY DEF Unparsed, Parsed
    <3>3. tentative' = found
      BY Zenon, <1>1, <1>3, <3>1, <3>2 DEF found
    <3> QED BY <3>1, <3>3
  <2> QED BY Zenon, <1>1, <2>1, <2>2 DEF AnswerInv, AnswerKept
<1> QED BY <1>2, <1>3

LEMMA AnswerRevised ==
  ASSUME LoopInv, AnswerInv, Revise
  PROVE  AnswerInv'
<1>1. PICK text \in Texts \cup {None} :
        /\ reply' = text
        /\ IF text = None \/ (IsJson(text) /\ ~IsObject(text))
           THEN pc' = "raised" /\ UNCHANGED final
           ELSE /\ pc' = "returned"
                /\ final' = Result(IF extract_json_object(text) = Unparsed
                                   THEN tentative ELSE extract_json_object(text))
  BY DEF Revise
<1>2. UNCHANGED tentative
  BY DEF Revise
<1>3. CASE text = None
  BY <1>1, <1>3 DEF AnswerInv, AnswerKept
<1>4. CASE text # None /\ IsJson(text) /\ ~IsObject(text)
  BY Zenon, <1>1, <1>4 DEF AnswerInv, AnswerKept
<1>5. CASE text # None /\ ~(IsJson(text) /\ ~IsObject(text))
  <2> DEFINE found == extract_json_object(text)
             conclusion == IF found = Unparsed THEN tentative ELSE found
  <2>1. text \in Seq(Pieces) /\ pc' = "returned"
    BY <1>1, <1>5, InvestigatorAssumption
  <2>2. final'.conclusion = conclusion
    <3>1. final' = Result(conclusion)
      BY <1>1, <1>5
    <3> HIDE DEF conclusion
    <3> QED BY <3>1 DEF Result
  <2>3. PlainObjects(text) # {} =>
          found.kind = "object" /\ <<found.from, found.to>> \in Objects(text)
    BY Zenon, <1>5, <2>1, PlainObjectFound
  <2>4. Objects(text) = {} => found = Unparsed
    BY Zenon, <1>5, <2>1, NoObjectFound
  <2> HIDE DEF found
  <2>5. Unparsed.kind = "error"
    BY DEF Unparsed, Parsed
  <2>6. /\ PlainObjects(text) # {} =>
             conclusion.kind = "object" /\ <<conclusion.from, conclusion.to>> \in Objects(text)
        /\ Objects(text) = {} => conclusion = tentative
    BY <2>3, <2>4, <2>5
  <2> HIDE DEF conclusion
  <2> QED BY Zenon, <1>1, <1>2, <2>1, <2>2, <2>6 DEF AnswerInv, AnswerKept
<1> QED BY <1>3, <1>4, <1>5

LEMMA AnswerStep == LoopInv /\ AnswerInv /\ [Next]_vars => AnswerInv'
<1> SUFFICES ASSUME LoopInv, AnswerInv, [Next]_vars PROVE AnswerInv'
  OBVIOUS
<1>1. CASE AskForTools
  BY Zenon, <1>1 DEF AnswerInv, AnswerKept, AskForTools, Complete
<1>2. CASE Conclude
  BY <1>2, AnswerConcluded
<1>3. CASE _dispatch_tool
  BY Zenon, <1>3 DEF AnswerInv, AnswerKept, _dispatch_tool
<1>4. CASE Again
  BY Zenon, <1>4 DEF AnswerInv, AnswerKept, Again
<1>5. CASE _reflect
  BY Zenon, <1>5 DEF AnswerInv, AnswerKept, _reflect
<1>6. CASE Revise
  BY <1>6, AnswerRevised
<1>7. CASE _rewoo_initial_gather
  BY Zenon, <1>7 DEF AnswerInv, AnswerKept, _rewoo_initial_gather
<1>8. CASE Running /\ Raise
  BY Zenon, <1>8 DEF AnswerInv, AnswerKept, Raise, Running
<1>9. CASE UNCHANGED vars
  BY Zenon, <1>9 DEF AnswerInv, AnswerKept, vars
<1> QED BY <1>1, <1>2, <1>3, <1>4, <1>5, <1>6, <1>7, <1>8, <1>9 DEF Next, Step

(* An answer with an object that has no bracket in its strings, and that is*)
(* not JSON of another kind as a whole, is not lost: one of its objects is *)
(* what the loop concludes, or what the reflection returns; and where there*)
(* is none, the conclusion stays (utils/json_extract.py and its callers).  *)
THEOREM AnswerAlwaysKept == Spec => []AnswerKept
<1>1. Init => AnswerInv
  BY DEF Init, AnswerInv, AnswerKept
<1>2. AnswerInv => AnswerKept
  BY DEF AnswerInv
<1> QED BY <1>1, <1>2, AnswerStep, LoopInvariance, PTL DEF Spec

-----------------------------------------------------------------------------
(* The protocol of tool calls                                              *)

Answer(c) == [role |-> "tool", call |-> c]

(* Message m is the one answer to call c, and comes after place i.         *)
AnsweredOnce(m, i, c) ==
  \E j \in DOMAIN m :
    /\ j > i /\ m[j] = Answer(c)
    /\ \A k \in DOMAIN m : m[k] = Answer(c) => k = j

Awaited(p, c) == \E k \in DOMAIN p : p[k] = c

(* Rounds follow one another; what is pending is of this round, differs,   *)
(* and has no answer; what is not, has one.                                *)
Chat(m, p, n) ==
  /\ \A i, j \in DOMAIN m : i <= j => m[i].call[1] <= m[j].call[1]
  /\ \A i \in DOMAIN m : m[i].call[1] <= n
  /\ \A k \in DOMAIN p : p[k][1] = n /\ \A j \in DOMAIN m : m[j] # Answer(p[k])
  /\ \A k, l \in DOMAIN p : p[k] = p[l] => k = l
  /\ \A i \in DOMAIN m : m[i].role = "assistant" =>
       Awaited(p, m[i].call) \/ AnsweredOnce(m, i, m[i].call)

ChatInv == Chat(messages, pending, iteration) /\ (pc \in {"gather", "ask"} => pending = <<>>)

LEMMA AnswerOf == \A c, d : Answer(c) = Answer(d) => c = d
<1> SUFFICES ASSUME NEW c, NEW d, Answer(c) = Answer(d) PROVE c = d
  OBVIOUS
<1>1. Answer(c).call = c /\ Answer(d).call = d
  BY DEF Answer
<1> QED BY <1>1

(* New calls go behind, in a round of their own.                           *)
LEMMA ChatAsked ==
  ASSUME NEW m \in Seq(Message), NEW r \in Nat, Chat(m, <<>>, r),
         NEW n \in Nat, NEW new \in Seq(Message), NEW calls \in Seq(CallId),
         Len(new) = n, Len(calls) = n,
         \A k \in 1 .. n : calls[k] = <<r + 1, k>> /\ new[k] = [role |-> "assistant", call |-> calls[k]]
  PROVE  Chat(m \o new, calls, r + 1)
<1> DEFINE all == m \o new
<1>1. /\ all \in Seq(Message) /\ Len(all) = Len(m) + n
      /\ \A i \in 1 .. Len(m) : all[i] = m[i]
      /\ \A i \in Len(m) + 1 .. Len(all) : all[i] = new[i - Len(m)]
  <2>1. Len(m) \in Nat /\ all \in Seq(Message)
    OBVIOUS
  <2>2. Len(all) = Len(m) + n
    OBVIOUS
  <2>3. \A i \in 1 .. Len(m) + n : all[i] = IF i <= Len(m) THEN m[i] ELSE new[i - Len(m)]
    OBVIOUS
  <2> HIDE DEF all
  <2> QED BY <2>1, <2>2, <2>3
<1> HIDE DEF all
<1>2. ASSUME NEW i \in DOMAIN all
      PROVE  \/ i \in DOMAIN m /\ all[i] = m[i]
             \/ /\ i > Len(m) /\ i - Len(m) \in 1 .. n
                /\ all[i].role = "assistant" /\ all[i].call = calls[i - Len(m)]
  <2>1. CASE i \in 1 .. Len(m)
    BY <1>1, <2>1
  <2>2. CASE i \in Len(m) + 1 .. Len(all)
    <3>1. PICK k \in 1 .. n : k = i - Len(m)
      BY <1>1, <2>2
    <3>2. all[i] = [role |-> "assistant", call |-> calls[k]]
      BY <1>1, <2>2, <3>1
    <3> QED BY <2>2, <3>1, <3>2
  <2> QED BY <1>1, <2>1, <2>2
<1>3. \A i \in DOMAIN m : m[i].call[1] \in Nat /\ m[i].call[1] <= r
  <2>1. \A i \in DOMAIN m : m[i] \in Message
    OBVIOUS
  <2> QED BY <2>1, InvestigatorAssumption DEF Chat, Message, CallId
<1>4. \A i \in DOMAIN all : \/ i \in DOMAIN m /\ all[i].call[1] = m[i].call[1]
                            \/ i > Len(m) /\ all[i].call[1] = r + 1
  BY <1>2
<1>5. \A i, j \in DOMAIN all : i <= j => all[i].call[1] <= all[j].call[1]
  <2> SUFFICES ASSUME NEW i \in DOMAIN all, NEW j \in DOMAIN all, i <= j
               PROVE  all[i].call[1] <= all[j].call[1]
    OBVIOUS
  <2>1. CASE j \in DOMAIN m /\ all[j].call[1] = m[j].call[1]
    <3>1. i \in DOMAIN m /\ all[i].call[1] = m[i].call[1]
      BY <1>1, <1>4, <2>1
    <3> QED BY <2>1, <3>1 DEF Chat
  <2>2. CASE all[j].call[1] = r + 1
    BY <1>3, <1>4, <2>2
  <2> QED BY <1>4, <2>1, <2>2
<1>6. \A i \in DOMAIN all : all[i].call[1] <= r + 1
  BY <1>3, <1>4
<1>7. ASSUME NEW k \in DOMAIN calls, NEW j \in DOMAIN all
      PROVE  calls[k][1] = r + 1 /\ all[j] # Answer(calls[k])
  <2>1. calls[k][1] = r + 1
    BY <1>7
  <2>2. Answer(calls[k]).call[1] = r + 1 /\ Answer(calls[k]).role = "tool"
    BY <2>1 DEF Answer
  <2>3. CASE j \in DOMAIN m /\ all[j] = m[j]
    BY <1>3, <2>1, <2>2, <2>3
  <2>4. CASE all[j].role = "assistant"
    BY <2>2, <2>4
  <2> QED BY <1>2, <2>1, <2>3, <2>4
<1>8. \A k, l \in DOMAIN calls : calls[k] = calls[l] => k = l
  <2>1. \A k \in DOMAIN calls : calls[k][2] = k
    OBVIOUS
  <2> QED BY <2>1
<1>9. ASSUME NEW i \in DOMAIN all, all[i].role = "assistant"
      PROVE  Awaited(calls, all[i].call) \/ AnsweredOnce(all, i, all[i].call)
  <2>1. CASE i \in DOMAIN m /\ all[i] = m[i]
    <3>1. ~Awaited(<<>>, m[i].call)
      BY DEF Awaited
    <3>2. PICK j \in DOMAIN m : /\ j > i /\ m[j] = Answer(m[i].call)
                                /\ \A k \in DOMAIN m : m[k] = Answer(m[i].call) => k = j
      BY <1>9, <2>1, <3>1 DEF Chat, AnsweredOnce
    <3>3. Answer(m[i].call).role = "tool"
      BY DEF Answer
    <3>4. j \in DOMAIN all /\ all[j] = Answer(all[i].call)
      <4>1. j \in 1 .. Len(m)
        OBVIOUS
      <4>2. j \in DOMAIN all /\ all[j] = m[j]
        BY <1>1, <4>1
      <4> QED BY <2>1, <3>2, <4>2
    <3>5. ASSUME NEW k \in DOMAIN all, all[k] = Answer(all[i].call)
          PROVE  k = j
      <4>1. k \in DOMAIN m /\ all[k] = m[k]
        BY <1>2, <2>1, <3>3, <3>5
      <4> QED BY <2>1, <3>2, <3>5, <4>1
    <3> QED BY <3>2, <3>4, <3>5 DEF AnsweredOnce
  <2>2. CASE i - Len(m) \in 1 .. n /\ all[i].call = calls[i - Len(m)]
    <3>1. PICK k \in DOMAIN calls : k = i - Len(m)
      BY <2>2
    <3> QED BY <2>2, <3>1 DEF Awaited
  <2> QED BY <1>2, <2>1, <2>2
<1>10. Chat(all, calls, r + 1)
  BY <1>5, <1>6, <1>7, <1>8, <1>9 DEF Chat
<1> QED BY <1>10 DEF all

(* The first pending call gets its answer, and is pending no more.         *)
LEMMA ChatDispatched ==
  ASSUME NEW m \in Seq(Message), NEW p \in Seq(CallId), NEW r \in Nat, Chat(m, p, r),
         p # <<>>, Answer(p[1]) \in Message
  PROVE  Chat(Append(m, Answer(p[1])), Tail(p), r)
<1> DEFINE all == Append(m, Answer(p[1]))
           rest == Tail(p)
<1>1. /\ all \in Seq(Message) /\ Len(all) = Len(m) + 1
      /\ \A i \in 1 .. Len(m) : all[i] = m[i]
      /\ all[Len(m) + 1] = Answer(p[1])
  BY AppendProperties
<1>2. /\ rest \in Seq(CallId) /\ Len(rest) = Len(p) - 1
      /\ \A k \in 1 .. Len(rest) : rest[k] = p[k + 1]
  BY HeadTailProperties
<1> HIDE DEF all, rest
<1>3. 1 \in DOMAIN p /\ p[1][1] = r
  BY DEF Chat
<1>4. /\ Answer(p[1]).call = p[1] /\ Answer(p[1]).call[1] = r
      /\ Answer(p[1]).role = "tool"
  BY <1>3 DEF Answer
<1>5. \A i \in DOMAIN all : \/ i \in DOMAIN m /\ all[i] = m[i]
                            \/ i = Len(m) + 1 /\ all[i] = Answer(p[1])
  BY <1>1
<1>6. \A i \in DOMAIN m : m[i].call[1] \in Nat /\ m[i].call[1] <= r
  <2>1. \A i \in DOMAIN m : m[i] \in Message
    OBVIOUS
  <2> QED BY <2>1, InvestigatorAssumption DEF Chat, Message, CallId
<1>7. \A i \in DOMAIN all : \/ i \in DOMAIN m /\ all[i].call[1] = m[i].call[1]
                            \/ i = Len(m) + 1 /\ all[i].call[1] = r
  BY <1>4, <1>5
<1>8. \A i, j \in DOMAIN all : i <= j => all[i].call[1] <= all[j].call[1]
  BY <1>6, <1>7 DEF Chat
<1>9. \A i \in DOMAIN all : all[i].call[1] <= r
  BY <1>6, <1>7
<1>10. ASSUME NEW k \in DOMAIN rest
       PROVE  k + 1 \in DOMAIN p /\ rest[k] = p[k + 1] /\ rest[k] # p[1]
  <2>1. k + 1 \in DOMAIN p /\ rest[k] = p[k + 1] /\ k + 1 # 1
    BY <1>2
  <2> QED BY <1>3, <2>1 DEF Chat
<1>11. ASSUME NEW k \in DOMAIN rest, NEW j \in DOMAIN all
       PROVE  rest[k][1] = r /\ all[j] # Answer(rest[k])
  <2>1. rest[k][1] = r /\ \A i \in DOMAIN m : m[i] # Answer(rest[k])
    BY <1>10 DEF Chat
  <2>2. Answer(p[1]) # Answer(rest[k])
    BY <1>10, AnswerOf
  <2> QED BY <1>5, <2>1, <2>2
<1>12. \A k, l \in DOMAIN rest : rest[k] = rest[l] => k = l
  <2> SUFFICES ASSUME NEW k \in DOMAIN rest, NEW l \in DOMAIN rest, rest[k] = rest[l]
               PROVE  k = l
    OBVIOUS
  <2>1. k + 1 = l + 1
    BY <1>10 DEF Chat
  <2> QED BY <1>2, <2>1
<1>13. ASSUME NEW i \in DOMAIN all, all[i].role = "assistant"
       PROVE  Awaited(rest, all[i].call) \/ AnsweredOnce(all, i, all[i].call)
  <2>1. i \in DOMAIN m /\ all[i] = m[i]
    BY <1>4, <1>5, <1>13
  <2>2. CASE m[i].call = p[1]
    <3>1. \A k \in DOMAIN m : m[k] # Answer(p[1])
      BY <1>3 DEF Chat
    <3>2. Len(m) + 1 \in DOMAIN all /\ Len(m) + 1 > i
      BY <1>1, <2>1
    <3>3. \A k \in DOMAIN all : all[k] = Answer(p[1]) => k = Len(m) + 1
      BY <1>5, <3>1
    <3> QED BY <1>1, <2>1, <2>2, <3>2, <3>3 DEF AnsweredOnce
  <2>3. CASE m[i].call # p[1] /\ Awaited(p, m[i].call)
    <3>1. PICK k \in DOMAIN p : p[k] = m[i].call /\ k # 1
      BY <2>3 DEF Awaited
    <3>2. k - 1 \in DOMAIN rest /\ rest[k - 1] = p[k]
      BY <1>2, <3>1
    <3> QED BY <2>1, <3>1, <3>2 DEF Awaited
  <2>4. CASE m[i].call # p[1] /\ AnsweredOnce(m, i, m[i].call)
    <3>1. PICK j \in DOMAIN m : /\ j > i /\ m[j] = Answer(m[i].call)
                                /\ \A k \in DOMAIN m : m[k] = Answer(m[i].call) => k = j
      BY <2>4 DEF AnsweredOnce
    <3>2. j \in DOMAIN all /\ all[j] = Answer(all[i].call)
      BY <1>1, <2>1, <3>1
    <3>3. \A k \in DOMAIN all : all[k] = Answer(all[i].call) => k = j
      BY <1>5, <2>1, <2>4, <3>1, AnswerOf
    <3> QED BY <3>1, <3>2, <3>3 DEF AnsweredOnce
  <2> QED BY <1>13, <2>1, <2>2, <2>3, <2>4 DEF Chat
<1>14. \A k \in DOMAIN rest : rest[k][1] = r /\ \A j \in DOMAIN all : all[j] # Answer(rest[k])
  <2> TAKE k \in DOMAIN rest
  <2>1. rest[k][1] = r
    BY <1>10 DEF Chat
  <2> QED BY <1>11, <2>1
<1>15. \A i \in DOMAIN all : all[i].role = "assistant" =>
         Awaited(rest, all[i].call) \/ AnsweredOnce(all, i, all[i].call)
  BY <1>13
<1>16. Chat(all, rest, r)
  BY ONLY <1>8, <1>9, <1>12, <1>14, <1>15 DEF Chat
<1> QED BY <1>16 DEF all, rest
(* Rounds begin with nothing pending, and only dispatching takes away.     *)
LEMMA ChatStep == LoopInv /\ ChatInv /\ [Next]_vars => ChatInv'
<1> SUFFICES ASSUME LoopInv, ChatInv, [Next]_vars PROVE ChatInv'
  OBVIOUS
<1>t. /\ messages \in Seq(Message) /\ pending \in Seq(CallId)
      /\ iteration \in Nat
  BY InvestigatorAssumption DEF LoopInv, TypeOK
<1>1. CASE AskForTools
  <2>1. PICK n \in 1 .. MaxToolCalls, new \in Seq(Message), calls \in Seq(CallId) :
          /\ messages' = messages \o new /\ pending' = calls
          /\ Len(new) = n /\ Len(calls) = n
          /\ \A k \in 1 .. n : /\ calls[k] = <<iteration', k>>
                               /\ new[k] = [role |-> "assistant", call |-> calls[k]]
    BY <1>1, Asked
  <2>2. iteration' = iteration + 1 /\ pc = "ask" /\ pc' = "tools"
    BY <1>1 DEF AskForTools, Complete
  <2>3. Chat(messages, <<>>, iteration)
    BY <2>2 DEF ChatInv
  <2>4. n \in Nat
    BY InvestigatorAssumption
  <2>5. Chat(messages \o new, calls, iteration + 1)
    BY <1>t, <2>1, <2>2, <2>3, <2>4, ChatAsked
  <2> QED BY <2>1, <2>2, <2>5 DEF ChatInv
<1>2. CASE Conclude
  <2>1. messages' = <<>> /\ pending' = <<>> /\ pc' # "ask"
    BY <1>2 DEF Conclude, Complete, ChatInv
  <2>2. Chat(<<>>, <<>>, iteration')
    BY DEF Chat
  <2> QED BY <2>1, <2>2 DEF ChatInv
<1>3. CASE _dispatch_tool
  <2>1. PICK c \in CallId :
          /\ pending # <<>> /\ c = pending[1] /\ Answer(c) \in Message
          /\ messages' = Append(messages, Answer(c)) /\ pending' = Tail(pending)
    BY <1>3, Dispatched DEF Answer
  <2>2. Chat(Append(messages, Answer(pending[1])), Tail(pending), iteration)
    BY <1>t, <2>1, ChatDispatched DEF ChatInv
  <2> QED BY <1>3, <2>1, <2>2 DEF ChatInv, _dispatch_tool
<1>4. CASE Again
  <2>1. pending' = <<>> /\ iteration' = iteration /\ pending = <<>>
    BY <1>4 DEF Again
  <2>2. CASE messages' = messages
    BY <2>1, <2>2 DEF ChatInv
  <2>3. CASE messages' = <<>>
    <3>1. Chat(<<>>, <<>>, iteration)
      BY DEF Chat
    <3> QED BY <2>1, <2>3, <3>1 DEF ChatInv
  <2> QED BY <1>4, <2>2, <2>3 DEF Again
<1>5. CASE _rewoo_initial_gather
  <2>1. pending = <<>>
    BY <1>5 DEF LoopInv, ChatInv, _rewoo_initial_gather
  <2> QED BY <1>5, <2>1 DEF ChatInv, _rewoo_initial_gather
<1>6. CASE _reflect \/ Revise \/ Raise
  BY <1>6 DEF ChatInv, _reflect, Revise, Raise
<1>7. CASE UNCHANGED vars
  BY <1>7 DEF ChatInv, vars
<1> QED BY <1>1, <1>2, <1>3, <1>4, <1>5, <1>6, <1>7 DEF Next, Step

(* What ChatInv says of a chat with no call pending is what the chat       *)
(* protocol asks for.                                                      *)
LEMMA ChatAnswered == LoopInv /\ ChatInv => ToolCallsAnswered
<1> SUFFICES ASSUME LoopInv, ChatInv, pc = "ask",
                    NEW i \in DOMAIN messages, messages[i].role = "assistant"
             PROVE  /\ Cardinality({j \in DOMAIN messages : messages[j] = Answer(messages[i].call)}) = 1
                    /\ \E j \in DOMAIN messages :
                         /\ j > i /\ messages[j] = Answer(messages[i].call)
                         /\ \A n \in i .. j : messages[n].call[1] = messages[i].call[1]
  BY DEF ToolCallsAnswered, Answer
<1>1. messages \in Seq(Message) /\ Chat(messages, <<>>, iteration)
  BY DEF LoopInv, TypeOK, ChatInv
<1>2. ~Awaited(<<>>, messages[i].call)
  BY DEF Awaited
<1>3. PICK j \in DOMAIN messages :
        /\ j > i /\ messages[j] = Answer(messages[i].call)
        /\ \A k \in DOMAIN messages : messages[k] = Answer(messages[i].call) => k = j
  BY <1>1, <1>2 DEF Chat, AnsweredOnce
<1>4. {k \in DOMAIN messages : messages[k] = Answer(messages[i].call)} = {j}
  BY <1>3
<1>5. ASSUME NEW n \in i .. j
      PROVE  messages[n].call[1] = messages[i].call[1]
  <2>1. n \in DOMAIN messages /\ i <= n /\ n <= j
    BY <1>1, <1>3
  <2>2. messages[i].call[1] <= messages[n].call[1] /\ messages[n].call[1] <= messages[j].call[1]
    BY <1>1, <2>1 DEF Chat
  <2>3. messages[j].call = messages[i].call
    BY <1>3 DEF Answer
  <2>4. \A k \in DOMAIN messages : messages[k].call[1] \in Nat
    <3>1. \A k \in DOMAIN messages : messages[k] \in Message
      BY <1>1
    <3> QED BY <3>1, InvestigatorAssumption DEF Message, CallId
  <2> QED BY <2>1, <2>2, <2>3, <2>4
<1> QED BY <1>3, <1>4, <1>5, FS_Singleton

(* Whenever the model is asked again, every tool call it made has exactly  *)
(* one answer, in the round that made it.                                  *)
THEOREM ToolCallsAlwaysAnswered == Spec => []ToolCallsAnswered
<1>1. Init => ChatInv
  BY DEF Init, ChatInv, Chat
<1>2. Spec => [](LoopInv /\ ChatInv)
  BY <1>1, LoopInit, LoopStep, ChatStep, PTL DEF Spec
<1> QED BY <1>2, ChatAnswered, PTL

-----------------------------------------------------------------------------
(* The policy in effect                                                    *)

(* A date below the transaction's is looked at for each version, the       *)
(* latest of them has a version, and of several one comes first.           *)
LEMMA PolicyLemma ==
  ASSUME NEW C, NEW cs \in Seq(C), NEW date \in Nat,
         \A i \in DOMAIN cs : cs[i].version \in Nat /\ cs[i].date \in Nat,
         \A i, j \in DOMAIN cs : cs[i].version = cs[j].version => cs[i].date = cs[j].date
  PROVE  IF retrieve_policy(cs, date) = NoPolicy
         THEN \A i \in DOMAIN cs : cs[i].date > date
         ELSE InEffect(cs, date, retrieve_policy(cs, date))
<1> DEFINE places(v) == {i \in DOMAIN cs : cs[i].version = v}
           seen == versions_seen(cs)
           able == eligible(cs, date)
           latest == {v \in able : \A w \in able : seen[w] <= seen[v]}
<1>1. DOMAIN cs = 1 .. Len(cs) /\ Len(cs) \in Nat
  OBVIOUS
<1>2. ASSUME NEW i \in DOMAIN cs
      PROVE  /\ Max(places(cs[i].version)) \in places(cs[i].version)
             /\ Min(places(cs[i].version)) \in Nat
  <2> DEFINE P == places(cs[i].version)
  <2>1. P \subseteq 0 .. Len(cs) /\ P # {} /\ P \subseteq Nat
    BY <1>1
  <2>2. \E x \in P : \A y \in P : x >= y
    <3> HIDE DEF P
    <3>1. PICK x \in P : \A y \in P : y <= x
      BY <1>1, <2>1, GreatestExists
    <3> QED BY <2>1, <3>1
  <2>3. \E x \in P : \A y \in P : x <= y
    <3> HIDE DEF P
    <3> QED BY <2>1, LeastExists
  <2>4. Max(P) \in P
    BY <2>2 DEF Max
  <2>5. Min(P) \in P
    BY <2>3 DEF Min
  <2> QED BY <2>1, <2>4, <2>5
<1>3. /\ DOMAIN seen = {cs[i].version : i \in DOMAIN cs}
      /\ \A i \in DOMAIN cs : seen[cs[i].version] = cs[i].date
  <2>1. DOMAIN seen = {cs[i].version : i \in DOMAIN cs}
    BY DEF versions_seen
  <2>2. ASSUME NEW i \in DOMAIN cs
        PROVE  seen[cs[i].version] = cs[i].date
    <3>1. seen[cs[i].version] = cs[Max(places(cs[i].version))].date
      BY DEF versions_seen
    <3>2. /\ Max(places(cs[i].version)) \in DOMAIN cs
          /\ cs[Max(places(cs[i].version))].version = cs[i].version
      BY <1>2
    <3> QED BY <3>1, <3>2
  <2> QED BY <2>1, <2>2
<1>4. /\ able = {v \in DOMAIN seen : seen[v] <= date}
      /\ DOMAIN seen \subseteq Nat /\ \A v \in DOMAIN seen : seen[v] \in Nat
  <2>1. able = {v \in DOMAIN seen : seen[v] <= date}
    BY DEF eligible
  <2> HIDE DEF seen, able
  <2> QED BY <1>3, <2>1
<1>5. \A v \in latest : FirstSeen(cs, v) \in Nat
  <2> SUFFICES ASSUME NEW v \in latest PROVE FirstSeen(cs, v) \in Nat
    OBVIOUS
  <2>1. PICK i \in DOMAIN cs : v = cs[i].version
    BY <1>3, <1>4
  <2> QED BY <1>2, <2>1 DEF FirstSeen
<1>6. able # {} => latest # {}
  <2> HIDE DEF seen, able
  <2> SUFFICES ASSUME able # {} PROVE latest # {}
    OBVIOUS
  <2>1. {seen[v] : v \in able} \subseteq 0 .. date /\ {seen[v] : v \in able} # {}
    BY <1>4
  <2>2. PICK d \in {seen[v] : v \in able} : \A e \in {seen[v] : v \in able} : e <= d
    BY <2>1, GreatestExists
  <2>3. PICK v \in able : d = seen[v]
    OBVIOUS
  <2> QED BY <2>2, <2>3
<1>7. retrieve_policy(cs, date) =
        IF latest = {} THEN NoPolicy
        ELSE CHOOSE v \in latest : \A w \in latest : FirstSeen(cs, v) <= FirstSeen(cs, w)
  BY DEF retrieve_policy
<1> HIDE DEF latest, able, seen
<1>8. CASE latest = {}
  <2>1. \A i \in DOMAIN cs : cs[i].version \in DOMAIN seen
    BY <1>3
  <2>2. \A i \in DOMAIN cs : ~(cs[i].date <= date)
    BY <1>3, <1>4, <1>6, <1>8, <2>1
  <2> QED BY <1>7, <1>8, <2>2
<1>9. CASE latest # {}
  <2> DEFINE firsts == {FirstSeen(cs, v) : v \in latest}
  <2>1. firsts \subseteq Nat /\ firsts # {}
    BY <1>5, <1>9
  <2>2. PICK f \in firsts : \A g \in firsts : f <= g
    <3> HIDE DEF firsts
    <3> QED BY <2>1, LeastExists
  <2>3. \E v \in latest : \A w \in latest : FirstSeen(cs, v) <= FirstSeen(cs, w)
    BY <2>2
  <2>4. PICK v : v = retrieve_policy(cs, date) /\ v \in latest
    BY <1>7, <1>9, <2>3
  <2>5. v \in able /\ \A w \in able : seen[w] <= seen[v]
    BY <2>4 DEF latest
  <2>6. v # NoPolicy
    BY <1>4, <2>5, InvestigatorAssumption
  <2>7. PICK i \in DOMAIN cs : v = cs[i].version
    BY <1>3, <1>4, <2>5
  <2>8. ASSUME NEW j \in DOMAIN cs, cs[j].date <= date
        PROVE  cs[j].date <= cs[i].date
    <3>1. cs[j].version \in able
      BY <1>3, <1>4, <2>8
    <3> QED BY <1>3, <2>5, <2>7, <3>1
  <2>9. cs[i].date <= date
    BY <1>3, <1>4, <2>5, <2>7
  <2> QED BY <2>4, <2>6, <2>7, <2>8, <2>9 DEF InEffect
<1> QED BY <1>8, <1>9

(* What was returned was checked against the policy it names, and that     *)
(* version's text; the files are those of one folder.                      *)
PolicyInv ==
  /\ files \in Folders /\ transactionDate \in Dates
  /\ pc = "returned" =>
       /\ final.policy = retrieve_policy(chunks, transactionDate)
       /\ final.text = policy_text(chunks, final.policy)

LEMMA PolicyStep == PolicyInv /\ [Next]_vars => PolicyInv'
<1> SUFFICES ASSUME PolicyInv, [Next]_vars PROVE PolicyInv'
  OBVIOUS
<1>1. files' = files /\ transactionDate' = transactionDate
  BY DEF Next, Step, _rewoo_initial_gather, AskForTools, Conclude, Complete,
         _dispatch_tool, Again, _reflect, Revise, Raise, vars
<1>2. chunks' = chunks
  BY <1>1 DEF chunks, scroll, collection, loaded
<1>3. ASSUME pc' = "returned"
      PROVE  /\ final'.policy = retrieve_policy(chunks, transactionDate)
             /\ final'.text = policy_text(chunks, final'.policy)
  <2>1. CASE Revise
    <3>1. PICK conclusion : final' = Result(conclusion)
      BY <1>3, <2>1 DEF Revise
    <3> QED BY <3>1 DEF Result
  <2>2. CASE UNCHANGED vars
    BY <1>3, <2>2 DEF PolicyInv, vars
  <2>3. Revise \/ UNCHANGED vars
    BY <1>3 DEF Next, Step, _rewoo_initial_gather, AskForTools, Conclude, Complete,
                _dispatch_tool, Again, _reflect, Raise
  <2> QED BY <2>1, <2>2, <2>3
<1> QED BY Zenon, <1>1, <1>2, <1>3 DEF PolicyInv

LEMMA PolicyInvariance == Spec => []PolicyInv
<1>1. Init => PolicyInv
  BY DEF Init, PolicyInv
<1> QED BY <1>1, PolicyStep, PTL DEF Spec

(* What the loader made of the folder.                                     *)
LEMMA CollectionLoaded ==
  ASSUME PolicyInv
  PROVE  /\ Versioned(files) /\ collection = all_chunks(files) /\ collection \in Seq(Chunk)
         /\ \A i \in DOMAIN collection : Bounded(collection[i].text)
         /\ \A i, j \in DOMAIN collection :
              collection[i].version = collection[j].version
                => collection[i].date = collection[j].date
<1>1. files \in Folders
  BY DEF PolicyInv
<1>2. Versioned(files)
  BY Zenon, <1>1, InvestigatorAssumption DEF Versioned
<1>3. collection = all_chunks(files)
  BY Zenon, <1>1 DEF collection, loaded
<1> QED BY <1>2, <1>3, CollectionHolds

(* The conclusion is checked against the policy in effect at the           *)
(* transaction's date, and without one only when there is none, if all of  *)
(* the policy is fetched (retrieve_policy).                                *)
THEOREM PolicyInEffect == Spec => []PolicyCheckedIsInEffect
<1>1. PolicyInv => PolicyCheckedIsInEffect
  <2> DEFINE policy == retrieve_policy(collection, transactionDate)
  <2> SUFFICES ASSUME PolicyInv, pc = "returned", AllFetched
               PROVE  IF policy = NoPolicy
                      THEN \A i \in DOMAIN collection : collection[i].date > transactionDate
                      ELSE InEffect(collection, transactionDate, policy)
    BY DEF PolicyCheckedIsInEffect, PolicyInv, chunks, scroll, AllFetched
  <2>1. collection \in Seq(Chunk) /\ transactionDate \in Nat
    BY CollectionLoaded, InvestigatorAssumption DEF PolicyInv
  <2>2. \A i, j \in DOMAIN collection :
          collection[i].version = collection[j].version
            => collection[i].date = collection[j].date
    BY Zenon, CollectionLoaded
  <2>3. \A i \in DOMAIN collection : collection[i].version \in Nat /\ collection[i].date \in Nat
    <3>1. \A i \in DOMAIN collection : collection[i] \in Chunk
      BY <2>1
    <3> QED BY <3>1 DEF Chunk
  <2> QED BY <2>1, <2>2, <2>3, PolicyLemma
<1> QED BY <1>1, PolicyInvariance, PTL

(* What the model is shown of that policy is all of its file, in order     *)
(* (chunk_text, and retrieve_policy's sort by chunk_index).                *)
THEOREM PolicyTextAlwaysWhole == Spec => []PolicyTextWhole
<1>1. PolicyInv => PolicyTextWhole
  <2> SUFFICES ASSUME PolicyInv, pc = "returned", AllFetched, NEW n \in DOMAIN files,
                      files[n].version = final.policy
               PROVE  final.text = files[n].paragraphs
    BY DEF PolicyTextWhole
  <2>1. final.text = policy_text(all_chunks(files), files[n].version)
    BY CollectionLoaded DEF PolicyInv, chunks, scroll, AllFetched
  <2>2. policy_text(all_chunks(files), files[n].version) = files[n].paragraphs
    BY Zenon, CollectionLoaded, TextWhole
  <2> QED BY <2>1, <2>2
<1> QED BY <1>1, PolicyInvariance, PTL

(* How far a chunk of the collection may exceed max_chars: by a separator, *)
(* unless it is one paragraph (chunk_text).                                *)
THEOREM ChunksAlwaysBounded == Spec => [](\A i \in DOMAIN collection : Bounded(collection[i].text))
<1>1. PolicyInv => \A i \in DOMAIN collection : Bounded(collection[i].text)
  BY Zenon, CollectionLoaded
<1> QED BY <1>1, PolicyInvariance, PTL
=============================================================================
