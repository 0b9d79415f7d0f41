---------------------------- MODULE Investigator ----------------------------
(***************************************************************************)
(* investigator/loop.py: one call of investigate().  Evidence is gathered, *)
(* the model may call tools in a bounded loop, and what it concludes is    *)
(* put to it once more with the policy in effect.  For the case workflow   *)
(* this is one node, which returns a proposal or raises.                   *)
(*                                                                         *)
(* What the model says is chosen by the environment: any number of tool    *)
(* calls, well formed or not, any text, or no content at all.  The label of*)
(* a transaction, prompts and the wording of evidence are left out.        *)
(***************************************************************************)
EXTENDS JsonSpans, PolicyCorpus

CONSTANTS
  MAX_REACT_ITERATIONS,
  MaxToolCalls,   \* bound: tool calls in one message
  Texts,          \* texts the model may answer with
  Folders,        \* files a policy may consist of, one for each version
  Dates,          \* dates a transaction may have
  None            \* Python's None, and what is not there yet

ASSUME InvestigatorAssumption ==
  /\ MAX_REACT_ITERATIONS \in Nat \ {0} /\ MaxToolCalls \in Nat
  /\ Texts \subseteq Seq(Pieces)
  /\ Dates \subseteq Nat
  /\ NoPolicy \notin Nat
  /\ \A f \in Folders :
       /\ f \in Seq(File)
       /\ \A m, n \in DOMAIN f : f[m].version = f[n].version => m = n

VARIABLES
  pc,         \* where investigate() stands
  files, transactionDate,   \* fixed for one call
  iteration,  \* completions of the tool loop so far
  messages,   \* ids of the tool calls asked for and answered, in order
  pending,    \* tool calls of the last message not dispatched yet
  reply,      \* the text just extracted from (history)
  tentative,  \* what the loop concluded
  final,      \* what investigate() returns
  total_cost, \* completions paid for by the loop, as counted by the code
  spent       \* completions paid for (history)

vars == <<pc, files, transactionDate, iteration, messages, pending, reply,
          tentative, final, total_cost, spent>>

(* What the loader made of each folder, and so of the one at hand.         *)
loaded == [f \in Folders |-> all_chunks(f)]

collection == loaded[files]

(* What retrieve_policy has of it.                                         *)
chunks == scroll(collection)

-----------------------------------------------------------------------------
(* Types                                                                   *)

CallId == (1 .. MAX_REACT_ITERATIONS) \X (1 .. MaxToolCalls)

(* An "assistant" message names a call it makes, a "tool" message one it   *)
(* answers.                                                                *)
Message == [role: {"assistant", "tool"}, call: CallId]

(* A conclusion: a parsed object, or the code's own "unresolved".          *)
Unresolved == [kind |-> "unresolved", from |-> 0, to |-> 0]
IsConclusion(t) == t.kind \in {"object", "other", "unresolved"}

TypeOK ==
  /\ pc \in {"gather", "ask", "tools", "reflect", "revise", "returned", "raised"}
  /\ iteration \in 0 .. MAX_REACT_ITERATIONS
  /\ messages \in Seq(Message)
  /\ pending \in Seq(CallId)
  /\ reply \in Texts \cup {None}
  /\ tentative = None \/ IsConclusion(tentative)
  /\ total_cost \in Nat /\ spent \in Nat
  /\ pc = "returned" => final.conclusion.kind \in {"object", "unresolved"}

-----------------------------------------------------------------------------
(* Steps                                                                   *)

(* Anything may raise: a database, Qdrant, the model, arguments that are   *)
(* not JSON or lack a field.  Only NoPolicyInEffectError is caught.        *)
Raise ==
  /\ pc' = "raised"
  /\ UNCHANGED <<files, transactionDate, iteration, messages, pending, reply,
                 tentative, final, total_cost, spent>>

(* All first evidence is fetched at once and joined; a missing policy is   *)
(* evidence like any other.                                                *)
_rewoo_initial_gather ==
  /\ pc = "gather"
  /\ pc' = "ask"
  /\ UNCHANGED <<files, transactionDate, iteration, messages, pending, reply,
                 tentative, final, total_cost, spent>>

(* The completion of one round, paid for whatever it says.                 *)
Complete ==
  /\ pc = "ask"
  /\ iteration' = iteration + 1
  /\ total_cost' = total_cost + 1
  /\ spent' = spent + 1
  /\ UNCHANGED <<files, transactionDate, final>>

(* The message is appended, and its calls are run one after another.       *)
AskForTools ==
  /\ Complete
  /\ \E n \in 1 .. MaxToolCalls :
       LET calls == [i \in 1 .. n |-> <<iteration', i>>] IN
       /\ pending' = calls
       /\ messages' = messages \o [i \in 1 .. n |-> [role |-> "assistant", call |-> calls[i]]]
  /\ pc' = "tools"
  /\ UNCHANGED <<reply, tentative>>

(* No tool calls: the text is the conclusion.  extract_json_object may     *)
(* find an object, another JSON value, or nothing; a None raises TypeError.*)
Conclude ==
  /\ Complete
  /\ \E text \in Texts \cup {None} :
       /\ reply' = text
       /\ IF text = None
          THEN pc' = "raised" /\ UNCHANGED tentative
          ELSE /\ pc' = "reflect"
               /\ tentative' = IF extract_json_object(text) = Unparsed
                               THEN Unresolved ELSE extract_json_object(text)
  /\ messages' = <<>>
  /\ UNCHANGED pending

(* Mutant of _dispatch_tool: an unknown tool gets no answer.               *)
_dispatch_tool_unanswered ==
  /\ pc = "tools" /\ pending # <<>>
  /\ \E known \in BOOLEAN :
       messages' = IF known
                   THEN Append(messages, [role |-> "tool", call |-> Head(pending)])
                   ELSE messages
  /\ pending' = Tail(pending)
  /\ UNCHANGED <<pc, files, transactionDate, iteration, reply, tentative, final,
                 total_cost, spent>>

(* Mutant of _dispatch_tool: a call that failed is tried again at the end. *)
_dispatch_tool_retrying ==
  /\ pc = "tools" /\ pending # <<>>
  /\ \/ /\ messages' = Append(messages, [role |-> "tool", call |-> Head(pending)])
        /\ pending' = Tail(pending)
     \/ /\ pending' = Append(Tail(pending), Head(pending))
        /\ UNCHANGED messages
  /\ UNCHANGED <<pc, files, transactionDate, iteration, reply, tentative, final,
                 total_cost, spent>>

(* One call: its result, "unknown tool" and "no policy" included, answers. *)
_dispatch_tool ==
  /\ pc = "tools" /\ pending # <<>>
  /\ messages' = Append(messages, [role |-> "tool", call |-> Head(pending)])
  /\ pending' = Tail(pending)
  /\ UNCHANGED <<pc, files, transactionDate, iteration, reply, tentative, final,
                 total_cost, spent>>

(* Mutant of Again: the limit is seen one round late.                      *)
AgainLate ==
  /\ pc = "tools" /\ pending = <<>>
  /\ \/ /\ iteration <= MAX_REACT_ITERATIONS
        /\ pc' = "ask"
        /\ UNCHANGED <<tentative, messages>>
     \/ /\ iteration > MAX_REACT_ITERATIONS
        /\ pc' = "reflect"
        /\ tentative' = Unresolved
        /\ messages' = <<>>
  /\ UNCHANGED <<files, transactionDate, iteration, pending, reply, final,
                 total_cost, spent>>

(* The next round, or the for loop's else.                                 *)
Again ==
  /\ pc = "tools" /\ pending = <<>>
  /\ \/ /\ iteration < MAX_REACT_ITERATIONS
        /\ pc' = "ask"
        /\ UNCHANGED <<tentative, messages>>
     \/ /\ iteration = MAX_REACT_ITERATIONS
        /\ pc' = "reflect"
        /\ tentative' = Unresolved
        /\ messages' = <<>>
  /\ UNCHANGED <<files, transactionDate, iteration, pending, reply, final,
                 total_cost, spent>>

(* tentative.get(...) raises on anything but a dict, before the model is   *)
(* asked; then comes the policy, outside what the loop looked at.          *)
_reflect ==
  /\ pc = "reflect"
  /\ pc' = IF tentative.kind = "other" THEN "raised" ELSE "revise"
  /\ reply' = None
  /\ UNCHANGED <<files, transactionDate, iteration, messages, pending,
                 tentative, final, total_cost, spent>>

(* Mutant of Result: the cost is what the loop has spent.                  *)
ResultOfLoop(conclusion) ==
  [conclusion |-> conclusion, cost |-> total_cost,
   policy |-> retrieve_policy(chunks, transactionDate),
   text |-> policy_text(chunks, retrieve_policy(chunks, transactionDate))]

(* The reflection's cost goes through a key of the result, popped again.   *)
(* Of the policy it was shown the version and the text are kept (history). *)
Result(conclusion) ==
  [conclusion |-> conclusion, cost |-> total_cost + 1,
   policy |-> retrieve_policy(chunks, transactionDate),
   text |-> policy_text(chunks, retrieve_policy(chunks, transactionDate))]

(* The reflection's answer; nothing to parse leaves the tentative one, and *)
(* no content or a JSON value that is no object raises.                    *)
Revise ==
  /\ pc = "revise"
  /\ spent' = spent + 1
  /\ \E text \in Texts \cup {None} :
       /\ reply' = text
       /\ IF text = None \/ (IsJson(text) /\ ~IsObject(text))
          THEN pc' = "raised" /\ UNCHANGED final
          ELSE /\ pc' = "returned"
               /\ final' = Result(IF extract_json_object(text) = Unparsed
                                  THEN tentative ELSE extract_json_object(text))
  /\ UNCHANGED <<files, transactionDate, iteration, messages, pending, tentative, total_cost>>

-----------------------------------------------------------------------------

Init ==
  /\ pc = "gather"
  /\ files \in Folders
  /\ transactionDate \in Dates
  /\ iteration = 0
  /\ messages = <<>> /\ pending = <<>>
  /\ reply = None
  /\ tentative = None /\ final = None
  /\ total_cost = 0 /\ spent = 0

Running == pc \notin {"returned", "raised"}

Step ==
  \/ _rewoo_initial_gather \/ AskForTools \/ Conclude \/ _dispatch_tool
  \/ Again \/ _reflect \/ Revise

Next == Step \/ (Running /\ Raise)

Spec == Init /\ [][Next]_vars

(* The thread keeps running, and every call it makes returns or raises.    *)
FairSpec == Spec /\ WF_vars(Step)

-----------------------------------------------------------------------------
(* Properties                                                              *)

(* Whenever the model is asked again, every tool call it made has exactly  *)
(* one answer, after the message that made it and before the next message: *)
(* the chat protocol refuses anything else.                                *)
ToolCallsAnswered ==
  pc = "ask" =>
    \A i \in DOMAIN messages : messages[i].role = "assistant" =>
      /\ Cardinality({j \in DOMAIN messages :
                        messages[j] = [role |-> "tool", call |-> messages[i].call]}) = 1
      /\ \E j \in DOMAIN messages :
           /\ j > i /\ messages[j] = [role |-> "tool", call |-> messages[i].call]
           /\ \A n \in i .. j : messages[n].call[1] = messages[i].call[1]

(* Beyond the limit versions and texts are cut off unnoticed.              *)
AllFetched == Len(collection) <= scroll_limit

(* README.md: the conclusion is checked "against the policy version        *)
(* actually in effect on the transaction's date", and there is none only   *)
(* when none is loaded (a version is one file); for a policy that one      *)
(* scroll fetches.                                                         *)
PolicyCheckedIsInEffect ==
  pc = "returned" /\ AllFetched =>
    IF final.policy = NoPolicy
    THEN \A i \in DOMAIN collection : collection[i].date > transactionDate
    ELSE InEffect(collection, transactionDate, final.policy)

(* ... and what it is checked against is all of that version's file, in    *)
(* order, however it was cut into chunks.                                  *)
PolicyTextWhole ==
  pc = "returned" /\ AllFetched =>
    \A n \in DOMAIN files :
      files[n].version = final.policy => final.text = files[n].paragraphs

(* An answer is not lost amid prose, other values and stray brackets: if   *)
(* it holds an object without brackets in its strings, and is not itself   *)
(* JSON of another kind, one of its objects is what the investigation goes *)
(* on with, or returns.  A reflection without an object leaves the         *)
(* conclusion as it was.                                                   *)
AnswerKept ==
  reply # None =>
    LET conclusion == IF pc = "returned" THEN final.conclusion ELSE tentative IN
    /\ PlainObjects(reply) # {} /\ (IsJson(reply) => IsObject(reply)) =>
         /\ conclusion.kind = "object"
         /\ <<conclusion.from, conclusion.to>> \in Objects(reply)
    /\ pc = "returned" /\ Objects(reply) = {} => conclusion = tentative

(* The cost reported is that of all the completions made, on every path to *)
(* a result: an answer, none to parse, the loop's limit.                   *)
CostAccounted == pc = "returned" => final.cost = spent

(* The loop is bounded even if the model asks for tools for ever.          *)
InvestigationEnds == <>~Running

(* json_extract.py, "Parse the first valid JSON object found, tolerating   *)
(* prose around it": a text with one object, amid prose, yields just that. *)
OnlyObjectTaken ==
  reply # None /\ Cardinality(WholeObjects(reply)) = 1 =>
    LET found == extract_json_object(reply)
    IN  found.kind = "object" /\ <<found.from, found.to>> \in WholeObjects(reply)
=============================================================================
