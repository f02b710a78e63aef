--------------------------- MODULE CommandTrainer ---------------------------
(***************************************************************************)
(* The form that adds a command to Commandpedia                            *)
(* (src/browser/deps/new-command.js): the sentence is parsed by the NLP    *)
(* server, the user accepts one of the predictions or writes code, and the *)
(* pair is learnt. Answers come in any order. Code is named after the      *)
(* sentence it was predicted for.                                          *)
(***************************************************************************)
EXTENDS Naturals

CONSTANTS
  None,
  Utterances,
  Typed,   \* code that the user wrote
  MaxEdits \* bound: edits and submissions

VARIABLES
  utterance, code,      \* the two boxes
  predicted, confirmed, \* _predicted, _confirmed
  raw,                  \* _raw, _tokens and _entities, which change together
  asked,      \* sentences that were sent to the parser and not answered
  candidates, \* answers whose candidates are still being read
  results,    \* the sentence whose results are shown, or None
  learning,   \* the command that is being parsed to be learnt, or None
  learnt,     \* commands that were sent to /learn
  edits,      \* how many edits and submissions
  crossed     \* history: a result was accepted, or a command submitted, while
              \* the form was waiting or after the sentence had changed

tvars == <<utterance, code, predicted, confirmed, raw, asked, candidates, results,
           learning, learnt, edits, crossed>>

Waiting == asked \cup candidates # {}
\* After the first command was learnt the form is hidden.
Open == learning = None /\ learnt = {}
User == Open /\ edits < MaxEdits /\ edits' = edits + 1

\* A new sentence has to be predicted again; the results of the old one stay.
EditUtterance_Mut(u) ==
  /\ User /\ u # utterance /\ utterance' = u
  /\ UNCHANGED <<predicted, code, confirmed, raw, asked, candidates, results, learning, learnt, crossed>>
EditUtterance(u) ==
  /\ User /\ u # utterance /\ utterance' = u
  /\ predicted' = FALSE
  /\ UNCHANGED <<code, confirmed, raw, asked, candidates, results, learning, learnt, crossed>>

\* New code has to be confirmed again.
EditCode ==
  /\ User /\ code' = Typed /\ confirmed' = FALSE
  /\ UNCHANGED <<utterance, predicted, raw, asked, candidates, results, learning, learnt, crossed>>

\* _submit: predict, confirm, or learn.
SubmitPredict ==
  /\ User /\ ~predicted /\ utterance # None
  /\ asked' = asked \cup {utterance}
  /\ crossed' = (crossed \/ Waiting)
  /\ UNCHANGED <<utterance, code, predicted, confirmed, raw, candidates, results, learning, learnt>>
SubmitConfirm ==
  /\ User /\ predicted /\ ~confirmed /\ confirmed' = TRUE
  /\ UNCHANGED <<utterance, code, predicted, raw, asked, candidates, results, learning, learnt, crossed>>
SubmitLearn ==
  /\ User /\ predicted /\ confirmed /\ code # None
  /\ learning' = [raw |-> raw, code |-> code, shown |-> utterance]
  /\ crossed' = (crossed \/ Waiting)
  /\ UNCHANGED <<utterance, code, predicted, confirmed, raw, asked, candidates, results, learnt>>

\* _handle: the answer of the parser becomes the sentence of the form, and its
\* candidates are read.
Handle(u) ==
  /\ u \in asked /\ asked' = asked \ {u}
  /\ raw' = u /\ candidates' = candidates \cup {u}
  /\ UNCHANGED <<utterance, code, predicted, confirmed, results, learning, learnt, edits, crossed>>
\* _predict: the results are shown, if there are any; a failed request does
\* nothing.
Predict(u, some) ==
  /\ u \in candidates /\ candidates' = candidates \ {u}
  /\ results' = IF some THEN u ELSE None
  /\ UNCHANGED <<utterance, code, predicted, confirmed, raw, asked, learning, learnt, edits, crossed>>
AskFails(u) ==
  /\ u \in asked /\ asked' = asked \ {u}
  /\ UNCHANGED <<utterance, code, predicted, confirmed, raw, candidates, results, learning, learnt, edits, crossed>>

\* _accept, and _rejectAll, after which only code that follows an accepted
\* result can ever be submitted.
Accept ==
  /\ Open /\ results # None
  /\ code' = results /\ results' = None
  /\ predicted' = TRUE /\ confirmed' = TRUE
  /\ crossed' = (crossed \/ Waiting \/ results # utterance)
  /\ UNCHANGED <<utterance, raw, asked, candidates, learning, learnt, edits>>
RejectAll ==
  /\ Open /\ results # None /\ results' = None
  /\ UNCHANGED <<utterance, code, predicted, confirmed, raw, asked, candidates, learning, learnt, edits, crossed>>

\* _learnThingTalk: the sentence was read before the code was parsed, its
\* entities are read after. On an error nothing is sent, and the form is hidden
\* all the same.
LearnThingTalk ==
  /\ learning # None /\ learnt = {}
  /\ learnt' = {[raw |-> learning.raw, entities |-> raw, code |-> learning.code, shown |-> learning.shown]}
  /\ UNCHANGED <<utterance, code, predicted, confirmed, raw, asked, candidates, results, learning, edits, crossed>>

TInit ==
  /\ utterance = None /\ code = None /\ raw = None
  /\ predicted = FALSE /\ confirmed = FALSE
  /\ asked = {} /\ candidates = {} /\ results = None
  /\ learning = None /\ learnt = {} /\ edits = 0 /\ crossed = FALSE

TNext ==
  \/ \E u \in Utterances :
       \/ EditUtterance(u) \/ Handle(u) \/ AskFails(u)
       \/ \E some \in BOOLEAN : Predict(u, some)
  \/ EditCode \/ SubmitPredict \/ SubmitConfirm \/ SubmitLearn
  \/ Accept \/ RejectAll \/ LearnThingTalk

TSpec == TInit /\ [][TNext]_tvars

-----------------------------------------------------------------------------
(* Properties.                                                             *)

\* Type correctness.
TTypeOK ==
  /\ utterance \in Utterances \cup {None} /\ code \in Utterances \cup {Typed, None}
  /\ asked \cup candidates \subseteq Utterances
  /\ predicted \in BOOLEAN /\ confirmed \in BOOLEAN

\* What is learnt is the sentence in the box, with its own entities and the
\* code accepted or written for it, after any sequence of edits, predictions
\* that fail or come late, and submissions; the exceptions, which the form does
\* not prevent, are results accepted or commands submitted while a prediction
\* is under way, and results accepted after the sentence was edited
\* (ThingTalkTrainer).
LearnsWhatIsShown ==
  ~crossed => \A l \in learnt :
    l.entities = l.raw /\ l.raw = l.shown /\ l.code \in {l.raw, Typed}
=============================================================================
