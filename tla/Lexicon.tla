------------------------------ MODULE Lexicon -------------------------------
(***************************************************************************)
(* Entity types, string datasets and their values: the tables entity_names *)
(* with entity_lexicon and string_types with string_values                 *)
(* (src/src/model/entity.ts, strings.ts), and the upload that replaces the *)
(* values of a type (src/src/util/upload_dataset.ts).                      *)
(*                                                                         *)
(* An upload streams a file into the database: parser -> transformer ->    *)
(* writer, each a Node stream with its own queue, all inside a transaction *)
(* on a connection of the pool.  An insert that is still in flight when    *)
(* the transaction ends would run in the next transaction of that          *)
(* connection.                                                             *)
(***************************************************************************)
EXTENDS Naturals, Sequences, FiniteSets, SequencesExt

CONSTANTS
  NoRow,      \* no row, no file
  EntityTypes, StringTypeNames, \* the types that can be uploaded
  LexLangs,   \* languages of the requests, "en" among them
  Files,      \* contents of the uploaded files: sequences of rows
  Uploaders,  \* users
  MayUpload,  \* [Uploaders -> SUBSET types]: admins, and owners of the prefix
  Streams     \* uploads served at the same time

LexTypes == EntityTypes \cup StringTypeNames
Skipped == "malformed"  \* a row with the wrong number of columns, or no value
Bad == "unparsable"     \* a row where the parser fails
FileRows(f) == {x \in ToSet(f) : x # Skipped}
LexRows == UNION {ToSet(f) : f \in Files}
\* What the tables of the types hold, for each type and language.
TypeRows == [ner : BOOLEAN] \cup [lang : LexLangs]
LexiconAssumption ==
  /\ "en" \in LexLangs /\ NoRow \notin TypeRows
  /\ \A f \in Files : f \in Seq(LexRows)

VARIABLES
  types,  \* [LexTypes -> [LexLangs -> row or NoRow]]: entity_names, string_types
  values, \* [LexTypes -> [LexLangs -> set of values]]
  up      \* the uploads in progress

lvars == <<types, values, up>>

Off == [pc |-> "off"]
IsEntity(t) == t \in EntityTypes

\* entity_names is written and read in English; string_types in the language
\* of the request.
RowLang(t, lang) == IF IsEntity(t) THEN "en" ELSE lang

\* The rows that the open transactions hold locks on.
TypeLocked(t, lang) ==
  \E s \in Streams : /\ up[s].pc \in {"streaming", "resolved", "rejected"}
                     /\ up[s].t = t
                     /\ IsEntity(t) \/ up[s].lang = lang

-----------------------------------------------------------------------------
(* The upload.                                                             *)

\* The values that are there once deleteValues ran: that of entities deletes
\* the English ones, whatever the language of the request.
KeptValues(t, lang) ==
  IF types[t][RowLang(t, lang)] = NoRow THEN values[t][lang]
  ELSE IF IsEntity(t) /\ lang # "en" THEN values[t][lang] ELSE {}

\* The type is created or updated and its values deleted, inside the new
\* transaction; then the pipeline starts.  An entity type without NER support
\* has no values, and its transaction just ends.
BeginUpload(s, u, t, lang, file) ==
  /\ up[s].pc = "off" /\ t \in MayUpload[u]
  /\ ~TypeLocked(t, lang)
  /\ file = NoRow => IsEntity(t)
  /\ up' = [up EXCEPT ![s] =
       [pc |-> IF file = NoRow THEN "resolved" ELSE "streaming",
        t |-> t, lang |-> lang, ner |-> file # NoRow,
        staged |-> KeptValues(t, lang),
        parse |-> IF file = NoRow THEN <<>> ELSE file, parsed |-> FALSE,
        tq |-> <<>>, tEnd |-> FALSE, wq |-> {}, wEnd |-> FALSE,
        fly |-> {}, wFail |-> FALSE, err |-> FALSE]]
  /\ UNCHANGED <<types, values>>

Set(s, r) == up' = [up EXCEPT ![s] = r] /\ UNCHANGED <<types, values>>
\* The pipeline does not know whether its transaction is still there.
Piping(s) == up[s].pc # "off"

\* The parser hands a row to the transformer ...
ParserRow(s) ==
  LET q == up[s] IN
  /\ Piping(s) /\ ~q.parsed /\ q.parse # <<>> /\ Head(q.parse) # Bad
  /\ Set(s, [q EXCEPT !.parse = Tail(@), !.tq = Append(@, Head(q.parse))])
\* ... ends it at the end of the file ...
ParserEnd(s) ==
  LET q == up[s] IN
  /\ Piping(s) /\ ~q.parsed /\ q.parse = <<>>
  /\ Set(s, [q EXCEPT !.parsed = TRUE, !.tEnd = TRUE])
\* ... or fails: the error is kept, and the transformer is ended.
ParserError_Mut(s) ==
  LET q == up[s] IN
  /\ Piping(s) /\ ~q.parsed /\ q.parse # <<>> /\ Head(q.parse) = Bad
  /\ Set(s, [q EXCEPT !.parsed = TRUE, !.tEnd = TRUE, !.err = TRUE,
                      !.pc = IF @ = "streaming" THEN "rejected" ELSE @])
ParserError(s) ==
  LET q == up[s] IN
  /\ Piping(s) /\ ~q.parsed /\ q.parse # <<>> /\ Head(q.parse) = Bad
  /\ Set(s, [q EXCEPT !.parsed = TRUE, !.tEnd = TRUE, !.err = TRUE])

\* The transformer tokenizes a row for the writer, or drops it.
Transform(s) ==
  LET q == up[s] IN
  /\ Piping(s) /\ q.tq # <<>> /\ ~q.wEnd
  /\ Set(s, [q EXCEPT !.tq = Tail(@),
                      !.wq = IF Head(q.tq) = Skipped THEN @ ELSE @ \cup {Head(q.tq)}])
\* Its end ends the writer; so does an error of it, which drops its queue.
TransformerEnd(s) ==
  LET q == up[s] IN
  /\ Piping(s) /\ q.tEnd /\ q.tq = <<>> /\ ~q.wEnd
  /\ Set(s, [q EXCEPT !.wEnd = TRUE])
TransformerError(s) ==
  LET q == up[s] IN
  /\ Piping(s) /\ q.tq # <<>> /\ ~q.wEnd
  /\ Set(s, [q EXCEPT !.wEnd = TRUE, !.err = TRUE, !.tq = <<>>, !.parsed = TRUE])

\* insertValueStream: one insert at a time, of everything that is queued.
WriterStart(s) ==
  LET q == up[s] IN
  /\ Piping(s) /\ q.wq # {} /\ q.fly = {} /\ ~q.wFail
  /\ Set(s, [q EXCEPT !.fly = q.wq, !.wq = {}])
\* entity_lexicon has a primary key on the values, string_values has not.
WriterDone(s) ==
  LET q == up[s] IN
  /\ Piping(s) /\ q.fly # {}
  /\ IsEntity(q.t) => q.fly \cap q.staged = {}
  /\ Set(s, [q EXCEPT !.staged = @ \cup q.fly, !.fly = {}])
WriterError(s) ==
  LET q == up[s] IN
  /\ Piping(s) /\ q.fly # {}
  /\ Set(s, [q EXCEPT !.fly = {}, !.wFail = TRUE,
                      !.pc = IF @ = "streaming" THEN "rejected" ELSE @])

\* The 'finish' event settles the promise that the transaction waits for.
WriterFinish_Mut(s) ==
  LET q == up[s] IN
  /\ q.pc = "streaming" /\ q.wEnd /\ q.wq = {} /\ q.fly = {} /\ ~q.wFail
  /\ Set(s, [q EXCEPT !.pc = "resolved"])
WriterFinish(s) ==
  LET q == up[s] IN
  /\ q.pc = "streaming" /\ q.wEnd /\ q.wq = {} /\ q.fly = {} /\ ~q.wFail
  /\ Set(s, [q EXCEPT !.pc = IF q.err THEN "rejected" ELSE "resolved"])

\* withTransaction commits or rolls back, the connection goes back to the pool.
Commit(s) ==
  LET q == up[s]
      row == IF IsEntity(q.t) THEN [ner |-> q.ner] ELSE [lang |-> q.lang]
  IN /\ q.pc = "resolved"
     /\ types' = [types EXCEPT ![q.t][RowLang(q.t, q.lang)] = row]
     \* the update by id or the deletion of an existing entity's values also
     \* empties its English ones
     /\ values' = [values EXCEPT ![q.t] = [l \in LexLangs |->
                     IF l = q.lang THEN q.staged
                     ELSE IF IsEntity(q.t) /\ l = "en" /\ types[q.t]["en"] # NoRow
                     THEN {} ELSE @[l]]]
     /\ up' = [up EXCEPT ![s].pc = "ended"]
Rollback(s) ==
  /\ up[s].pc = "rejected"
  /\ up' = [up EXCEPT ![s].pc = "ended"]
  /\ UNCHANGED <<types, values>>
\* The request is answered and its uploaded file removed.
Unlink(s) ==
  /\ up[s].pc = "ended" /\ up[s].fly = {}
  /\ up' = [up EXCEPT ![s] = Off]
  /\ UNCHANGED <<types, values>>

LInit ==
  /\ types = [t \in LexTypes |-> [l \in LexLangs |-> NoRow]]
  /\ values = [t \in LexTypes |-> [l \in LexLangs |-> {}]]
  /\ up = [s \in Streams |-> Off]

LNext ==
  \/ \E s \in Streams, u \in Uploaders, t \in LexTypes, l \in LexLangs :
       \E file \in Files \cup {NoRow} : BeginUpload(s, u, t, l, file)
  \/ \E s \in Streams :
       \/ ParserRow(s) \/ ParserEnd(s) \/ ParserError(s)
       \/ Transform(s) \/ TransformerEnd(s) \/ TransformerError(s)
       \/ WriterStart(s) \/ WriterDone(s) \/ WriterError(s) \/ WriterFinish(s)
       \/ Commit(s) \/ Rollback(s) \/ Unlink(s)

LSpec == LInit /\ [][LNext]_lvars

-----------------------------------------------------------------------------
(* Properties.                                                             *)

\* Type correctness.
LTypeOK ==
  /\ \A t \in LexTypes, l \in LexLangs : values[t][l] \subseteq UNION {ToSet(f) : f \in Files}
  /\ \A s \in Streams : up[s].pc \in {"off", "streaming", "resolved", "rejected", "ended"}

\* "ensure that we don't have any inflight requests by the time we terminate
\* the transaction" (upload_dataset.ts): once the transaction ended nothing of
\* the pipeline can still reach its connection.
NoInflightInsert ==
  \A s \in Streams : up[s].pc = "ended" =>
    up[s].fly = {} /\ (up[s].wq = {} \/ up[s].wFail)

\* Readers of a dataset see all the values of one uploaded file, never a part
\* of it nor a mixture of two: whatever fails in the pipeline, and whoever
\* uploads at the same time.  (Entities in other languages than English are
\* added to, since deleteValues only deletes English values.)
WholeFiles ==
  \A t \in LexTypes, l \in LexLangs :
    l = "en" \/ ~IsEntity(t) =>
      values[t][l] \in {FileRows(f) : f \in Files} \cup {{}}
=============================================================================
