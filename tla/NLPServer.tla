------------------------------ MODULE NLPServer ------------------------------
(***************************************************************************)
(* The NLP inference server: the models it loads and reloads, the queries  *)
(* it answers with them, and the sentences it learns                       *)
(* (src/src/nlp/main.ts, nlp_model.ts, admin.ts, nlu.ts, query.ts,         *)
(* learn.ts, proxy.ts; src/src/model/nlp_models.ts).                       *)
(*                                                                         *)
(* Loading and reloading await downloads and predictors that start, and    *)
(* queries await answers, so that all of them overlap. A directory stands  *)
(* for a temporary directory of AbstractFS.download.                       *)
(***************************************************************************)
EXTENDS Naturals, FiniteSets, Sequences

CONSTANTS
  None,        \* undefined or null
  Tags,        \* tags of models
  DefaultTag, DeveloperTag, \* org.thingpedia.models.default and .developer
  AccessToken, \* [Tags -> tokens or None]: the column access_token
  Reloads,     \* bound: handlers of /admin/reload at once
  Queries,     \* bound: queries at once
  MaxPredictors, \* bound: predictors, and directories, that are ever made
  Sentences    \* sentences that are learnt

Predictors == 1..MaxPredictors

VARIABLES
  trained,    \* [Tags -> BOOLEAN]: the column of the table models
  model,      \* [Tags -> [Origins -> NLPModel or None]]; the map _models holds
              \* the one that was loaded, or else the one that a reload created
  predictor,  \* [Predictors -> [tag, st] or None]; its directory, _localdir
              \* of its model, has the same number
  removed,    \* directories that removeTemporary was called for
  loading,    \* loadAllLanguages: the rows it has yet to load, and the
              \* predictor it is starting
  reload,     \* [Reloads -> the state of a handler, or None]
  query,      \* [Queries -> the predictor that was asked, or None]
  exact,      \* sentences in the exact matcher
  learnt,     \* sentences in the table of examples
  disturbed   \* history: tags of which two loads overlapped, or one failed

nvars == <<trained, model, predictor, removed, loading, reload, query, exact, learnt, disturbed>>

Origins == {"created", "loaded"}
Origin(t) == IF model[t]["loaded"] # None THEN "loaded" ELSE "created"
getModel(t) == IF t \in Tags THEN model[t][Origin(t)] ELSE None
Fresh(n) == predictor[n] = None /\ \A m \in Predictors : m < n => predictor[m] # None
Starting(n, t) == [predictor EXCEPT ![n] = [tag |-> t, st |-> "starting"]]
Becomes(n, st) == [predictor EXCEPT ![n] = [@ EXCEPT !.st = st]]
\* The constructor and init(): the settings of the row; the predictor of a model
\* that is there already, and its directory, stay.
ModelInit(isTrained, n) == [trained |-> isTrained, predictor |-> n]
Busy(t) == t \in loading.todo \/ \E r \in Reloads : reload[r] # None /\ reload[r].tag = t

-----------------------------------------------------------------------------
(* Training, which ends with a new version of the model.                   *)

\* trainModel: the training server updates the row, and asks for a reload.
Train(t) ==
  /\ ~trained[t]
  /\ trained' = [trained EXCEPT ![t] = TRUE]
  /\ UNCHANGED <<model, predictor, removed, loading, reload, query, exact, learnt, disturbed>>

-----------------------------------------------------------------------------
(* Loading: loadAllLanguages makes a new NLPModel for each of the rows that *)
(* it read, and sets it in the map when it is loaded. The server answers   *)
(* requests meanwhile.                                                     *)

\* load() of the next model has downloaded it, and starts its predictor.
LoadPredictor(t) ==
  /\ t \in loading.trained /\ loading.predictor = None
  /\ \E n \in Predictors :
       /\ Fresh(n)
       /\ predictor' = Starting(n, t)
       /\ loading' = [loading EXCEPT !.predictor = n]
  /\ UNCHANGED <<trained, model, removed, reload, query, exact, learnt, disturbed>>

\* The model goes into the map; one that is not trained has no predictor.
LoadDone(t) ==
  /\ t \in loading.todo
  /\ IF t \in loading.trained
       THEN loading.predictor # None /\ predictor[loading.predictor] = [tag |-> t, st |-> "started"]
       ELSE loading.predictor = None
  /\ model' = [model EXCEPT ![t]["loaded"] = ModelInit(t \in loading.trained, loading.predictor)]
  /\ loading' = [todo |-> loading.todo \ {t}, trained |-> loading.trained \ {t}, predictor |-> None]
  /\ disturbed' = IF getModel(t) # None THEN disturbed \cup {t} ELSE disturbed
  /\ UNCHANGED <<trained, predictor, removed, reload, query, exact, learnt>>

\* A download fails: nobody awaits loadAllLanguages, and the rest stays out.
LoadFails ==
  /\ loading.trained # {} /\ loading.predictor = None
  /\ loading' = [todo |-> {}, trained |-> {}, predictor |-> None]
  /\ UNCHANGED <<trained, model, predictor, removed, reload, query, exact, learnt, disturbed>>

\* The Python process of a predictor is up.
PredictorStarted(n) ==
  /\ predictor[n] # None /\ predictor[n].st = "starting"
  /\ predictor' = Becomes(n, "started")
  /\ UNCHANGED <<trained, model, removed, loading, reload, query, exact, learnt, disturbed>>

\* POST /admin/reload/@tag/locale: reads the row, getOrCreateModel (which calls
\* init on a model that is there), and reload() of that object up to the
\* download.
ReloadBegin(r, t) ==
  LET m == ModelInit(trained[t], IF getModel(t) = None THEN None ELSE getModel(t).predictor)
  IN /\ reload[r] = None
     /\ model' = [model EXCEPT ![t][Origin(t)] = m]
     /\ reload' = IF m.trained
          THEN [reload EXCEPT ![r] = [tag |-> t, this |-> Origin(t), new |-> None,
                                      oldpredictor |-> None, oldlocaldir |-> m.predictor]]
          ELSE reload
     /\ disturbed' = IF Busy(t) THEN disturbed \cup {t} ELSE disturbed
     /\ UNCHANGED <<trained, predictor, removed, loading, query, exact, learnt>>

\* The download is done: the new predictor takes the place of the old one
\* before it has started. The mutant takes the directory to remove too late.
ReloadDownloaded_Mut(r) ==
  /\ reload[r] # None /\ reload[r].new = None
  /\ LET t == reload[r].tag
         this == reload[r].this
     IN \E n \in Predictors :
       /\ Fresh(n)
       /\ predictor' = Starting(n, t)
       /\ model' = [model EXCEPT ![t][this] = [@ EXCEPT !.predictor = n]]
       /\ reload' = [reload EXCEPT ![r] = [@ EXCEPT !.new = n, !.oldpredictor = model[t][this].predictor, !.oldlocaldir = n]]
  /\ UNCHANGED <<trained, removed, loading, query, exact, learnt, disturbed>>
ReloadDownloaded(r) ==
  /\ reload[r] # None /\ reload[r].new = None
  /\ LET t == reload[r].tag
         this == reload[r].this
     IN \E n \in Predictors :
       /\ Fresh(n)
       /\ predictor' = Starting(n, t)
       /\ model' = [model EXCEPT ![t][this] = [@ EXCEPT !.predictor = n]]
       /\ reload' = [reload EXCEPT ![r] = [@ EXCEPT !.new = n, !.oldpredictor = model[t][this].predictor]]
  /\ UNCHANGED <<trained, removed, loading, query, exact, learnt, disturbed>>

\* The new predictor has started: the old one is stopped, and the directory
\* that the model had when the handler began is removed. The mutant forgets
\* the predictor.
ReloadFinish_Mut(r) ==
  /\ reload[r] # None /\ reload[r].new # None /\ predictor[reload[r].new].st \in {"started", "stopped"}
  /\ removed' = IF reload[r].oldlocaldir # None THEN removed \cup {reload[r].oldlocaldir} ELSE removed
  /\ reload' = [reload EXCEPT ![r] = None]
  /\ UNCHANGED <<trained, model, predictor, loading, query, exact, learnt, disturbed>>
ReloadFinish(r) ==
  /\ reload[r] # None /\ reload[r].new # None /\ predictor[reload[r].new].st \in {"started", "stopped"}
  /\ predictor' = IF reload[r].oldpredictor # None THEN Becomes(reload[r].oldpredictor, "stopped") ELSE predictor
  /\ removed' = IF reload[r].oldlocaldir # None THEN removed \cup {reload[r].oldlocaldir} ELSE removed
  /\ reload' = [reload EXCEPT ![r] = None]
  /\ UNCHANGED <<trained, model, loading, query, exact, learnt, disturbed>>

\* The download fails, or the predictor does not start: the handler is over
\* without an answer, what it did stays, and the old predictor runs on.
ReloadFails(r) ==
  /\ reload[r] # None /\ (reload[r].new # None => predictor[reload[r].new].st = "starting")
  /\ predictor' = IF reload[r].new # None THEN Becomes(reload[r].new, "failed") ELSE predictor
  /\ disturbed' = IF reload[r].new # None THEN disturbed \cup {reload[r].tag} ELSE disturbed
  /\ reload' = [reload EXCEPT ![r] = None]
  /\ UNCHANGED <<trained, model, removed, loading, query, exact, learnt>>

-----------------------------------------------------------------------------
(* Queries.                                                                *)

\* runNLU: the model of the tag if it is trained; without a tag the first of
\* two defaults that is trained, or else the last one, trained or not.
Usable(t) == getModel(t) # None /\ getModel(t).trained
Fallbacks(developer) ==
  IF developer THEN <<DeveloperTag, DefaultTag>> ELSE <<DefaultTag, DeveloperTag>>
ChooseModel(tag, developer) ==
  LET f == Fallbacks(developer) IN
  IF tag # None THEN IF Usable(tag) THEN tag ELSE None
  ELSE IF Usable(f[1]) THEN f[1] ELSE IF getModel(f[2]) # None THEN f[2] ELSE None
Allowed(t, token) == t # None /\ AccessToken[t] \in {None, token}

\* A query is sent to the predictor that the model has at that time.
Ask(q, tag, developer, token) ==
  LET t == ChooseModel(tag, developer) IN
  /\ query[q] = None /\ Allowed(t, token)
  /\ getModel(t).predictor # None
  /\ query' = [query EXCEPT ![q] = getModel(t).predictor]
  /\ UNCHANGED <<trained, model, predictor, removed, loading, reload, exact, learnt, disturbed>>

\* The answer, or an error if the predictor was stopped before it came.
Answer(q) ==
  /\ query[q] # None /\ predictor[query[q]].st # "starting"
  /\ query' = [query EXCEPT ![q] = None]
  /\ UNCHANGED <<trained, model, predictor, removed, loading, reload, exact, learnt, disturbed>>

\* POST /learn: into the table, and into the exact matcher if it is trainable
\* (kept online or in Commandpedia).
Learn(s, tag, token, trainable) ==
  /\ s \notin learnt /\ getModel(tag) # None /\ Allowed(tag, token)
  /\ learnt' = learnt \cup {s}
  /\ exact' = IF trainable THEN exact \cup {s} ELSE exact
  /\ UNCHANGED <<trained, model, predictor, removed, loading, reload, query, disturbed>>

\* POST /admin/reload/exact: with an example, one that another replica learnt
\* is added; without one, the file that training wrote of some of the examples
\* takes the place of the matcher.
ReloadExample(s) ==
  /\ s \in learnt /\ exact' = exact \cup {s}
  /\ UNCHANGED <<trained, model, predictor, removed, loading, reload, query, learnt, disturbed>>
ReloadExact ==
  /\ \E file \in SUBSET learnt : exact' = file
  /\ UNCHANGED <<trained, model, predictor, removed, loading, reload, query, learnt, disturbed>>

NInit ==
  /\ trained \in [Tags -> BOOLEAN]
  /\ model = [t \in Tags |-> [o \in Origins |-> None]]
  /\ predictor = [n \in Predictors |-> None]
  /\ removed = {}
  /\ loading = [todo |-> Tags, trained |-> {t \in Tags : trained[t]}, predictor |-> None]
  /\ reload = [r \in Reloads |-> None]
  /\ query = [q \in Queries |-> None]
  /\ exact = {} /\ learnt = {}
  /\ disturbed = {}

NNext ==
  \/ \E t \in Tags : Train(t) \/ LoadPredictor(t) \/ LoadDone(t)
  \/ LoadFails
  \/ \E n \in Predictors : PredictorStarted(n)
  \/ \E r \in Reloads :
       \/ \E t \in Tags : ReloadBegin(r, t)
       \/ ReloadDownloaded(r) \/ ReloadFinish(r) \/ ReloadFails(r)
  \/ \E q \in Queries :
       \/ \E tag, token \in Tags \cup {None}, developer \in BOOLEAN : Ask(q, tag, developer, token)
       \/ Answer(q)
  \/ \E s \in Sentences :
       \/ ReloadExample(s)
       \/ \E tag \in Tags, token \in Tags \cup {None}, trainable \in BOOLEAN : Learn(s, tag, token, trainable)
  \/ ReloadExact

NSpec == NInit /\ [][NNext]_nvars

-----------------------------------------------------------------------------
(* Properties.                                                             *)

PredictorRecords == [tag : Tags, st : {"starting", "started", "stopped", "failed"}]
ModelRecords == [trained : BOOLEAN, predictor : Predictors \cup {None}]
ReloadRecords ==
  [tag : Tags, this : Origins, new : Predictors \cup {None},
   oldpredictor : Predictors \cup {None}, oldlocaldir : Predictors \cup {None}]

\* Type correctness.
NTypeOK ==
  /\ trained \in [Tags -> BOOLEAN]
  /\ model \in [Tags -> [Origins -> ModelRecords \cup {None}]]
  /\ predictor \in [Predictors -> PredictorRecords \cup {None}]
  /\ removed \subseteq Predictors
  /\ loading \in [todo : SUBSET Tags, trained : SUBSET Tags, predictor : Predictors \cup {None}]
  /\ reload \in [Reloads -> ReloadRecords \cup {None}]
  /\ query \in [Queries -> Predictors \cup {None}]
  /\ exact \subseteq learnt /\ learnt \subseteq Sentences
  /\ disturbed \subseteq Tags

\* The predictor of a model, which the next query goes to, was not stopped and
\* its files were not removed, however loads and reloads of the model overlap:
\* each reload retires the predictor it took the place of, and the directory
\* the model had when it began (NLPModel.reload).
PredictorUsable ==
  \A t \in Tags :
    LET m == getModel(t) IN
    m # None /\ m.predictor # None =>
      predictor[m.predictor].st # "stopped" /\ m.predictor \notin removed

\* With no load or reload under way a model has one predictor that was not
\* stopped: predictors, each a Python process, do not pile up with reloads
\* (NLPModel.reload), unless loads of the model overlapped or one failed.
NoLeakedPredictor ==
  \A t \in Tags \ disturbed : ~Busy(t) =>
    \A n \in Predictors :
      predictor[n] # None /\ predictor[n].tag = t /\ predictor[n].st # "stopped" =>
        getModel(t) # None /\ getModel(t).predictor = n
=============================================================================
