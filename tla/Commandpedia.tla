---------------------------- MODULE Commandpedia ----------------------------
(***************************************************************************)
(* The example commands of Thingpedia and the votes on them: the tables    *)
(* example_utterances and example_likes (src/src/model/example.ts), the    *)
(* dataset that comes with a device (ensureDataset of                      *)
(* src/src/util/import_device.ts) and the voting endpoints                 *)
(* (src/src/routes/thingpedia_examples.ts).                                *)
(*                                                                         *)
(* A dataset is saved inside a transaction and is one action.  A vote is   *)
(* not: it runs without a transaction, and its two statements commit one   *)
(* by one.                                                                 *)
(***************************************************************************)
EXTENDS Integers, FiniteSets, SequencesExt

CONSTANTS
  Null,      \* SQL null
  Voters,    \* users that vote
  Datasets,  \* the datasets that may be saved, see below
  Votes,     \* vote requests served at the same time
  MaxExample \* bound on example_utterances.id

ExampleIds == 1 .. MaxExample

\* A dataset: the phrases of the functions of the class, and the examples,
\* each with a name, a program and its utterances, the primary one first.
Phrases == UNION {ds.phrases : ds \in Datasets}
Examples == UNION {ds.examples : ds \in Datasets}
Texts == {p.utt : p \in Phrases} \cup UNION {ToSet(e.utterances) : e \in Examples}
\* The rows of example_utterances. The click_count, which only orders the
\* answers, is left out.
ExampleRows ==
  [name : {e.name : e \in Examples} \cup {Null}, utt : Texts,
   code : {x.code : x \in Phrases \cup Examples}, synthetic : BOOLEAN, likeCount : Int]
DatasetsAssumption ==
  /\ \A ds \in Datasets : /\ IsFiniteSet(ds.phrases) /\ IsFiniteSet(ds.examples)
                         /\ \A e, f \in ds.examples : e.name = f.name => e = f
  /\ \A e \in Examples : e.utterances \in Seq(Texts) /\ e.utterances # <<>>
  /\ Null \notin ExampleRows

VARIABLES
  ex,        \* example_utterances, for one schema and one language
  likes,     \* example_likes: pairs <<user, example>>
  nextEx,    \* AUTO_INCREMENT of example_utterances
  vote,      \* the vote requests in progress
  drift      \* history: examples with votes that crashed or overlapped

cvars == <<ex, likes, nextEx, vote, drift>>

NoVote == [pc |-> "idle"]
Row(name, utt, code, synthetic) ==
  [name |-> name, utt |-> utt, code |-> code, synthetic |-> synthetic,
   likeCount |-> 0]
Live == {i \in ExampleIds : ex[i] # Null}

-----------------------------------------------------------------------------
(* Saving a dataset.                                                       *)

\* The row that an example of the dataset keeps: same name, same program.
Matches_Mut(i, e) == ex[i].name = e.name /\ ex[i].utt = Head(e.utterances)
Matches(i, e) == ex[i].name # Null /\ ex[i].name = e.name /\ ex[i].code = e.code

\* getBaseBySchema, with the synthetic examples when the class is saved too.
BaseBySchema(ds) == {i \in Live : ds.phrases # {} \/ ~ex[i].synthetic}

ToKeep(ds) == {i \in BaseBySchema(ds) : \E e \in ds.examples : Matches(i, e)}
ToCreate(ds) ==
  {Row(Null, p.utt, p.code, TRUE) : p \in ds.phrases}
    \cup {Row(e.name, Head(e.utterances), e.code, FALSE) :
            e \in {f \in ds.examples : \A i \in BaseBySchema(ds) : ~Matches(i, f)}}
    \cup UNION {{Row(Null, e.utterances[n], e.code, FALSE) : n \in 2 .. Len(e.utterances)} :
                  e \in ds.examples}

\* ensureDataset: rows of examples that are still there stay, with their new
\* primary utterance; the other rows go first, with their likes (ON DELETE
\* CASCADE), and then the new ones come.
EnsureDataset(ds) ==
  LET keep == ToKeep(ds)
      gone == BaseBySchema(ds) \ keep
      new == SetToSeq(ToCreate(ds))
  IN /\ nextEx + Len(new) <= MaxExample + 1
     /\ ex' = [i \in ExampleIds |->
                 CASE i \in keep ->
                        [ex[i] EXCEPT !.utt =
                           Head((CHOOSE e \in ds.examples : Matches(i, e)).utterances)]
                   [] i \in gone -> Null
                   [] i \in nextEx .. nextEx + Len(new) - 1 -> new[i - nextEx + 1]
                   [] OTHER -> ex[i]]
     /\ likes' = {l \in likes : l[2] \notin gone}
     /\ nextEx' = nextEx + Len(new)
     /\ UNCHANGED <<vote, drift>>

-----------------------------------------------------------------------------
(* Votes.                                                                  *)

Pending(i, pc) == {v \in Votes : vote[v].pc = pc /\ vote[v].ex = i}
\* The bound on the counters: nobody votes on an example that drifted.
MayVote(v, i) == vote[v].pc = "idle" /\ i \notin drift
PendingBy(u, i) == {v \in Votes : vote[v].pc # "idle" /\ vote[v].ex = i /\ vote[v].user = u}
\* A vote that starts while another one of the same user is running on the
\* same example.
DriftWith(u, i) == IF PendingBy(u, i) = {} THEN drift ELSE drift \cup {i}

AddLikes(i, n) == IF ex[i] = Null THEN ex ELSE [ex EXCEPT ![i].likeCount = @ + n]

\* POST /thingpedia/examples/upvote/:id, like(): insert ignore, so a second
\* like or an example that is gone inserts nothing and the request ends.
LikeInsert(v, u, i) ==
  /\ MayVote(v, i)
  /\ drift' = DriftWith(u, i)
  /\ IF ex[i] # Null /\ <<u, i>> \notin likes
     THEN /\ likes' = likes \cup {<<u, i>>}
          /\ vote' = [vote EXCEPT ![v] = [pc |-> "liked", user |-> u, ex |-> i]]
     ELSE UNCHANGED <<likes, vote>>
  /\ UNCHANGED <<ex, nextEx>>

LikeCount(v) ==
  /\ vote[v].pc = "liked"
  /\ ex' = AddLikes(vote[v].ex, 1)
  /\ vote' = [vote EXCEPT ![v] = NoVote]
  /\ UNCHANGED <<likes, nextEx, drift>>

\* POST /thingpedia/examples/downvote/:id, unlike(): the counter first, if
\* the like is there, and then the like.
UnlikeCount_Mut(v, u, i) ==
  /\ MayVote(v, i)
  /\ drift' = DriftWith(u, i)
  /\ ex' = AddLikes(i, -1)
  /\ vote' = [vote EXCEPT ![v] = [pc |-> "unliked", user |-> u, ex |-> i,
                                  counted |-> <<u, i>> \in likes]]
  /\ UNCHANGED <<likes, nextEx>>
UnlikeCount(v, u, i) ==
  /\ MayVote(v, i)
  /\ drift' = DriftWith(u, i)
  /\ ex' = IF <<u, i>> \in likes THEN AddLikes(i, -1) ELSE ex
  /\ vote' = [vote EXCEPT ![v] = [pc |-> "unliked", user |-> u, ex |-> i,
                                  counted |-> <<u, i>> \in likes]]
  /\ UNCHANGED <<likes, nextEx>>

UnlikeDelete(v) ==
  /\ vote[v].pc = "unliked"
  /\ likes' = likes \ {<<vote[v].user, vote[v].ex>>}
  /\ vote' = [vote EXCEPT ![v] = NoVote]
  /\ UNCHANGED <<ex, nextEx, drift>>

\* The website crashes between the two statements of a vote.
VoteLost(v) ==
  /\ vote[v].pc # "idle"
  /\ drift' = drift \cup {vote[v].ex}
  /\ vote' = [vote EXCEPT ![v] = NoVote]
  /\ UNCHANGED <<ex, likes, nextEx>>

\* deleteAllLikesFromUser, inside the transaction that deletes the user.
DeleteAllLikesFromUser(u) ==
  /\ ex' = [i \in ExampleIds |->
              IF ex[i] # Null /\ <<u, i>> \in likes
              THEN [ex[i] EXCEPT !.likeCount = @ - 1] ELSE ex[i]]
  /\ likes' = {l \in likes : l[1] # u}
  /\ drift' = drift \cup {i \in ExampleIds : PendingBy(u, i) # {}}
  /\ UNCHANGED <<nextEx, vote>>

-----------------------------------------------------------------------------

\* POST /thingpedia/examples/delete/:id
DeleteById_Mut(i) ==
  /\ ex[i] # Null
  /\ ex' = [ex EXCEPT ![i] = Null]
  /\ UNCHANGED <<likes, nextEx, vote, drift>>
DeleteById(i) ==
  /\ ex[i] # Null
  /\ ex' = [ex EXCEPT ![i] = Null]
  /\ likes' = {l \in likes : l[2] # i}
  /\ UNCHANGED <<nextEx, vote, drift>>

CInit ==
  /\ ex = [i \in ExampleIds |-> Null]
  /\ likes = {}
  /\ nextEx = 1
  /\ vote = [v \in Votes |-> NoVote]
  /\ drift = {}

CNext ==
  \/ \E ds \in Datasets : EnsureDataset(ds)
  \/ \E v \in Votes, u \in Voters, i \in ExampleIds :
       \/ LikeInsert(v, u, i)
       \/ UnlikeCount(v, u, i)
  \/ \E v \in Votes : LikeCount(v) \/ UnlikeDelete(v) \/ VoteLost(v)
  \/ \E u \in Voters : DeleteAllLikesFromUser(u)
  \/ \E i \in ExampleIds : DeleteById(i)

CSpec == CInit /\ [][CNext]_cvars

-----------------------------------------------------------------------------
(* Queries (src/src/model/example.ts).                                     *)

\* getCommands and getCommandsForUser: the order of Commandpedia; the like of
\* the reader colours the heart.
GetCommandsForUser(u) == {[id |-> i, liked |-> <<u, i>> \in likes] : i \in Live}
\* getBaseByLanguage, getByKey, getByKinds: never the synthetic examples.
GetExamples == {i \in Live : ~ex[i].synthetic}

-----------------------------------------------------------------------------
(* Properties.                                                             *)

\* Type correctness.
CTypeOK ==
  /\ nextEx \in 1 .. MaxExample + 1
  /\ \A i \in Live : i < nextEx
  /\ likes \subseteq Voters \X Live
  /\ \A v \in Votes : vote[v].pc \in {"idle", "liked", "unliked"}

\* The number of likes shown is the number of users that like the command,
\* once the votes in progress are done: votes of different users may
\* interleave in any way with each other, with a new dataset and with
\* deletions.  Only a crash between the two statements, or two requests of the
\* same user on the same command at once, make the counter drift for good.
LikesCounted ==
  \A i \in Live \ drift :
    ex[i].likeCount = Cardinality({l \in likes : l[2] = i})
                      - Cardinality(Pending(i, "liked"))
                      - Cardinality({v \in Pending(i, "unliked") : vote[v].counted})

\* Saving a dataset again never gives a new id to an example that keeps its
\* name and its program, so its likes and clicks stay (the matching of
\* ensureDataset, and its deletion before the insertion).
ExampleKeepsId ==
  [][\A i, j \in ExampleIds :
       (/\ ex[i] # Null /\ ex'[j] # Null /\ ex[i].name # Null
        /\ ex[i].name = ex'[j].name /\ ex[i].code = ex'[j].code) => i = j]_cvars
=============================================================================
