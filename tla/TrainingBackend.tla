--------------------------- MODULE TrainingBackend ---------------------------
(***************************************************************************)
(* The training tasks on Kubernetes: execTask, KubernetesTaskRunner and    *)
(* the JobWatcher they share (src/src/training/backends/kubernetes.js).    *)
(*                                                                         *)
(* The watcher runs _watchJobs, which lists the jobs and then watches what *)
(* changes from there on; it starts over when the watch ends. Whoever      *)
(* waits opens the watcher and closes it when its job settles; closing it  *)
(* for the last time aborts the watch, whose end is reported later, so     *)
(* that several runs of _watchJobs may overlap. External: Kubernetes, and  *)
(* the reference count of the watcher, which is the number of jobs that    *)
(* are waited for (closing follows settling before anything else runs).    *)
(***************************************************************************)
EXTENDS Integers, Sequences, FiniteSets

CONSTANTS
  Tasks,    \* tasks, each a Kubernetes job of its own
  Loops,    \* runs of _watchJobs that overlap (bound)
  NoLoop,
  MaxTries, \* TRAINING_WATCH_NUM_TRIES
  MaxDrops  \* bound: watches that end on their own

VARIABLES
  job,     \* [Tasks -> state of the Kubernetes job]
  waiter,  \* [Tasks -> "idle", "waiting", "ok" or "error"]: wait(); or "gone"
  watched, \* keys of _watchedJobs
  tries,   \* _numTriesLeft
  loop,    \* [Loops -> "off", "listing", "watching" or "aborted"]
  events,  \* [Loops -> events that were not delivered]
  req,     \* the run whose request is in _req
  drops,   \* how many watches ended on their own
  outcome, \* history: [Tasks -> how the job ended]
  gaveUp,  \* history: tasks rejected because the tries were used up
  missed   \* history: tasks whose end no run will report

tbvars == <<job, waiter, watched, tries, loop, events, req, drops, outcome, gaveUp, missed>>

Waiting(w) == {t \in Tasks : w[t] = "waiting"}
Watching == {l \in Loops : loop[l] = "watching"}
Pending(l, t) == \E i \in 1..Len(events[l]) : events[l][i].task = t
\* An event reaches every run that watches.
Emit(t, what) == [l \in Loops |->
  IF l \in Watching THEN Append(events[l], [task |-> t, what |-> what]) ELSE events[l]]

\* execTask
ExecTask(t) ==
  /\ job[t] = "none"
  /\ job' = [job EXCEPT ![t] = "running"]
  /\ UNCHANGED <<waiter, watched, tries, loop, events, req, drops, outcome, gaveUp, missed>>

\* wait(): watch, and the first open starts a run.
Wait(t) ==
  /\ job[t] # "none" /\ waiter[t] = "idle"
  /\ waiter' = [waiter EXCEPT ![t] = "waiting"]
  /\ watched' = watched \cup {t}
  /\ tries' = MaxTries
  /\ IF Waiting(waiter) = {}
       THEN \E l \in Loops :
              /\ loop[l] = "off"
              /\ loop' = [loop EXCEPT ![l] = "listing"]
              /\ UNCHANGED missed
       ELSE \* the run in progress has not seen its end, or has already
            /\ missed' = IF job[t] # "running" /\ \A l \in Watching : ~Pending(l, t)
                           THEN missed \cup {t} ELSE missed
            /\ UNCHANGED loop
  /\ UNCHANGED <<job, events, req, drops, outcome, gaveUp>>

\* External: the job ends.
Ends(t, how) ==
  /\ job[t] = "running"
  /\ job' = [job EXCEPT ![t] = how]
  /\ outcome' = [outcome EXCEPT ![t] = how]
  /\ events' = Emit(t, how)
  /\ UNCHANGED <<waiter, watched, tries, loop, req, drops, gaveUp, missed>>

\* kill(), or a user, deletes the job. A run that is between two watches
\* will not see it.
Kill(t) ==
  /\ job[t] = "running"
  /\ job' = [job EXCEPT ![t] = "deleted"]
  /\ outcome' = [outcome EXCEPT ![t] = "deleted"]
  /\ events' = Emit(t, "deleted")
  /\ missed' = IF Watching = {} THEN missed \cup {t} ELSE missed
  /\ UNCHANGED <<waiter, watched, tries, loop, req, drops, gaveUp>>

\* _processJob for a set of jobs with their states: what the waiters get. A
\* job that succeeded is deleted.
Answer_Mut(how) == IF how \in {"succeeded", "deleted"} THEN "ok" ELSE "error"
Answer(how) == IF how = "succeeded" THEN "ok" ELSE "error"
Settle(ended) == [t \in Tasks |->
  IF waiter[t] = "waiting" /\ t \in watched \cap DOMAIN ended
    THEN Answer(ended[t]) ELSE waiter[t]]
\* The last one to settle closes the watcher: the request in _req is aborted.
Closes(w) == Waiting(waiter) # {} /\ Waiting(w) = {}
Abort(w, lp) == [l \in Loops |->
  IF Closes(w) /\ l = req /\ lp[l] = "watching" THEN "aborted" ELSE lp[l]]
\* Deleting what succeeded: the event of it finds the job no longer watched.
Cleaned(ended) == {t \in watched \cap DOMAIN ended : job[t] = "succeeded" /\ ended[t] = "succeeded"}

\* The list arrives: jobs that are still in the cluster.
Listed(l) ==
  LET ended == [t \in {u \in Tasks : job[u] \in {"succeeded", "failed"}} |-> job[t]]
      w == Settle(ended)
      left == watched \ DOMAIN ended
  IN /\ loop[l] = "listing"
     /\ waiter' = w /\ watched' = left
     /\ job' = [t \in Tasks |-> IF t \in Cleaned(ended) THEN "deleted" ELSE job[t]]
     /\ loop' = [Abort(w, loop) EXCEPT ![l] = IF left = {} THEN "off" ELSE "watching"]
     /\ req' = IF left = {} THEN req ELSE l
     /\ events' = [events EXCEPT ![l] = <<>>]
     /\ UNCHANGED <<tries, drops, outcome, gaveUp, missed>>

\* The list fails: the error is thrown in a promise that nobody awaits, neither
\* _doOpen nor the callbacks of a watch, so that no wait() sees it and the
\* handler of unhandled rejections (main.ts) ends the daemon. The one that is
\* started again waits for none of these jobs.
ListFails(l) ==
  /\ loop[l] = "listing"
  /\ waiter' = [t \in Tasks |->
       IF waiter[t] = "waiting" \/ (waiter[t] = "idle" /\ job[t] # "none") THEN "gone" ELSE waiter[t]]
  /\ watched' = {} /\ req' = NoLoop
  /\ loop' = [k \in Loops |-> "off"] /\ events' = [k \in Loops |-> <<>>]
  /\ UNCHANGED <<job, tries, drops, outcome, gaveUp, missed>>

\* An event arrives; jobs that are not watched are ignored.
Event(l) ==
  LET e == Head(events[l])
      ended == [t \in {e.task} |-> e.what]
      w == Settle(ended)
  IN /\ loop[l] = "watching" /\ events[l] # <<>>
     /\ waiter' = w
     /\ watched' = watched \ {e.task}
     /\ job' = [t \in Tasks |-> IF t \in Cleaned(ended) THEN "deleted" ELSE job[t]]
     /\ loop' = Abort(w, loop)
     /\ events' = [events EXCEPT ![l] = Tail(@)]
     /\ missed' = IF e.task \in watched \/ waiter[e.task] # "idle" THEN missed
                  ELSE missed \cup {e.task}
     /\ UNCHANGED <<tries, req, drops, outcome, gaveUp>>

\* The callbacks at the end of a watch: start over as long as something is
\* watched and there are tries left. Without, everybody is rejected, but
\* stays in _watchedJobs.
StartOver_Mut(l) ==
  /\ loop' = [loop EXCEPT ![l] = "off"]
  /\ UNCHANGED <<tries, waiter, gaveUp>>
StartOver(l) ==
  IF watched = {}
    THEN loop' = [loop EXCEPT ![l] = "off"] /\ UNCHANGED <<tries, waiter, gaveUp>>
    ELSE /\ tries' = tries - 1
         /\ loop' = [loop EXCEPT ![l] = IF tries = 1 THEN "off" ELSE "listing"]
         /\ waiter' = [t \in Tasks |-> IF tries = 1 /\ waiter[t] = "waiting" THEN "error" ELSE waiter[t]]
         /\ gaveUp' = IF tries = 1 THEN gaveUp \cup Waiting(waiter) ELSE gaveUp
\* What a watch did not deliver is lost when it was the end of a deleted job.
Lost(l) == {t \in Tasks : /\ job[t] = "deleted" /\ waiter[t] \in {"idle", "waiting"}
                          /\ \A k \in Watching \ {l} : ~Pending(k, t)}
Drop(l) ==
  /\ loop[l] = "watching" /\ drops < MaxDrops
  /\ drops' = drops + 1
  /\ StartOver(l)
  /\ missed' = missed \cup Lost(l)
  /\ events' = [events EXCEPT ![l] = <<>>]
  /\ UNCHANGED <<job, watched, req, outcome>>
Aborted(l) ==
  /\ loop[l] = "aborted"
  /\ StartOver(l)
  /\ missed' = missed \cup Lost(l)
  /\ events' = [events EXCEPT ![l] = <<>>]
  /\ UNCHANGED <<job, watched, req, drops, outcome>>

TBInit ==
  /\ job = [t \in Tasks |-> "none"] /\ waiter = [t \in Tasks |-> "idle"]
  /\ watched = {} /\ tries = MaxTries
  /\ loop = [l \in Loops |-> "off"] /\ events = [l \in Loops |-> <<>>]
  /\ req = NoLoop /\ drops = 0
  /\ outcome = [t \in Tasks |-> "none"] /\ gaveUp = {} /\ missed = {}

Run(l) == Listed(l) \/ ListFails(l) \/ Event(l) \/ Aborted(l)
TBNext ==
  \/ \E t \in Tasks : ExecTask(t) \/ Wait(t) \/ Kill(t)
  \/ \E t \in Tasks, how \in {"succeeded", "failed"} : Ends(t, how)
  \/ \E l \in Loops : Run(l) \/ Drop(l)

\* Kubernetes answers, be it with an error, and the daemon waits for what it started.
TBFairness ==
  /\ \A l \in Loops : WF_tbvars(Run(l))
  /\ \A t \in Tasks : WF_tbvars(Wait(t))

TBSpec == TBInit /\ [][TBNext]_tbvars /\ TBFairness

-----------------------------------------------------------------------------
(* Properties.                                                             *)

\* Type correctness.
TBTypeOK ==
  /\ job \in [Tasks -> {"none", "running", "succeeded", "failed", "deleted"}]
  /\ waiter \in [Tasks -> {"idle", "waiting", "ok", "error", "gone"}]
  /\ watched \subseteq Tasks /\ tries \in Int /\ req \in Loops \cup {NoLoop}
  /\ loop \in [Loops -> {"off", "listing", "watching", "aborted"}]

\* wait() returns only for a job that succeeded, and throws only for one that
\* failed or was deleted or when the watcher gave up, whatever runs of the
\* watcher overlap and although a job that succeeded is deleted at once.
OutcomeReported ==
  \A t \in Tasks :
    /\ waiter[t] = "ok" => outcome[t] = "succeeded"
    /\ waiter[t] = "error" => outcome[t] \in {"failed", "deleted"} \/ t \in gaveUp

\* While a job is waited for, some run of _watchJobs is in progress: nothing
\* that closes or ends a watch leaves a waiter alone.
WaiterWatched == Waiting(waiter) # {} => \E l \in Loops : loop[l] # "off"

\* A job that ended is reported to who waits for it, in spite of watches that
\* end and overlap, as long as the daemon lives. The exceptions, where wait()
\* never returns: a job that was deleted while no watch would see it, one whose
\* last event came before wait() was called, and the end of the daemon, which a
\* list that fails brings about.
EndReported ==
  \A t \in Tasks : (waiter[t] = "waiting" /\ outcome[t] # "none")
                     ~> (waiter[t] \in {"ok", "error", "gone"} \/ t \in missed)

\* A dropped connection is got over: the watch starts again, or wait() throws;
\* the daemon does not go down with all that wait (kubernetes.js:97, "we may
\* still see occasional server connection drops. So retrying is necessary").
\* ListFails breaks this.
DropsAreRetried == drops > 0 => \A t \in Tasks : waiter[t] # "gone"
=============================================================================
