---------------------------- MODULE ObjectFiles ----------------------------
(***************************************************************************)
(* Images in object storage and the rows that vouch for them.  A request   *)
(* commits a pending row, PUTs the object, asks with HEAD what is there    *)
(* and commits what it learnt; the database is never locked while storage  *)
(* is called.  Whatever a request leaves behind is settled by a later run  *)
(* of "storage reconcile", which claims the rows that have not changed for *)
(* a while and asks storage again.  Requests and runs may stop anywhere:   *)
(* they are not forced to go on, and nothing waits for them.               *)
(*                                                                         *)
(* Request f uploads file f.  Time is the number of runs that have begun:  *)
(* a request acts at the time it began, run k at time k, and nobody writes *)
(* a row that changed at a later time than his own.  A row is stale when   *)
(* it is older than the run and its PUT is over: the client gives up after *)
(* 13 seconds and a row is stale after 60.  A PUT without an answer may    *)
(* take effect at any moment until then, and a DELETE at once or never.    *)
(*                                                                         *)
(* Left out: what makes an image acceptable, the rate limit, failure       *)
(* codes, reading through presigned URLs, and "storage delete", which runs *)
(* in local environments only.                                             *)
(***************************************************************************)
EXTENDS Integers, FiniteSets

CONSTANTS
    MaxFiles,      \* bound: uploads ever begun
    MaxRuns        \* bound: runs of "storage reconcile"

ASSUME FileAssumption == MaxFiles \in Nat /\ MaxRuns \in Nat

Files == 1..MaxFiles
Runs == 1..MaxRuns
Times == 0..MaxRuns

VARIABLES
    file,      \* [Files -> status and updated_at of the row of object_files]
    object,    \* [Files -> what storage has under its key]
    upload,    \* [Files -> the next step of the request, and when it began]
    run,       \* [Runs -> the part it is in, the rows it still has to look at, the one
               \* it is looking at, and the next step]
    clock      \* the runs that have begun

storage == <<file, object, upload, run, clock>>

NoRun == [part |-> "none", todo |-> {}, item |-> 0, step |-> "none"]
Ended == [part |-> "over", todo |-> {}, item |-> 0, step |-> "none"]

FileInit ==
    /\ file = [f \in Files |-> [status |-> "none", since |-> 0]]
    /\ object = [f \in Files |-> "absent"]
    /\ upload = [f \in Files |-> [step |-> "none", at |-> 0]]
    /\ run = [k \in Runs |-> NoRun]
    /\ clock = 0

-----------------------------------------------------------------------------
(* Rows.  A step is named for what was learnt of the object.               *)

Marks == {"rejected", "missing", "unclear", "matches", "differs", "gone", "undeleted"}

\* mark_object_file_failed, mark_pending_upload_outcome_unknown,
\* mark_object_file_available, mark_object_file_delete_pending,
\* mark_object_file_deleted, mark_delete_outcome_unknown
Before(step) == IF step \in {"gone", "undeleted"} THEN "delete_pending" ELSE "pending"

After(step) ==
    CASE step \in {"rejected", "missing"} -> "failed"
      [] step = "unclear" -> "pending"
      [] step = "matches" -> "available"
      [] step \in {"differs", "undeleted"} -> "delete_pending"
      [] step = "gone" -> "deleted"

\* _transition_time, _require_status.  A row that has the status already is left
\* as it is; here it would have changed at a later time.
MayMark(f, step, time) == file[f].status = Before(step) /\ file[f].since <= time

Mark(f, step, time) ==
    file' = [file EXCEPT ![f] = [status |-> After(step), since |-> time]]

-----------------------------------------------------------------------------
(* The request.                                                            *)

GoOn(f, step) == upload' = [upload EXCEPT ![f].step = step]

\* create_pending_object_file
PendingRow(f) ==
    /\ file[f].status = "none"
    /\ file' = [file EXCEPT ![f] = [status |-> "pending", since |-> clock]]

\* prepare_sanitized_image_upload, for the next file.
CreatePending(f) ==
    /\ \A g \in Files : g < f => file[g].status # "none"
    /\ PendingRow(f)
    /\ upload' = [upload EXCEPT ![f] = [step |-> "put", at |-> clock]]
    /\ UNCHANGED <<object, run, clock>>

\* put_object succeeds or leaves it open what happened; or it is refused for sure.
Put(f) ==
    /\ upload[f].step = "put"
    /\ \/ /\ \E o \in {"stored", "damaged", "coming", "absent"} :
               object' = [object EXCEPT ![f] = o]
          /\ GoOn(f, "head")
       \/ GoOn(f, "rejected") /\ UNCHANGED object
    /\ UNCHANGED <<file, run, clock>>

\* A PUT nobody waits for any more takes effect.
Land(f) ==
    /\ object[f] = "coming"
    /\ object' = [object EXCEPT ![f] = "stored"]
    /\ UNCHANGED <<file, upload, run, clock>>

\* Mutant: what is not there now is taken to be missing for good.
SeenFinal(f) ==
    IF object[f] = "stored" THEN "matches"
    ELSE IF object[f] = "damaged" THEN "differs" ELSE "missing"

\* Without an object it is not clear that there will be none.
SeenEarly(f) ==
    IF object[f] = "stored" THEN "matches"
    ELSE IF object[f] = "damaged" THEN "differs" ELSE "unclear"

Head(f) ==
    /\ upload[f].step = "head"
    /\ GoOn(f, SeenEarly(f)) \/ GoOn(f, "unclear")
    /\ UNCHANGED <<file, object, run, clock>>

\* What comes after the row was marked.
NextStep(step) ==
    CASE step = "matches" -> "attach"
      [] step = "differs" -> "delete"
      [] OTHER -> "over"

\* _mark_prepared_upload_failed and its like, in a transaction of its own.
MarkUpload(f) ==
    LET step == upload[f].step
    IN  /\ step \in Marks
        /\ IF MayMark(f, step, upload[f].at)
           THEN Mark(f, step, upload[f].at) /\ GoOn(f, NextStep(step))
           ELSE GoOn(f, "over") /\ UNCHANGED file
        /\ UNCHANGED <<object, run, clock>>

Deleted(f) == object' = [object EXCEPT ![f] = "absent"]

\* _delete_mismatched_object_file
DeleteUpload(f) ==
    /\ upload[f].step = "delete"
    /\ \/ GoOn(f, "gone") /\ Deleted(f)
       \/ GoOn(f, "undeleted") /\ (Deleted(f) \/ UNCHANGED object)
    /\ UNCHANGED <<file, run, clock>>

\* The process dies before the PUT, which will not come any more.  Dying later is
\* to do nothing more.
Die(f) ==
    /\ upload[f].step = "put"
    /\ GoOn(f, "over")
    /\ UNCHANGED <<file, object, run, clock>>

-----------------------------------------------------------------------------
(* "storage reconcile".                                                    *)

Stale(status, k) ==
    {f \in Files : /\ file[f].status = status
                   /\ file[f].since < k
                   /\ upload[f].step # "put"
                   /\ object[f] # "coming"}

\* _claim_stale_object_files: a batch of what is stale and not locked.
Claim(k, status, part) ==
    \E claims \in SUBSET Stale(status, k) :
        /\ file' = [f \in Files |-> IF f \in claims THEN [file[f] EXCEPT !.since = k] ELSE file[f]]
        /\ run' = [run EXCEPT ![k] = [part |-> part, todo |-> claims, item |-> 0, step |-> "none"]]

\* reconcile_stale_object_uploads
StartRun(k) ==
    /\ k = clock + 1
    /\ clock' = k
    /\ Claim(k, "pending", "uploads")
    /\ UNCHANGED <<object, upload>>

\* reconcile_stale_object_deletes
StartDeletes(k) ==
    /\ run[k].part = "uploads"
    /\ run[k].item = 0 /\ run[k].todo = {}
    /\ Claim(k, "delete_pending", "deletes")
    /\ UNCHANGED <<object, upload, clock>>

\* By now, without an object there will be none.
SeenLate(f) ==
    IF object[f] = "stored" THEN "matches"
    ELSE IF object[f] = "damaged" THEN "differs" ELSE "missing"

SeenToDelete(f) == IF object[f] \in {"stored", "damaged"} THEN "delete" ELSE "gone"

Take(k, f, step) ==
    run' = [run EXCEPT ![k].todo = @ \ {f}, ![k].item = f, ![k].step = step]

HeadClaim(k) ==
    /\ \E f \in run[k].todo :
        /\ run[k].item = 0
        /\ IF run[k].part = "uploads"
           THEN Take(k, f, SeenLate(f)) \/ Take(k, f, "unclear")
           ELSE Take(k, f, SeenToDelete(f)) \/ Take(k, f, "undeleted")
    /\ UNCHANGED <<file, object, upload, clock>>

RunOn(k, step) == run' = [run EXCEPT ![k].step = step]

\* A refused mark ends the run.
MarkClaim(k) ==
    LET f == run[k].item
        step == run[k].step
    IN  /\ step \in Marks
        /\ IF MayMark(f, step, k)
           THEN /\ Mark(f, step, k)
                /\ IF step = "differs"
                   THEN RunOn(k, "delete")
                   ELSE run' = [run EXCEPT ![k].item = 0, ![k].step = "none"]
           ELSE run' = [run EXCEPT ![k] = Ended] /\ UNCHANGED file
        /\ UNCHANGED <<object, upload, clock>>

\* _delete_mismatched_object_file, and _delete_object_target, which asks again
\* when the answer is open.
DeleteClaim(k) ==
    /\ run[k].step = "delete"
    /\ \/ RunOn(k, "gone") /\ Deleted(run[k].item)
       \/ /\ Deleted(run[k].item) \/ UNCHANGED object
          /\ RunOn(k, IF run[k].part = "uploads" THEN "undeleted" ELSE "ask")
    /\ UNCHANGED <<file, upload, clock>>

AskAgain(k) ==
    /\ run[k].step = "ask"
    /\ \/ RunOn(k, "undeleted")
       \/ object[run[k].item] = "absent" /\ RunOn(k, "gone")
    /\ UNCHANGED <<file, object, upload, clock>>

-----------------------------------------------------------------------------
StorageStep ==
    \/ \E f \in Files : Put(f) \/ Land(f) \/ Head(f) \/ MarkUpload(f) \/ DeleteUpload(f) \/ Die(f)
    \/ \E k \in Runs : StartDeletes(k) \/ HeadClaim(k) \/ MarkClaim(k) \/ DeleteClaim(k) \/ AskAgain(k)

FileTypeOK ==
    /\ file \in [Files -> [status : {"none", "pending", "available", "failed",
                                     "delete_pending", "deleted"},
                           since : Times]]
    /\ object \in [Files -> {"absent", "coming", "stored", "damaged"}]
    /\ upload \in [Files -> [step : Marks \cup {"none", "put", "head", "delete", "attach",
                                                "compensate", "over"},
                             at : Times]]
    /\ run \in [Runs -> [part : {"none", "uploads", "deletes", "over"},
                         todo : SUBSET Files,
                         item : Files \cup {0},
                         step : Marks \cup {"none", "delete", "ask"}]]
    /\ clock \in Times

\* A row tells the truth: what is available is stored as it was sent, and behind
\* a row that failed or was deleted, which nobody will look at again, nothing is
\* left in storage and nothing is still to come.
RowsTruthful ==
    \A f \in Files :
        /\ file[f].status = "available" => object[f] = "stored"
        /\ file[f].status \in {"failed", "deleted"} => object[f] = "absent"
=============================================================================
