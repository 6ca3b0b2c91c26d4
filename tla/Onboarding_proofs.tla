------------------------- MODULE Onboarding_proofs -------------------------
(***************************************************************************)
(* Object storage and the activation of a customer, for any number of      *)
(* uploads, runs of "storage reconcile", versions and edits.               *)
(*                                                                         *)
(* Rows tell the truth although nobody holds a lock while storage is       *)
(* called: a row only moves forward (Forward), what a request or a run     *)
(* learnt of an object stays so for as long as its mark can take effect    *)
(* (Learnt), and runs look only at files whose PUT is over (Sent).  The    *)
(* times of the rows, which keep slow marks from undoing later ones, are   *)
(* not needed for that.  The documents' and the customer's properties rest *)
(* on it, and so does what the pages promise: a page asks for one current  *)
(* document, one current offer and an accepted text in its own queries,    *)
(* and that there is one of each (Attached, OneCurrent) and that accepted  *)
(* texts are final (Frozen) makes them agree with the locked ones.         *)
(***************************************************************************)
EXTENDS OnboardingPages, FiniteSetTheorems, TLAPS

-----------------------------------------------------------------------------
(* Files.                                                                  *)

\* The PUT of the file is over.
Sent(f) == file[f].status # "none" /\ upload[f].step # "put" /\ object[f] # "coming"

\* The file is to be deleted, or was.
Doomed(f) == file[f].status \in {"delete_pending", "deleted"}

\* What was learnt still holds where it can still be marked.
Learnt(f, step) ==
    /\ step = "matches" /\ file[f].status = "pending" => object[f] = "stored"
    /\ step \in {"rejected", "missing"} /\ file[f].status = "pending" => object[f] = "absent"
    /\ step = "differs" /\ file[f].status = "pending" => object[f] = "damaged"
    /\ step = "gone" => object[f] = "absent"
    /\ step \in {"delete", "ask"} => Doomed(f)

\* A file and its request.
Sound(f) ==
    /\ file[f].status = "none" <=> upload[f].step = "none"
    /\ upload[f].step \in {"none", "put"} => object[f] = "absent"
    /\ upload[f].step = "put" => file[f].status = "pending"
    /\ object[f] = "coming" => file[f].status = "pending"
    /\ Learnt(f, upload[f].step)
    /\ file[f].status = "available" => object[f] = "stored"
    /\ file[f].status \in {"failed", "deleted"} => object[f] = "absent"

\* A run and the files it claimed.
Known(k) ==
    /\ run[k].item = 0 => run[k].step = "none"
    /\ run[k].part \in {"none", "over"} => run[k].todo = {}
    /\ \A f \in Files : f \in run[k].todo \/ f = run[k].item => Sent(f)
    /\ run[k].part = "deletes" => \A f \in Files : f \in run[k].todo => Doomed(f)
    /\ run[k].item \in Files => Learnt(run[k].item, run[k].step)

FileInv == FileTypeOK /\ (\A f \in Files : Sound(f)) /\ (\A k \in Runs : Known(k))

\* What a step may do to a file: its row moves forward, and its object changes by
\* the PUT, or goes when the file is doomed.
Forward(f) ==
    /\ \/ file'[f].status = file[f].status
       \/ file[f].status = "none"
       \/ file[f].status = "pending" /\ file'[f].status # "none"
       \/ file[f].status = "available" /\ file'[f].status = "delete_pending"
       \/ Doomed(f) /\ file'[f].status \in {"delete_pending", "deleted"}
    /\ \/ object'[f] = object[f]
       \/ upload[f].step = "put"
       \/ object[f] = "coming"
       \/ Doomed(f) /\ object'[f] = "absent"
    /\ upload'[f].step = "put" => upload[f].step = "put" \/ file[f].status = "none"

\* What a run knows of a file that moves forward, it still knows.
LEMMA StillLearnt ==
    ASSUME NEW f \in Files, Forward(f), Sent(f)
    PROVE  /\ Sent(f)'
           /\ Doomed(f) => Doomed(f)'
           /\ \A step : Learnt(f, step) => Learnt(f, step)'
<1>1. Sent(f)'
  BY DEF Forward, Sent
<1>2. Doomed(f) => Doomed(f)'
  BY DEF Forward, Doomed
<1>3. ASSUME NEW step, Learnt(f, step) PROVE Learnt(f, step)'
  <2>1. file'[f].status = "pending" => file[f].status = "pending" /\ object'[f] = object[f]
    BY DEF Forward, Sent, Doomed
  <2>2. object[f] = "absent" => object'[f] = "absent"
    BY DEF Forward, Sent
  <2> QED
    BY <1>2, <1>3, <2>1, <2>2 DEF Learnt
<1> QED
  BY <1>1, <1>2, <1>3

\* So what a run knows of all of them survives the step of another.
LEMMA StillKnown ==
    ASSUME NEW k \in Runs, Known(k), run'[k] = run[k], \A f \in Files : Forward(f)
    PROVE  Known(k)'
<1>1. \A f \in Files : f \in run[k].todo \/ f = run[k].item => Sent(f) /\ Sent(f)'
  BY StillLearnt DEF Known
<1>2. run[k].part = "deletes" => \A f \in Files : f \in run[k].todo => Doomed(f)'
  BY <1>1, StillLearnt DEF Known
<1>3. CASE run[k].item \in Files
  <2>1. PICK f \in Files : f = run[k].item
    BY <1>3
  <2>2. Learnt(f, run[k].step)
    BY <2>1 DEF Known
  <2>3. PICK step : step = run[k].step
    OBVIOUS
  <2>4. Learnt(f, step)'
    BY <1>1, <2>1, <2>2, <2>3, StillLearnt
  <2>5. Learnt(run[k].item, run[k].step)'
    BY <2>1, <2>3, <2>4 DEF Learnt, Doomed
  <2> QED
    BY <1>1, <1>2, <2>5 DEF Known
<1>4. CASE run[k].item \notin Files
  BY <1>1, <1>2, <1>4 DEF Known
<1> QED
  BY <1>3, <1>4

\* A step of the request of one file.
LEMMA OneFile ==
    ASSUME FileInv, NEW f \in Files, UNCHANGED <<run, clock>>, FileTypeOK', Forward(f), Sound(f)',
           \A g \in Files \ {f} :
              file'[g] = file[g] /\ object'[g] = object[g] /\ upload'[g] = upload[g]
    PROVE  FileInv'
<1>1. \A g \in Files : Forward(g)
  BY DEF Forward
<1>2. \A g \in Files : Sound(g)'
  BY DEF FileInv, Sound, Learnt, Doomed
<1>3. \A k \in Runs : Known(k)'
  BY <1>1, StillKnown DEF FileInv
<1> QED
  BY <1>2, <1>3 DEF FileInv

\* A step of one run.
LEMMA OneRun ==
    ASSUME FileInv, NEW k \in Runs, FileTypeOK', \A f \in Files : Forward(f) /\ Sound(f)',
           \A j \in Runs \ {k} : run'[j] = run[j], Known(k)'
    PROVE  FileInv'
<1>1. \A j \in Runs \ {k} : Known(j)'
  BY StillKnown DEF FileInv
<1> QED
  BY <1>1 DEF FileInv

\* Whoever marks a row has learnt what the mark says.
LEMMA Marked ==
    ASSUME FileInv, NEW f \in Files, NEW step \in Marks, NEW time \in Times,
           Learnt(f, step), MayMark(f, step, time), Mark(f, step, time),
           object[f] # "coming" \/ step = upload[f].step
    PROVE  /\ file' \in [Files -> [status : {"none", "pending", "available", "failed",
                                             "delete_pending", "deleted"}, since : Times]]
           /\ file'[f].status = After(step) /\ file'[f].status # "none"
           /\ \A g \in Files \ {f} : file'[g] = file[g]
           /\ \/ file[f].status = "pending"
              \/ Doomed(f) /\ file'[f].status \in {"delete_pending", "deleted"}
           /\ object[f] = "coming" => file'[f].status = "pending"
           /\ file'[f].status = "available" => object[f] = "stored"
           /\ file'[f].status \in {"failed", "deleted"} => object[f] = "absent"
<1>1. After(step) \in {"pending", "available", "failed", "delete_pending", "deleted"}
  BY DEF After, Marks
<1>2. /\ file' \in [Files -> [status : {"none", "pending", "available", "failed",
                                        "delete_pending", "deleted"}, since : Times]]
      /\ file'[f].status = After(step)
      /\ \A g \in Files \ {f} : file'[g] = file[g]
  BY <1>1 DEF Mark, FileInv, FileTypeOK
<1>3. Sound(f)
  BY DEF FileInv
<1>4. CASE step \in {"gone", "undeleted"}
  BY <1>2, <1>3, <1>4 DEF MayMark, Before, After, Doomed, Learnt, Sound
<1>5. CASE step \in {"rejected", "missing", "unclear", "matches", "differs"}
  <2>1. file[f].status = "pending"
    BY <1>5 DEF MayMark, Before
  <2>2. CASE step = "unclear"
    BY <1>2, <2>1, <2>2 DEF After
  <2>3. CASE step = "matches"
    BY <1>2, <2>1, <2>3 DEF After, Learnt
  <2>4. CASE step = "differs"
    BY <1>2, <2>1, <2>4 DEF After, Learnt
  <2>5. CASE step \in {"rejected", "missing"}
    BY <1>2, <2>1, <2>5 DEF After, Learnt
  <2> QED
    BY <1>5, <2>2, <2>3, <2>4, <2>5
<1> QED
  BY <1>1, <1>2, <1>4, <1>5 DEF Marks

-----------------------------------------------------------------------------
(* The request of a file.                                                  *)

\* The request goes on.
LEMMA WentOn ==
    ASSUME FileInv, NEW f \in Files, NEW step \in Marks \cup {"put", "head", "delete", "attach", "compensate", "over"},
           GoOn(f, step)
    PROVE  /\ upload' \in [Files -> [step : Marks \cup {"none", "put", "head", "delete", "attach",
                                                        "compensate", "over"}, at : Times]]
           /\ upload'[f].step = step
           /\ \A g \in Files \ {f} : upload'[g] = upload[g]
BY DEF GoOn, FileInv, FileTypeOK

\* The PUT, its delayed effect, and a death before it.
LEMMA PutInv ==
    ASSUME FileInv, NEW f \in Files, Put(f) \/ Land(f) \/ Die(f)
    PROVE  FileInv'
<1>1. Sound(f) /\ FileTypeOK
  BY DEF FileInv
<1>2. CASE Put(f)
  <2>1. PICK step \in {"head", "rejected"} :
          /\ GoOn(f, step)
          /\ step = "rejected" => UNCHANGED object
          /\ \/ UNCHANGED object
             \/ \E o \in {"stored", "damaged", "coming", "absent"} : object' = [object EXCEPT ![f] = o]
    BY <1>2 DEF Put
  <2>2. /\ upload' \in [Files -> [step : Marks \cup {"none", "put", "head", "delete", "attach",
                                                     "compensate", "over"}, at : Times]]
        /\ upload'[f].step = step
        /\ \A g \in Files \ {f} : upload'[g] = upload[g]
    BY <2>1, WentOn DEF Marks
  <2>3. /\ object' \in [Files -> {"absent", "coming", "stored", "damaged"}]
        /\ \A g \in Files \ {f} : object'[g] = object[g]
    <3>1. CASE UNCHANGED object
      BY <1>1, <3>1 DEF FileTypeOK
    <3>2. CASE \E o \in {"stored", "damaged", "coming", "absent"} : object' = [object EXCEPT ![f] = o]
      BY <1>1, <3>2 DEF FileTypeOK
    <3> QED
      BY <2>1, <3>1, <3>2
  <2>4. UNCHANGED <<file, run, clock>> /\ upload[f].step = "put"
    BY <1>2 DEF Put
  <2>5. FileTypeOK'
    BY <1>1, <2>2, <2>3, <2>4 DEF FileTypeOK
  <2>6. Forward(f) /\ Sound(f)'
    BY <1>1, <2>1, <2>2, <2>4 DEF Forward, Sound, Learnt, Doomed
  <2> QED
    BY <2>2, <2>3, <2>4, <2>5, <2>6, OneFile
<1>3. CASE Land(f)
  <2>1. /\ object[f] = "coming" /\ object'[f] = "stored"
        /\ object' \in [Files -> {"absent", "coming", "stored", "damaged"}]
        /\ \A g \in Files \ {f} : object'[g] = object[g]
        /\ UNCHANGED <<file, upload, run, clock>>
    BY <1>1, <1>3 DEF Land, FileTypeOK
  <2>2. FileTypeOK'
    BY <1>1, <2>1 DEF FileTypeOK
  <2>3. Forward(f) /\ Sound(f)'
    BY <1>1, <2>1 DEF Forward, Sound, Learnt, Doomed
  <2> QED
    BY <2>1, <2>2, <2>3, OneFile
<1>4. CASE Die(f)
  <2>1. /\ upload' \in [Files -> [step : Marks \cup {"none", "put", "head", "delete", "attach",
                                                     "compensate", "over"}, at : Times]]
        /\ upload'[f].step = "over"
        /\ \A g \in Files \ {f} : upload'[g] = upload[g]
    BY <1>4, WentOn DEF Die
  <2>2. UNCHANGED <<file, object, run, clock>> /\ upload[f].step = "put"
    BY <1>4 DEF Die
  <2>3. FileTypeOK'
    BY <1>1, <2>1, <2>2 DEF FileTypeOK
  <2>4. Forward(f) /\ Sound(f)'
    BY <1>1, <2>1, <2>2 DEF Forward, Sound, Learnt, Doomed
  <2> QED
    BY <2>1, <2>2, <2>3, <2>4, OneFile
<1> QED
  BY <1>2, <1>3, <1>4

\* The request asks, marks the row, and deletes.
LEMMA SettleInv ==
    ASSUME FileInv, NEW f \in Files, Head(f) \/ MarkUpload(f) \/ DeleteUpload(f)
    PROVE  FileInv'
<1>1. Sound(f) /\ FileTypeOK
  BY DEF FileInv
<1>2. CASE Head(f)
  <2>1. PICK step \in {"matches", "differs", "unclear"} :
          /\ GoOn(f, step)
          /\ step = "matches" => object[f] = "stored"
          /\ step = "differs" => object[f] = "damaged"
    BY <1>2 DEF Head, SeenEarly
  <2>2. /\ upload' \in [Files -> [step : Marks \cup {"none", "put", "head", "delete", "attach",
                                                     "compensate", "over"}, at : Times]]
        /\ upload'[f].step = step
        /\ \A g \in Files \ {f} : upload'[g] = upload[g]
    BY <2>1, WentOn DEF Marks
  <2>3. UNCHANGED <<file, object, run, clock>> /\ upload[f].step = "head"
    BY <1>2 DEF Head
  <2>4. FileTypeOK'
    BY <1>1, <2>2, <2>3 DEF FileTypeOK
  <2>5. Forward(f) /\ Sound(f)'
    BY <1>1, <2>1, <2>2, <2>3 DEF Forward, Sound, Learnt, Doomed
  <2> QED
    BY <2>2, <2>3, <2>4, <2>5, OneFile
<1>3. CASE MarkUpload(f)
  <2>0. PICK step \in Marks : step = upload[f].step
    BY <1>3 DEF MarkUpload
  <2>1. UNCHANGED <<object, run, clock>> /\ upload[f].at \in Times /\ Learnt(f, step)
    BY <1>1, <1>3, <2>0 DEF MarkUpload, FileTypeOK, Sound
  <2>2. CASE Mark(f, step, upload[f].at) /\ MayMark(f, step, upload[f].at) /\ GoOn(f, NextStep(step))
    <3>1. /\ file' \in [Files -> [status : {"none", "pending", "available", "failed",
                                            "delete_pending", "deleted"}, since : Times]]
          /\ file'[f].status = After(step) /\ file'[f].status # "none"
          /\ \A g \in Files \ {f} : file'[g] = file[g]
          /\ \/ file[f].status = "pending"
             \/ Doomed(f) /\ file'[f].status \in {"delete_pending", "deleted"}
          /\ object[f] = "coming" => file'[f].status = "pending"
          /\ file'[f].status = "available" => object[f] = "stored"
          /\ file'[f].status \in {"failed", "deleted"} => object[f] = "absent"
      BY <2>0, <2>1, <2>2, Marked
    <3>2. NextStep(step) \in {"attach", "delete", "over"} /\ (NextStep(step) = "delete" => step = "differs")
      BY DEF NextStep
    <3>3. /\ upload' \in [Files -> [step : Marks \cup {"none", "put", "head", "delete", "attach",
                                                       "compensate", "over"}, at : Times]]
          /\ upload'[f].step = NextStep(step)
          /\ \A g \in Files \ {f} : upload'[g] = upload[g]
      BY <2>2, <3>2, WentOn
    <3>4. FileTypeOK'
      BY <1>1, <2>1, <3>1, <3>3 DEF FileTypeOK
    <3>5. Forward(f)
      BY <1>1, <2>0, <2>1, <3>1, <3>2, <3>3 DEF Forward, Doomed
    <3>6. Sound(f)'
      BY <1>1, <2>0, <2>1, <3>1, <3>2, <3>3 DEF Sound, Learnt, Doomed, After
    <3> QED
      BY <2>1, <3>1, <3>3, <3>4, <3>5, <3>6, OneFile
  <2>3. CASE GoOn(f, "over") /\ UNCHANGED file
    <3>1. /\ upload' \in [Files -> [step : Marks \cup {"none", "put", "head", "delete", "attach",
                                                       "compensate", "over"}, at : Times]]
          /\ upload'[f].step = "over"
          /\ \A g \in Files \ {f} : upload'[g] = upload[g]
      BY <2>3, WentOn
    <3>2. FileTypeOK'
      BY <1>1, <2>1, <2>3, <3>1 DEF FileTypeOK
    <3>3. Forward(f) /\ Sound(f)'
      BY <1>1, <2>0, <2>1, <2>3, <3>1 DEF Forward, Sound, Learnt, Doomed, Marks
    <3> QED
      BY <2>1, <2>3, <3>1, <3>2, <3>3, OneFile
  <2> QED
    BY <1>3, <2>0, <2>2, <2>3 DEF MarkUpload
<1>4. CASE DeleteUpload(f)
  <2>1. PICK step \in {"gone", "undeleted"} :
          /\ GoOn(f, step)
          /\ Deleted(f) \/ (UNCHANGED object /\ step = "undeleted")
    BY <1>4 DEF DeleteUpload
  <2>2. /\ upload' \in [Files -> [step : Marks \cup {"none", "put", "head", "delete", "attach",
                                                     "compensate", "over"}, at : Times]]
        /\ upload'[f].step = step
        /\ \A g \in Files \ {f} : upload'[g] = upload[g]
    BY <2>1, WentOn DEF Marks
  <2>3. /\ object' \in [Files -> {"absent", "coming", "stored", "damaged"}]
        /\ object'[f] = "absent" \/ (object'[f] = object[f] /\ step = "undeleted")
        /\ \A g \in Files \ {f} : object'[g] = object[g]
    BY <1>1, <2>1 DEF Deleted, FileTypeOK
  <2>4. UNCHANGED <<file, run, clock>> /\ upload[f].step = "delete" /\ Doomed(f)
    BY <1>1, <1>4 DEF DeleteUpload, Sound, Learnt
  <2>5. FileTypeOK'
    BY <1>1, <2>2, <2>3, <2>4 DEF FileTypeOK
  <2>6. Forward(f) /\ Sound(f)'
    BY <1>1, <2>1, <2>2, <2>3, <2>4 DEF Forward, Sound, Learnt, Doomed
  <2> QED
    BY <2>2, <2>3, <2>4, <2>5, <2>6, OneFile
<1> QED
  BY <1>2, <1>3, <1>4

-----------------------------------------------------------------------------
(* "storage reconcile".                                                    *)

RunRows == [part : {"none", "uploads", "deletes", "over"},
            todo : SUBSET Files,
            item : Files \cup {0},
            step : Marks \cup {"none", "delete", "ask"}]

\* A run claims files.
LEMMA ClaimInv ==
    ASSUME FileInv, NEW k \in Runs, clock' \in Times, UNCHANGED <<object, upload>>,
           \/ Claim(k, "pending", "uploads")
           \/ Claim(k, "delete_pending", "deletes")
    PROVE  FileInv'
<1>1. FileTypeOK /\ (\A f \in Files : Sound(f))
  BY DEF FileInv
<1>2. PICK status \in {"pending", "delete_pending"}, part \in {"uploads", "deletes"} :
         Claim(k, status, part) /\ (part = "deletes" => status = "delete_pending")
  OBVIOUS
<1>3. PICK claims \in SUBSET Stale(status, k) :
         /\ file' = [f \in Files |-> IF f \in claims THEN [file[f] EXCEPT !.since = k] ELSE file[f]]
         /\ run' = [run EXCEPT ![k] = [part |-> part, todo |-> claims, item |-> 0, step |-> "none"]]
  BY <1>2 DEF Claim
<1>4. k \in Times
  BY FileAssumption DEF Runs, Times
<1>5. /\ \A f \in Files : file'[f].status = file[f].status
      /\ file' \in [Files -> [status : {"none", "pending", "available", "failed",
                                        "delete_pending", "deleted"}, since : Times]]
  BY <1>1, <1>3, <1>4 DEF FileTypeOK
<1>6. claims \subseteq Files
  BY <1>3 DEF Stale
<1>7. /\ run'[k] = [part |-> part, todo |-> claims, item |-> 0, step |-> "none"]
      /\ \A j \in Runs \ {k} : run'[j] = run[j]
      /\ run' \in [Runs -> RunRows]
  BY <1>1, <1>3, <1>6 DEF FileTypeOK, RunRows
<1>8. FileTypeOK'
  BY <1>1, <1>5, <1>7 DEF FileTypeOK, RunRows
<1>9. \A f \in Files : Forward(f) /\ Sound(f)'
  BY <1>1, <1>5 DEF Forward, Sound, Learnt, Doomed
<1>10. \A f \in claims : Sent(f)' /\ (part = "deletes" => Doomed(f)')
  BY <1>2, <1>3, <1>5, <1>6 DEF Stale, Sent, Doomed
<1>11. 0 \notin Files
  BY FileAssumption DEF Files
<1>12. Known(k)'
  BY <1>7, <1>10, <1>11 DEF Known
<1> QED
  BY <1>7, <1>8, <1>9, <1>12, OneRun

\* Three columns are written at once.
LEMMA RowTaken ==
    ASSUME NEW r \in RunRows, NEW todo, NEW item, NEW step
    PROVE  [r EXCEPT !.todo = todo, !.item = item, !.step = step]
             = [part |-> r.part, todo |-> todo, item |-> item, step |-> step]
<1>1. [r EXCEPT !.todo = todo] = [part |-> r.part, todo |-> todo, item |-> r.item, step |-> r.step]
  BY DEF RunRows
<1>2. [[part |-> r.part, todo |-> todo, item |-> r.item, step |-> r.step] EXCEPT !.item = item]
        = [part |-> r.part, todo |-> todo, item |-> item, step |-> r.step]
  OBVIOUS
<1>3. [[part |-> r.part, todo |-> todo, item |-> item, step |-> r.step] EXCEPT !.step = step]
        = [part |-> r.part, todo |-> todo, item |-> item, step |-> step]
  OBVIOUS
<1> QED
  BY <1>1, <1>2, <1>3

\* A run looks at its next file.
LEMMA HeadClaimInv ==
    ASSUME FileInv, NEW k \in Runs, HeadClaim(k)
    PROVE  FileInv'
<1>1. FileTypeOK /\ (\A f \in Files : Sound(f)) /\ Known(k) /\ run[k] \in RunRows
  BY DEF FileInv, FileTypeOK, RunRows
<1>2. PICK f \in run[k].todo :
         IF run[k].part = "uploads"
         THEN Take(k, f, SeenLate(f)) \/ Take(k, f, "unclear")
         ELSE Take(k, f, SeenToDelete(f)) \/ Take(k, f, "undeleted")
  BY DEF HeadClaim
<1>3. f \in Files /\ Sent(f) /\ object[f] \in {"absent", "stored", "damaged"}
      /\ (run[k].part = "deletes" => Doomed(f))
  BY <1>1 DEF RunRows, Known, Sent, FileTypeOK
<1>4. UNCHANGED <<file, object, upload, clock>>
  BY DEF HeadClaim
<1>5. CASE run[k].part \in {"uploads", "deletes"}
  <2>1. PICK step \in {"matches", "differs", "missing", "unclear", "delete", "gone", "undeleted"} :
           Take(k, f, step) /\ Learnt(f, step)
    BY <1>2, <1>3, <1>5 DEF SeenLate, SeenToDelete, Learnt
  <2>2. /\ run'[k].part = run[k].part /\ run'[k].todo = run[k].todo \ {f}
        /\ run'[k].item = f /\ run'[k].step = step /\ run'[k] \in RunRows
        /\ \A j \in Runs \ {k} : run'[j] = run[j]
        /\ run' \in [Runs -> RunRows]
    <3> DEFINE row == [part |-> run[k].part, todo |-> run[k].todo \ {f}, item |-> f, step |-> step]
    <3>1. row \in RunRows
      BY <1>1, <1>3 DEF RunRows, Marks
    <3>2. run \in [Runs -> RunRows]
      BY <1>1 DEF FileTypeOK, RunRows
    <3>3. run' = [run EXCEPT ![k] = row]
      <4>1. run' = [run EXCEPT ![k] = [run[k] EXCEPT !.todo = @ \ {f}, !.item = f, !.step = step]]
        BY <2>1, <3>2 DEF Take
      <4>2. [run[k] EXCEPT !.todo = @ \ {f}, !.item = f, !.step = step] = row
        BY <1>1, RowTaken
      <4> QED
        BY <4>1, <4>2
    <3>4. run'[k] = row /\ \A j \in Runs \ {k} : run'[j] = run[j]
      BY <3>2, <3>3
    <3>5. run' \in [Runs -> RunRows]
      BY <3>1, <3>2, <3>3
    <3> QED
      BY <3>1, <3>4, <3>5
  <2>3. FileTypeOK'
    BY <1>1, <1>4, <2>2 DEF FileTypeOK, RunRows
  <2>4. \A g \in Files : Forward(g) /\ Sound(g)'
    BY <1>1, <1>4 DEF Forward, Sound, Learnt, Doomed
  <2>5. 0 \notin Files
    BY FileAssumption DEF Files
  <2>6. Known(k)'
    BY <1>1, <1>3, <1>4, <2>1, <2>2, <2>5 DEF Known, Sent, Learnt, Doomed
  <2> QED
    BY <2>2, <2>3, <2>4, <2>6, OneRun
<1> QED
  BY <1>1, <1>2, <1>5 DEF Known, RunRows

\* A run goes on with the file it looks at.
LEMMA RanOn ==
    ASSUME FileInv, NEW k \in Runs, NEW step \in Marks \cup {"delete", "ask"}, RunOn(k, step),
           NEW f \in Files, f = run[k].item
    PROVE  /\ run'[k].part = run[k].part /\ run'[k].todo = run[k].todo
           /\ run'[k].item = f /\ run'[k].step = step
           /\ \A j \in Runs \ {k} : run'[j] = run[j]
           /\ run' \in [Runs -> RunRows]
<1>1. run \in [Runs -> RunRows]
  BY DEF FileInv, FileTypeOK, RunRows
<1>2. [run[k] EXCEPT !.step = step] \in RunRows
  BY <1>1 DEF RunRows
<1>3. run' = [run EXCEPT ![k] = [run[k] EXCEPT !.step = step]]
  BY DEF RunOn
<1>4. run'[k] = [run[k] EXCEPT !.step = step] /\ run[k] \in RunRows
  BY <1>1, <1>3
<1>5. run' \in [Runs -> RunRows] /\ \A j \in Runs \ {k} : run'[j] = run[j]
  BY <1>1, <1>2, <1>3
<1> QED
  BY <1>4, <1>5 DEF RunRows

\* What it knows then.
LEMMA StillAtIt ==
    ASSUME FileInv, NEW k \in Runs, NEW f \in Files, NEW step, f = run[k].item,
           run'[k].part = run[k].part, run'[k].todo = run[k].todo,
           run'[k].item = f, run'[k].step = step,
           \A j \in Runs \ {k} : run'[j] = run[j],
           FileTypeOK', \A g \in Files : Forward(g) /\ Sound(g)',
           Learnt(f, step)'
    PROVE  FileInv'
<1>1. Known(k) /\ 0 \notin Files
  BY FileAssumption DEF FileInv, Files
<1>2. \A g \in Files : g \in run[k].todo \/ g = run[k].item => Sent(g)'
  BY <1>1, StillLearnt DEF Known
<1>3. run[k].part = "deletes" => \A g \in Files : g \in run[k].todo => Doomed(g)'
  BY <1>1, StillLearnt DEF Known
<1>4. Learnt(run[k].item, run[k].step)'
  BY DEF Learnt, Doomed
<1>5. Known(k)'
  BY <1>1, <1>2, <1>3, <1>4 DEF Known
<1> QED
  BY <1>5, OneRun

\* A run deletes, and asks whether it did.
LEMMA DeleteClaimInv ==
    ASSUME FileInv, NEW k \in Runs, DeleteClaim(k) \/ AskAgain(k)
    PROVE  FileInv'
<1>1. FileTypeOK /\ (\A g \in Files : Sound(g)) /\ Known(k) /\ run[k] \in RunRows
  BY DEF FileInv, FileTypeOK, RunRows
<1>2. run[k].step \in {"delete", "ask"} /\ UNCHANGED <<file, upload, clock>>
  BY DEF DeleteClaim, AskAgain
<1>3. PICK f \in Files : f = run[k].item
  BY <1>1, <1>2 DEF Known, RunRows
<1>4. Sent(f) /\ Doomed(f)
  BY <1>1, <1>2, <1>3 DEF Known, Learnt
<1>5. PICK step \in {"gone", "undeleted", "ask"} :
        /\ RunOn(k, step)
        /\ object' = object \/ object' = [object EXCEPT ![f] = "absent"]
        /\ step = "gone" => object'[f] = "absent"
  BY <1>1, <1>3 DEF DeleteClaim, AskAgain, Deleted, FileTypeOK
<1>6. /\ object' \in [Files -> {"absent", "coming", "stored", "damaged"}]
      /\ \A g \in Files \ {f} : object'[g] = object[g]
      /\ object'[f] = object[f] \/ object'[f] = "absent"
  BY <1>1, <1>5 DEF FileTypeOK
<1>7. /\ run'[k].part = run[k].part /\ run'[k].todo = run[k].todo
      /\ run'[k].item = f /\ run'[k].step = step
      /\ \A j \in Runs \ {k} : run'[j] = run[j]
      /\ run' \in [Runs -> RunRows]
  BY <1>3, <1>5, RanOn DEF Marks
<1>8. FileTypeOK'
  BY <1>1, <1>2, <1>6, <1>7 DEF FileTypeOK, RunRows
<1>9. \A g \in Files : Forward(g)
  BY <1>2, <1>4, <1>6 DEF Forward
<1>10. ASSUME NEW g \in Files PROVE Sound(g)'
  <2>1. CASE g = f
    BY <1>1, <1>2, <1>4, <1>6, <2>1 DEF Sound, Learnt, Doomed, Sent
  <2>2. CASE g # f
    BY <1>1, <1>2, <1>6, <2>2 DEF Sound, Learnt, Doomed
  <2> QED
    BY <2>1, <2>2
<1>11. Learnt(f, step)'
  BY <1>2, <1>4, <1>5 DEF Learnt, Doomed
<1> QED
  BY <1>3, <1>7, <1>8, <1>9, <1>10, <1>11, StillAtIt

\* A run marks the row, or ends.
LEMMA MarkClaimInv ==
    ASSUME FileInv, NEW k \in Runs, MarkClaim(k)
    PROVE  FileInv'
<1>1. FileTypeOK /\ (\A g \in Files : Sound(g)) /\ Known(k) /\ run[k] \in RunRows
  BY DEF FileInv, FileTypeOK, RunRows
<1>2. PICK step \in Marks : step = run[k].step
  BY DEF MarkClaim
<1>3. PICK f \in Files : f = run[k].item
  BY <1>1, <1>2 DEF Known, RunRows, Marks
<1>4. Sent(f) /\ Learnt(f, step) /\ k \in Times /\ 0 \notin Files
  BY <1>1, <1>2, <1>3, FileAssumption DEF Known, Runs, Times, Files
<1>5. UNCHANGED <<object, upload, clock>>
  BY DEF MarkClaim
<1>6. CASE MayMark(f, step, k) /\ Mark(f, step, k)
  <2>1. /\ file' \in [Files -> [status : {"none", "pending", "available", "failed",
                                          "delete_pending", "deleted"}, since : Times]]
        /\ file'[f].status = After(step) /\ file'[f].status # "none"
        /\ \A g \in Files \ {f} : file'[g] = file[g]
        /\ \/ file[f].status = "pending"
           \/ Doomed(f) /\ file'[f].status \in {"delete_pending", "deleted"}
        /\ object[f] = "coming" => file'[f].status = "pending"
        /\ file'[f].status = "available" => object[f] = "stored"
        /\ file'[f].status \in {"failed", "deleted"} => object[f] = "absent"
    BY <1>4, <1>6, Marked DEF Sent
  <2>2. \A g \in Files : Forward(g)
    BY <1>5, <2>1 DEF Forward
  <2>3. ASSUME NEW g \in Files PROVE Sound(g)'
    <3>1. CASE g # f
      BY <1>1, <1>5, <2>1, <3>1 DEF Sound, Learnt, Doomed
    <3>2. CASE g = f
      BY <1>1, <1>4, <1>5, <2>1, <3>2 DEF Sound, Learnt, Doomed, Sent
    <3> QED
      BY <3>1, <3>2
  <2>4. CASE step = "differs" /\ RunOn(k, "delete")
    <3>1. /\ run'[k].part = run[k].part /\ run'[k].todo = run[k].todo
          /\ run'[k].item = f /\ run'[k].step = "delete"
          /\ \A j \in Runs \ {k} : run'[j] = run[j]
          /\ run' \in [Runs -> RunRows]
      BY <1>3, <2>4, RanOn
    <3>2. FileTypeOK'
      BY <1>1, <1>5, <2>1, <3>1 DEF FileTypeOK, RunRows
    <3>3. Learnt(f, "delete")'
      BY <2>1, <2>4 DEF Learnt, Doomed, After
    <3> QED
      BY <1>3, <2>2, <2>3, <3>1, <3>2, <3>3, StillAtIt
  <2>5. CASE run' = [run EXCEPT ![k].item = 0, ![k].step = "none"]
    <3>1. /\ run'[k].part = run[k].part /\ run'[k].todo = run[k].todo
          /\ run'[k].item = 0 /\ run'[k].step = "none"
          /\ \A j \in Runs \ {k} : run'[j] = run[j]
          /\ run' \in [Runs -> RunRows]
      BY <1>1, <2>5 DEF FileTypeOK, RunRows
    <3>2. FileTypeOK'
      BY <1>1, <1>5, <2>1, <3>1 DEF FileTypeOK, RunRows
    <3>3. \A g \in Files : g \in run[k].todo =>
            Sent(g)' /\ (run[k].part = "deletes" => Doomed(g)')
      BY <1>1, <2>2, StillLearnt DEF Known
    <3>4. Known(k)'
      BY <1>1, <1>4, <3>1, <3>3 DEF Known
    <3> QED
      BY <2>2, <2>3, <3>1, <3>2, <3>4, OneRun
  <2> QED
    BY <1>2, <1>3, <1>6, <2>4, <2>5 DEF MarkClaim
<1>7. CASE run' = [run EXCEPT ![k] = Ended] /\ UNCHANGED file
  <2>1. /\ run'[k] = Ended
        /\ \A j \in Runs \ {k} : run'[j] = run[j]
        /\ run' \in [Runs -> RunRows]
    BY <1>1, <1>7 DEF FileTypeOK, RunRows, Ended
  <2>2. FileTypeOK'
    BY <1>1, <1>5, <1>7, <2>1 DEF FileTypeOK, RunRows
  <2>3. \A g \in Files : Forward(g) /\ Sound(g)'
    BY <1>1, <1>5, <1>7 DEF Forward, Sound, Learnt, Doomed
  <2>4. Known(k)'
    BY <1>4, <2>1 DEF Known, Ended
  <2> QED
    BY <2>1, <2>2, <2>3, <2>4, OneRun
<1> QED
  BY <1>2, <1>3, <1>6, <1>7 DEF MarkClaim

-----------------------------------------------------------------------------
(* The customer.                                                           *)

\* What is attached is available, one document is current, and a submission is
\* attached once.
Attached ==
    /\ \A f \in Files : doc[f] # "none" => file[f].status = "available"
    /\ \A f, g \in Files : doc[f] = "current" /\ doc[g] = "current" => f = g
    /\ \A f, g \in Files : /\ doc[f] # "none" /\ doc[g] # "none"
                           /\ request[f].submission = request[g].submission
                           => f = g

\* A text that was accepted is not a draft any more.
Frozen == \A v \in Versions : accepted[v] # 0 => offer[v].status # "draft" /\ accepted[v] = offer[v].text

Confirmed ==
    customer = "active" =>
        code.snapshot.doc \in Files /\ code.snapshot.offer \in Versions /\ ActiveAsConfirmed

Inv == TypeOK /\ FileInv /\ Attached /\ Frozen /\ Confirmed

\* What CHOOSE finds.
LEMMA CurrentDocument ==
    ASSUME TypeOK
    PROVE  /\ CurrentDoc \in Pages
           /\ CurrentDoc \in Files => doc[CurrentDoc] = "current"
           /\ CurrentDoc = NoFile => \A f \in Files : doc[f] # "current"
<1>1. NoFile \notin Files
  BY FileAssumption DEF NoFile, Files
<1> QED
  BY <1>1 DEF CurrentDoc, Pages

\* The same for the offers.
LEMMA CurrentVersion ==
    /\ CurrentOffer \in Versions \cup {None}
    /\ CurrentOffer \in Versions => IsCurrent(CurrentOffer)
BY OnboardingAssumption DEF CurrentOffer

\* A customer begins without papers.
LEMMA InitInv == Init => Inv
<1> SUFFICES ASSUME Init PROVE Inv
  OBVIOUS
<1>1. FileTypeOK
  BY FileAssumption DEF Init, FileInit, FileTypeOK, NoRun, Times, Files
<1>2. FileInv
  <2>1. 0 \notin Files
    BY FileAssumption DEF Files
  <2>2. \A f \in Files : Sound(f)
    BY DEF Init, FileInit, Sound, Learnt, Doomed
  <2>3. \A k \in Runs : Known(k)
    BY <2>1 DEF Init, FileInit, Known, NoRun
  <2> QED
    BY <1>1, <2>2, <2>3 DEF FileInv
<1>3. TypeOK
  <2>1. NoSnapshot \in [doc : Pages, identity : Nat, offer : Versions \cup {None}, linkedAt : Nat]
    BY DEF NoSnapshot, Pages
  <2>2. /\ doc \in [Files -> {"none", "current", "superseded"}]
        /\ request \in [Files -> [submission : Submissions \cup {None}, expected : Pages]]
        /\ identity \in Nat
        /\ offer \in [Versions -> [status : {"draft", "approved", "current"}, text : 1..MaxEdits]]
        /\ accepted \in [Versions -> 0..MaxEdits]
    BY OnboardingAssumption DEF Init, Pages
  <2>3. /\ link \in [linkedAt : Nat, active : BOOLEAN]
        /\ customer \in {"draft", "active"}
        /\ acts \in 0..MaxActs
    BY OnboardingAssumption DEF Init
  <2> QED
    BY <1>1, <2>1, <2>2, <2>3 DEF Init, TypeOK
<1>4. Attached /\ Frozen /\ Confirmed
  BY DEF Init, Attached, Frozen, Confirmed
<1> QED
  BY <1>2, <1>3, <1>4 DEF Inv

\* An upload begins, attaches its file, or gives it up.
LEMMA UploadFiles ==
    ASSUME Inv, NEW f \in Files, NEW s \in 1..f, Upload(f, s)
    PROVE  FileInv'
<1>1. FileTypeOK /\ FileInv /\ Sound(f) /\ clock \in Times
  BY DEF Inv, FileInv, FileTypeOK
<1>2. /\ file[f].status = "none" /\ object[f] = "absent"
      /\ file' = [file EXCEPT ![f] = [status |-> "pending", since |-> clock]]
      /\ upload' = [upload EXCEPT ![f] = [step |-> "put", at |-> clock]]
      /\ UNCHANGED <<object, run, clock>>
  BY <1>1 DEF Upload, CreatePending, PendingRow, Sound
<1>3. FileTypeOK'
  BY <1>1, <1>2 DEF FileTypeOK
<1>4. /\ file'[f].status = "pending" /\ upload'[f].step = "put"
      /\ \A g \in Files \ {f} : file'[g] = file[g] /\ object'[g] = object[g] /\ upload'[g] = upload[g]
  BY <1>1, <1>2 DEF FileTypeOK
<1>5. Forward(f) /\ Sound(f)'
  BY <1>1, <1>2, <1>4 DEF Forward, Sound, Learnt, Doomed
<1> QED
  BY <1>1, <1>2, <1>3, <1>4, <1>5, OneFile

\* Attaching leaves the row of the file alone.
LEMMA AttachFiles ==
    ASSUME Inv, NEW f \in Files, Attach(f)
    PROVE  FileInv'
<1>1. FileTypeOK /\ FileInv /\ Sound(f)
  BY DEF Inv, FileInv
<1>2. PICK step \in {"over", "compensate"} : GoOn(f, step)
  BY DEF Attach
<1>3. upload[f].step = "attach" /\ UNCHANGED <<file, object, run, clock>>
  BY DEF Attach
<1>4. /\ upload' \in [Files -> [step : Marks \cup {"none", "put", "head", "delete", "attach",
                                                   "compensate", "over"}, at : Times]]
      /\ upload'[f].step = step
      /\ \A g \in Files \ {f} : upload'[g] = upload[g]
  BY <1>1, <1>2, WentOn
<1>5. FileTypeOK'
  BY <1>1, <1>3, <1>4 DEF FileTypeOK
<1>6. Forward(f) /\ Sound(f)'
  BY <1>1, <1>2, <1>3, <1>4 DEF Forward, Sound, Learnt, Doomed, Marks
<1> QED
  BY <1>1, <1>3, <1>4, <1>5, <1>6, OneFile

\* Giving up dooms an available file.
LEMMA CompensateFiles ==
    ASSUME Inv, NEW f \in Files, Compensate(f)
    PROVE  FileInv'
<1>1. FileTypeOK /\ FileInv /\ Sound(f) /\ upload[f].at \in Times
  BY DEF Inv, FileInv, FileTypeOK
<1>2. upload[f].step = "compensate" /\ UNCHANGED <<object, run, clock>> /\ GoOn(f, "over")
  BY DEF Compensate
<1>3. /\ upload' \in [Files -> [step : Marks \cup {"none", "put", "head", "delete", "attach",
                                                   "compensate", "over"}, at : Times]]
      /\ upload'[f].step = "over"
      /\ \A g \in Files \ {f} : upload'[g] = upload[g]
  BY <1>1, <1>2, WentOn
<1>4. /\ file' \in [Files -> [status : {"none", "pending", "available", "failed",
                                        "delete_pending", "deleted"}, since : Times]]
      /\ \A g \in Files \ {f} : file'[g] = file[g]
      /\ \/ file'[f] = file[f]
         \/ file[f].status = "available" /\ file'[f].status = "delete_pending"
  <2>1. CASE UNCHANGED file
    BY <1>1, <2>1 DEF FileTypeOK
  <2>2. CASE /\ Unattached(f)
             /\ file' = [file EXCEPT ![f] = [status |-> "delete_pending", since |-> upload[f].at]]
    BY <1>1, <2>2 DEF FileTypeOK, Unattached
  <2> QED
    BY <2>1, <2>2 DEF Compensate
<1>5. FileTypeOK'
  BY <1>1, <1>2, <1>3, <1>4 DEF FileTypeOK
<1>6. Forward(f) /\ Sound(f)'
  BY <1>1, <1>2, <1>3, <1>4 DEF Forward, Sound, Learnt, Doomed, Marks
<1> QED
  BY <1>1, <1>2, <1>3, <1>4, <1>5, <1>6, OneFile

\* The files after any step.
LEMMA FilesKept == Inv /\ [Next]_vars => FileInv'
<1> SUFFICES ASSUME Inv, [Next]_vars PROVE FileInv'
  OBVIOUS
<1>1. FileInv
  BY DEF Inv
<1>2. CASE StorageStep
  BY <1>1, <1>2, PutInv, SettleInv, ClaimInv, HeadClaimInv, MarkClaimInv, DeleteClaimInv
  DEF StorageStep, StartDeletes, FileInv, FileTypeOK
<1>3. CASE \E f \in Files : Attach(f) \/ Compensate(f) \/ \E s \in 1..f : Upload(f, s)
  BY <1>3, AttachFiles, CompensateFiles, UploadFiles
<1>4. CASE \E k \in Runs : Reconcile(k)
  <2>1. PICK k \in Runs : Reconcile(k)
    BY <1>4
  <2>2. clock' \in Times
    BY <2>1, FileAssumption DEF Reconcile, StartRun, Runs, Times
  <2> QED
    BY <1>1, <2>1, <2>2, ClaimInv DEF Reconcile, StartRun
<1>5. CASE UNCHANGED storage
  BY <1>1, <1>5 DEF FileInv, FileTypeOK, Sound, Known, Learnt, Doomed, Sent, storage
<1> QED
  BY <1>2, <1>3, <1>4, <1>5
  DEF Next, vars, EditText, Approve, Publish, AcceptOffer, SaveIdentity, ChangeLink, IssueCode,
      DeliverCode, LoseCode, Verify, storage

\* No step of storage takes an available file away.
LEMMA AvailableKept ==
    ASSUME TypeOK, StorageStep \/ \E k \in Runs : StartRun(k),
           NEW f \in Files, file[f].status = "available"
    PROVE  file'[f] = file[f]
<1>1. FileTypeOK
  BY DEF TypeOK
<1>2. \A g \in Files : \A step, time : MayMark(g, step, time) => g # f
  BY DEF MayMark, Before
<1>3. \A g, step, time : g # f /\ Mark(g, step, time) => file'[f] = file[f]
  BY <1>1 DEF Mark, FileTypeOK
<1>4. ASSUME NEW g \in Files, Put(g) \/ Land(g) \/ Head(g) \/ MarkUpload(g) \/ DeleteUpload(g) \/ Die(g)
      PROVE  file'[f] = file[f]
  BY <1>2, <1>3, <1>4 DEF Put, Land, Head, MarkUpload, DeleteUpload, Die
<1>5. ASSUME NEW k \in Runs, NEW status \in {"pending", "delete_pending"}, NEW part, Claim(k, status, part)
      PROVE  file'[f] = file[f]
  BY <1>1, <1>5 DEF Claim, Stale, FileTypeOK
<1>6. ASSUME NEW k \in Runs, HeadClaim(k) \/ MarkClaim(k) \/ DeleteClaim(k) \/ AskAgain(k)
      PROVE  file'[f] = file[f]
  <2>1. \A step, time : ~(MayMark(f, step, time))
    BY DEF MayMark, Before
  <2>2. CASE MarkClaim(k)
    <3>1. CASE run[k].item = f
      BY <2>1, <2>2, <3>1 DEF MarkClaim
    <3>2. CASE run[k].item # f
      BY <1>3, <2>2, <3>2 DEF MarkClaim
    <3> QED
      BY <3>1, <3>2
  <2> QED
    BY <1>6, <2>2 DEF HeadClaim, DeleteClaim, AskAgain
<1> QED
  BY <1>4, <1>5, <1>6 DEF StorageStep, StartRun, StartDeletes

\* What only the customer's acts change, by what each of them changes.
LEMMA TypesKept == Inv /\ [Next]_vars => TypeOK'
<1> SUFFICES ASSUME Inv, [Next]_vars PROVE TypeOK'
  OBVIOUS
<1>1. FileTypeOK' /\ TypeOK
  BY FilesKept DEF FileInv, Inv
<1>2. acts' \in 0..MaxActs
  BY <1>1, OnboardingAssumption
  DEF TypeOK, Next, vars, Act, Attach, Compensate, Upload, Reconcile, EditText, Approve, Publish,
      AcceptOffer, SaveIdentity, ChangeLink, IssueCode, DeliverCode, LoseCode, Verify
<1>3. doc' \in [Files -> {"none", "current", "superseded"}]
  BY <1>1
  DEF TypeOK, Next, vars, papers, Attach, Compensate, Upload, Reconcile, EditText, Approve, Publish,
      AcceptOffer, SaveIdentity, ChangeLink, IssueCode, DeliverCode, LoseCode, Verify
<1>4. request' \in [Files -> [submission : Submissions \cup {None}, expected : Pages]]
  <2>1. ASSUME NEW f \in Files, NEW s \in 1..f, Upload(f, s)
        PROVE  request' \in [Files -> [submission : Submissions \cup {None}, expected : Pages]]
    <3>1. s \in Submissions
      BY FileAssumption DEF Submissions, Files
    <3>2. CurrentDoc \in Pages
      BY <1>1, CurrentDocument
    <3> QED
      BY <1>1, <2>1, <3>1, <3>2 DEF Upload, TypeOK
  <2> QED
    BY <1>1, <2>1
    DEF TypeOK, Next, vars, papers, Attach, Compensate, Reconcile, EditText, Approve, Publish,
        AcceptOffer, SaveIdentity, ChangeLink, IssueCode, DeliverCode, LoseCode, Verify
<1>5. identity' \in Nat
  BY <1>1
  DEF TypeOK, Next, vars, papers, Attach, Compensate, Upload, Reconcile, EditText, Approve, Publish,
      AcceptOffer, SaveIdentity, Saved, ChangeLink, IssueCode, DeliverCode, LoseCode, Verify
<1>6. offer' \in [Versions -> [status : {"draft", "approved", "current"}, text : 1..MaxEdits]]
  <2>1. ASSUME NEW v \in Versions, EditText(v)
        PROVE  offer' \in [Versions -> [status : {"draft", "approved", "current"}, text : 1..MaxEdits]]
    <3>1. offer[v].text + 1 \in 1..MaxEdits
      BY <1>1, <2>1, OnboardingAssumption DEF TypeOK, EditText
    <3> QED
      BY <1>1, <2>1, <3>1 DEF TypeOK, EditText
  <2>2. ASSUME NEW v \in Versions, Approve(v) \/ Publish(v)
        PROVE  offer' \in [Versions -> [status : {"draft", "approved", "current"}, text : 1..MaxEdits]]
    BY <1>1, <2>2 DEF TypeOK, Approve, Publish
  <2> QED
    BY <1>1, <2>1, <2>2
    DEF TypeOK, Next, vars, offers, Attach, Compensate, Upload, Reconcile, AcceptOffer, SaveIdentity,
        ChangeLink, IssueCode, DeliverCode, LoseCode, Verify
<1>7. accepted' \in [Versions -> 0..MaxEdits]
  <2>1. ASSUME NEW v \in Versions, AcceptOffer(v)
        PROVE  accepted' \in [Versions -> 0..MaxEdits]
    <3>1. offer[v].text \in 0..MaxEdits
      BY <1>1, OnboardingAssumption DEF TypeOK
    <3> QED
      BY <1>1, <2>1, <3>1 DEF TypeOK, AcceptOffer
  <2> QED
    BY <1>1, <2>1
    DEF TypeOK, Next, vars, offers, Attach, Compensate, Upload, Reconcile, EditText, Approve, Publish,
        SaveIdentity, ChangeLink, IssueCode, DeliverCode, LoseCode, Verify
<1>8. link' \in [linkedAt : Nat, active : BOOLEAN]
  <2>1. link \in [linkedAt : Nat, active : BOOLEAN]
    BY <1>1 DEF TypeOK
  <2>2. CASE link' = [linkedAt |-> link.linkedAt + 1, active |-> TRUE]
    BY <2>1, <2>2
  <2>3. CASE link' = [link EXCEPT !.active = FALSE]
    BY <2>1, <2>3
  <2>4. CASE UNCHANGED link
    BY <2>1, <2>4
  <2> QED
    BY <2>2, <2>3, <2>4
    DEF Next, vars, Attach, Compensate, Upload, Reconcile, EditText, Approve, Publish,
        AcceptOffer, SaveIdentity, ChangeLink, IssueCode, DeliverCode, LoseCode, Verify
<1>9. customer' \in {"draft", "active"}
  BY <1>1
  DEF TypeOK, Next, vars, Attach, Compensate, Upload, Reconcile, EditText, Approve, Publish,
      AcceptOffer, SaveIdentity, ChangeLink, IssueCode, DeliverCode, LoseCode, Verify, Activated
<1>10. code' \in [status : {"none", "pending", "active", "ended", "consumed"},
                  snapshot : [doc : Pages, identity : Nat, offer : Versions \cup {None},
                              linkedAt : Nat]]
  <2>1. Snapshot \in [doc : Pages, identity : Nat, offer : Versions \cup {None}, linkedAt : Nat]
    BY <1>1, CurrentDocument, CurrentVersion DEF Snapshot, TypeOK
  <2>2. Over \in [status : {"none", "pending", "active", "ended", "consumed"},
                  snapshot : [doc : Pages, identity : Nat, offer : Versions \cup {None},
                              linkedAt : Nat]]
    BY DEF Over, NoSnapshot, Pages
  <2>3. CASE UNCHANGED code
    BY <1>1, <2>3 DEF TypeOK
  <2>4. CASE code' = Ends
    BY <1>1, <2>2, <2>4 DEF TypeOK, Ends
  <2>5. CASE code' = [status |-> "pending", snapshot |-> Snapshot]
    BY <2>1, <2>5
  <2>6. CASE code' = [code EXCEPT !.status = "active"] \/ code' = [code EXCEPT !.status = "consumed"]
    BY <1>1, <2>6 DEF TypeOK
  <2> QED
    BY <2>3, <2>4, <2>5, <2>6
    DEF Next, vars, Attach, Compensate, Upload, Reconcile, EditText, Approve, Publish,
        AcceptOffer, SaveIdentity, ChangeLink, IssueCode, DeliverCode, LoseCode, Verify
<1> QED
  BY <1>1, <1>2, <1>3, <1>4, <1>5, <1>6, <1>7, <1>8, <1>9, <1>10 DEF TypeOK

\* Only an upload attaches a document, and only what is not attached is given up.
LEMMA AttachedKept == Inv /\ [Next]_vars => Attached'
<1> SUFFICES ASSUME Inv, [Next]_vars PROVE Attached'
  OBVIOUS
<1>1. TypeOK /\ Attached
  BY DEF Inv
<1>2. CASE UNCHANGED <<doc, request>> /\ \A f \in Files : file[f].status = "available" => file'[f] = file[f]
  BY <1>1, <1>2 DEF Attached
<1>3. CASE StorageStep /\ UNCHANGED papers
  BY <1>1, <1>2, <1>3, AvailableKept DEF papers
<1>4. ASSUME NEW k \in Runs, Reconcile(k) PROVE Attached'
  BY <1>1, <1>2, <1>4, AvailableKept DEF Reconcile, papers
<1>5. ASSUME NEW f \in Files, NEW s \in 1..f, Upload(f, s) PROVE Attached'
  <2>1. file[f].status = "none" /\ UNCHANGED doc
    BY <1>5 DEF Upload, CreatePending, PendingRow
  <2>2. doc[f] = "none"
    BY <1>1, <2>1 DEF Attached, TypeOK
  <2>3. \A g \in Files \ {f} : request'[g] = request[g] /\ file'[g] = file[g]
    BY <1>1, <1>5 DEF Upload, CreatePending, PendingRow, TypeOK, FileTypeOK
  <2> QED
    BY <1>1, <2>1, <2>2, <2>3 DEF Attached
<1>6. ASSUME NEW f \in Files, Compensate(f) PROVE Attached'
  <2>1. CASE UNCHANGED file
    BY <1>1, <1>6, <2>1 DEF Compensate, papers, Attached
  <2>2. CASE Unattached(f) /\ file' = [file EXCEPT ![f] = [status |-> "delete_pending", since |-> upload[f].at]]
    <3>1. doc[f] = "none" /\ UNCHANGED <<doc, request>>
      BY <1>6, <2>2 DEF Compensate, papers, Unattached
    <3>2. \A g \in Files \ {f} : file'[g] = file[g]
      BY <1>1, <2>2 DEF TypeOK, FileTypeOK
    <3> QED
      BY <1>1, <3>1, <3>2 DEF Attached
  <2> QED
    BY <1>6, <2>1, <2>2 DEF Compensate
<1>7. ASSUME NEW f \in Files, Attach(f) PROVE Attached'
  <2>1. UNCHANGED <<file, request>>
    BY <1>7 DEF Attach
  <2>2. CASE UNCHANGED doc
    BY <1>1, <2>1, <2>2 DEF Attached
  <2>3. CASE /\ MayAttach(f)
             /\ doc' = [g \in Files |->
                  IF g = f THEN "current" ELSE IF doc[g] = "current" THEN "superseded" ELSE doc[g]]
    <3>1. /\ doc'[f] = "current" /\ file[f].status = "available"
          /\ \A g \in Files \ {f} : doc'[g] # "current" /\ (doc'[g] # "none" => doc[g] # "none")
      BY <2>3 DEF MayAttach
    <3>2. \A g \in Files : doc[g] # "none" => request[g].submission # request[f].submission
      BY <2>3 DEF MayAttach, Submitted
    <3> QED
      BY <1>1, <2>1, <3>1, <3>2 DEF Attached
  <2> QED
    BY <1>7, <2>2, <2>3 DEF Attach
<1>8. CASE UNCHANGED <<storage, doc, request>>
  BY <1>2, <1>8 DEF storage
<1> QED
  BY <1>3, <1>4, <1>5, <1>6, <1>7, <1>8
  DEF Next, vars, papers, EditText, Approve, Publish, AcceptOffer, SaveIdentity, ChangeLink, IssueCode,
      DeliverCode, LoseCode, Verify

\* Only drafts are edited, and what is accepted is current.
LEMMA FrozenKept == Inv /\ [Next]_vars => Frozen'
<1> SUFFICES ASSUME Inv, [Next]_vars PROVE Frozen'
  OBVIOUS
<1>1. TypeOK /\ Frozen
  BY DEF Inv
<1>2. ASSUME NEW v \in Versions, EditText(v) \/ Approve(v) PROVE Frozen'
  <2>1. accepted[v] = 0 /\ UNCHANGED accepted
    BY <1>1, <1>2 DEF Frozen, EditText, Approve
  <2>2. \A w \in Versions \ {v} : offer'[w] = offer[w]
    BY <1>1, <1>2 DEF EditText, Approve, TypeOK
  <2> QED
    BY <1>1, <2>1, <2>2 DEF Frozen
<1>3. ASSUME NEW v \in Versions, Publish(v) PROVE Frozen'
  <2>1. \A w \in Versions : /\ offer'[w].text = offer[w].text
                            /\ offer[w].status # "draft" => offer'[w].status # "draft"
    BY <1>1, <1>3 DEF Publish, TypeOK
  <2>2. UNCHANGED accepted
    BY <1>3 DEF Publish
  <2> QED
    BY <1>1, <2>1, <2>2 DEF Frozen
<1>4. ASSUME NEW v \in Versions, AcceptOffer(v) PROVE Frozen'
  <2>1. /\ accepted'[v] = offer[v].text /\ offer[v].status = "current" /\ UNCHANGED offer
        /\ \A w \in Versions \ {v} : accepted'[w] = accepted[w]
    BY <1>1, <1>4 DEF AcceptOffer, IsCurrent, TypeOK
  <2> QED
    BY <1>1, <2>1 DEF Frozen
<1>5. CASE UNCHANGED offers
  BY <1>1, <1>5 DEF Frozen, offers
<1> QED
  BY <1>2, <1>3, <1>4, <1>5
  DEF Next, vars, offers, Attach, Compensate, Upload, Reconcile, SaveIdentity, ChangeLink, IssueCode,
      DeliverCode, LoseCode, Verify

\* The code activates on what there is, and an active customer's papers, link and
\* code stay as they are.
LEMMA ConfirmedKept == Inv /\ [Next]_vars => Confirmed'
<1> SUFFICES ASSUME Inv, [Next]_vars, customer' = "active"
             PROVE  (code.snapshot.doc \in Files /\ code.snapshot.offer \in Versions /\ ActiveAsConfirmed)'
  BY DEF Confirmed
<1>1. TypeOK /\ FileInv /\ Attached /\ Frozen /\ Confirmed
  BY DEF Inv
<1>2. FileInv' /\ Attached' /\ TypeOK' /\ Frozen'
  BY FilesKept, AttachedKept, TypesKept, FrozenKept
<1>3. \A f \in Files : doc'[f] = "current" => object'[f] = "stored"
  <2>1. ASSUME NEW f \in Files, doc'[f] = "current" PROVE object'[f] = "stored"
    <3>1. file'[f].status = "available" /\ Sound(f)'
      BY <1>2, <2>1 DEF Attached, FileInv
    <3> QED
      BY <3>1 DEF Sound
  <2> QED
    BY <2>1
<1>4. CASE customer = "active"
  <2>1. /\ code.snapshot.doc \in Files /\ code.snapshot.offer \in Versions
        /\ code.status = "consumed" /\ doc[code.snapshot.doc] = "current" /\ link.active
        /\ identity = code.snapshot.identity
        /\ accepted[code.snapshot.offer] = offer[code.snapshot.offer].text
    BY <1>1, <1>4 DEF Confirmed, ActiveAsConfirmed
  <2>2. UNCHANGED <<doc, identity, code>>
    BY <1>4, <2>1
    DEF Next, vars, papers, Attach, MayAttach, Compensate, Upload, Reconcile, EditText, Approve,
        Publish, AcceptOffer, SaveIdentity, MaySave, ChangeLink, IssueCode, Ready, DeliverCode,
        LoseCode, Verify, Ends, Outstanding
  <2>3. link'.active
    BY <1>4, <2>1
    DEF Next, vars, Attach, Compensate, Upload, Reconcile, EditText, Approve,
        Publish, AcceptOffer, SaveIdentity, ChangeLink, IssueCode, DeliverCode, LoseCode, Verify
  <2>4. accepted[code.snapshot.offer] # 0
    BY <1>1, <2>1 DEF TypeOK
  <2>5. accepted'[code.snapshot.offer] = accepted[code.snapshot.offer]
    BY <1>1, <2>1, <2>4
    DEF TypeOK, Next, vars, offers, Attach, Compensate, Upload, Reconcile, EditText, Approve,
        Publish, AcceptOffer, SaveIdentity, ChangeLink, IssueCode, DeliverCode, LoseCode, Verify
  <2>6. /\ accepted'[code.snapshot.offer] = offer'[code.snapshot.offer].text
        /\ offer'[code.snapshot.offer].status # "draft"
    BY <1>2, <2>1, <2>4, <2>5 DEF Frozen
  <2> QED
    BY <1>3, <2>1, <2>2, <2>3, <2>5, <2>6 DEF ActiveAsConfirmed
<1>5. CASE customer # "active"
  <2>1. Verify /\ SameAsIssued
    BY <1>5
    DEF Next, vars, Attach, Compensate, Upload, Reconcile, EditText, Approve,
        Publish, AcceptOffer, SaveIdentity, ChangeLink, IssueCode, DeliverCode, LoseCode, Verify
  <2>2. /\ code'.snapshot = Snapshot /\ code'.status = "consumed"
        /\ UNCHANGED <<storage, papers, offers, link>>
    BY <1>1, <2>1 DEF Verify, SameAsIssued, TypeOK
  <2>3. /\ CurrentDoc \in Files /\ doc[CurrentDoc] = "current"
        /\ CurrentOffer \in Versions /\ IsCurrent(CurrentOffer)
        /\ accepted[CurrentOffer] = offer[CurrentOffer].text /\ link.active
    BY <1>1, <2>1, CurrentDocument, CurrentVersion DEF SameAsIssued, Ready, Accepted, Pages
  <2>4. code'.snapshot.doc = CurrentDoc /\ code'.snapshot.offer = CurrentOffer
        /\ code'.snapshot.identity = identity
    BY <2>2 DEF Snapshot
  <2> QED
    BY <1>3, <2>2, <2>3, <2>4 DEF ActiveAsConfirmed, papers, offers, IsCurrent
<1> QED
  BY <1>4, <1>5

\* Inv is inductive.
LEMMA InvKept == Inv /\ [Next]_vars => Inv'
BY FilesKept, TypesKept, AttachedKept, FrozenKept, ConfirmedKept DEF Inv

-----------------------------------------------------------------------------
(* What holds of every behaviour.                                          *)

\* The rows of files, documents, offers, links and codes hold what their columns may.
THEOREM TypeCorrect == Spec => []TypeOK
<1>1. Inv => TypeOK
  BY DEF Inv
<1> QED
  BY InitInv, InvKept, <1>1, PTL DEF Spec

\* A row of object_files that says available, failed or deleted tells the truth
\* about the object, whatever requests and runs of reconcile interleave.
THEOREM AlwaysTruthful == Spec => []RowsTruthful
<1>1. Inv => RowsTruthful
  BY DEF Inv, FileInv, Sound, RowsTruthful
<1> QED
  BY InitInv, InvKept, <1>1, PTL DEF Spec

\* The documents of a customer are in storage, one is current, and a form sent
\* twice leaves one.
THEOREM AlwaysStored == Spec => []DocumentsStored
<1>1. Inv => DocumentsStored
  <2> SUFFICES ASSUME Inv, NEW f \in Files, doc[f] # "none"
               PROVE  /\ file[f].status = "available"
                      /\ \A g \in Files \ {f} :
                           doc[g] # "none" => /\ doc[f] = "current" => doc[g] = "superseded"
                                             /\ request[f].submission # request[g].submission
    BY DEF DocumentsStored
  <2>1. Attached /\ doc \in [Files -> {"none", "current", "superseded"}]
    BY DEF Inv, TypeOK
  <2> QED
    BY <2>1 DEF Attached
<1> QED
  BY InitInv, InvKept, <1>1, PTL DEF Spec

\* An active customer stays what his code was issued for.
THEOREM AlwaysAsConfirmed == Spec => []ActiveAsConfirmed
<1>1. Inv => ActiveAsConfirmed
  BY DEF Inv, Confirmed, ActiveAsConfirmed
<1> QED
  BY InitInv, InvKept, <1>1, PTL DEF Spec

\* A document is replaced only by one that was sent from a page that showed it.
THEOREM AlwaysReplacesSeen == Spec => ReplacesWhatWasSeen
<1>1. Inv /\ [Next]_vars =>
        [\A g \in Files :
           doc'[g] = "current" /\ doc[g] # "current"
             => \A f \in Files :
                  doc[f] = "current" => doc'[f] = "superseded" /\ request[g].expected = f]_vars
  <2> SUFFICES ASSUME Inv, [Next]_vars, NEW g \in Files, doc'[g] = "current", doc[g] # "current",
                      NEW f \in Files, doc[f] = "current"
               PROVE  doc'[f] = "superseded" /\ request[g].expected = f
    OBVIOUS
  <2>1. PICK h \in Files : Attach(h) /\ MayAttach(h) /\
               doc' = [i \in Files |->
                  IF i = h THEN "current" ELSE IF doc[i] = "current" THEN "superseded" ELSE doc[i]]
    BY DEF Next, vars, papers, Attach, Compensate, Upload, Reconcile, EditText, Approve,
           Publish, AcceptOffer, SaveIdentity, ChangeLink, IssueCode, DeliverCode, LoseCode, Verify
  <2>2. h = g
    BY <2>1
  <2>3. CurrentDoc = f
    <3>1. TypeOK /\ Attached
      BY DEF Inv
    <3>2. CurrentDoc \in Files /\ doc[CurrentDoc] = "current"
      BY <3>1, CurrentDocument DEF Pages
    <3> QED
      BY <3>1, <3>2 DEF Attached
  <2> QED
    BY <2>1, <2>2, <2>3 DEF MayAttach, Expected
<1> QED
  BY InitInv, InvKept, <1>1, PTL DEF Spec, ReplacesWhatWasSeen

\* A customer is activated on the offer that is current, by a code sent to the
\* account he is linked to.
THEOREM AlwaysOnCurrentOffer == Spec => ActivatesOnCurrentOffer
<1>1. Inv /\ [Next]_vars =>
        [customer = "draft" /\ customer' = "active"
           => /\ IsCurrent(code.snapshot.offer)
              /\ code.snapshot.linkedAt = link.linkedAt]_vars
  <2> SUFFICES ASSUME Inv, [Next]_vars, customer = "draft", customer' = "active"
               PROVE  /\ IsCurrent(code.snapshot.offer)
                      /\ code.snapshot.linkedAt = link.linkedAt
    OBVIOUS
  <2>1. SameAsIssued
    BY DEF Next, vars, Attach, Compensate, Upload, Reconcile, EditText, Approve,
           Publish, AcceptOffer, SaveIdentity, ChangeLink, IssueCode, DeliverCode, LoseCode, Verify
  <2>2. CurrentOffer \in Versions /\ IsCurrent(CurrentOffer)
    BY <2>1, CurrentVersion DEF SameAsIssued, Ready, Accepted
  <2>3. code.snapshot.offer = CurrentOffer /\ code.snapshot.linkedAt = link.linkedAt
    BY <2>1 DEF SameAsIssued, Snapshot
  <2> QED
    BY <2>2, <2>3
<1> QED
  BY InitInv, InvKept, <1>1, PTL DEF Spec, ActivatesOnCurrentOffer

-----------------------------------------------------------------------------
(* The pages.                                                              *)

\* There is an offer to accept, and only one.
OneCurrent == \E v \in Versions : \A w \in Versions : IsCurrent(w) <=> w = v

\* The one that is published takes the place of the one there was.
LEMMA OneCurrentKept == TypeOK /\ OneCurrent /\ [Next]_vars => OneCurrent'
<1> SUFFICES ASSUME TypeOK, OneCurrent, [Next]_vars PROVE OneCurrent'
  OBVIOUS
<1>1. ASSUME NEW v \in Versions, EditText(v) \/ Approve(v) PROVE OneCurrent'
  <2>1. \A w \in Versions : offer'[w].status = "current" <=> offer[w].status = "current"
    BY <1>1 DEF EditText, Approve, TypeOK
  <2> QED
    BY <2>1 DEF OneCurrent, IsCurrent
<1>2. ASSUME NEW v \in Versions, Publish(v) PROVE OneCurrent'
  <2>1. \A w \in Versions : offer'[w].status = "current" <=> w = v
    BY <1>2 DEF Publish, TypeOK, IsCurrent
  <2> QED
    BY <2>1 DEF OneCurrent, IsCurrent
<1>3. CASE UNCHANGED offer
  BY <1>3 DEF OneCurrent, IsCurrent
<1> QED
  BY <1>1, <1>2, <1>3
  DEF Next, vars, offers, Attach, Compensate, Upload, Reconcile, AcceptOffer, SaveIdentity,
      ChangeLink, IssueCode, DeliverCode, LoseCode, Verify

\* What the page of a version's acceptance and the one of activation look for is
\* the same.
LEMMA AcceptanceAgrees ==
    ASSUME Inv, OneCurrent
    PROVE  /\ CurrentOffer \in Versions /\ CurrentOffer # None
           /\ \A w \in Versions : IsCurrent(w) <=> w = CurrentOffer
           /\ HasAcceptedCurrent <=> Accepted
           /\ HasAcceptedCurrent <=> accepted[CurrentOffer] # 0
<1>1. TypeOK /\ Frozen
  BY DEF Inv
<1>2. PICK v \in Versions : \A w \in Versions : IsCurrent(w) <=> w = v
  BY DEF OneCurrent
<1>3. CurrentOffer = v
  BY <1>2 DEF CurrentOffer
<1>4. v # None
  BY OnboardingAssumption
<1>5. accepted[v] \in 0..MaxEdits /\ offer[v].text \in 1..MaxEdits
  BY <1>1 DEF TypeOK
<1>6. HasAcceptedCurrent <=> accepted[v] = offer[v].text
  BY <1>2 DEF HasAcceptedCurrent
<1>7. accepted[v] = offer[v].text <=> accepted[v] # 0
  BY <1>1, <1>5 DEF Frozen
<1> QED
  BY <1>2, <1>3, <1>4, <1>6, <1>7 DEF Accepted

\* So is what they look for of a document.
LEMMA DocumentAgrees ==
    ASSUME Inv
    PROVE  /\ HasCurrentDocument <=> CurrentDoc # NoFile
           /\ CurrentDoc # NoFile =>
                /\ CurrentDoc \in Files /\ file[CurrentDoc].status = "available"
                /\ object[CurrentDoc] = "stored" /\ CurrentParent = {CurrentDoc}
           /\ CurrentDoc = NoFile => CurrentParent = {}
<1>1. TypeOK /\ Attached /\ \A f \in Files : Sound(f)
  BY DEF Inv, FileInv
<1>2. /\ CurrentDoc \in Pages
      /\ CurrentDoc \in Files => doc[CurrentDoc] = "current"
      /\ CurrentDoc = NoFile => \A f \in Files : doc[f] # "current"
  BY <1>1, CurrentDocument
<1>3. PICK S : S = {f \in Files : doc[f] = "current" /\ file[f].status = "available"}
  OBVIOUS
<1>4. HasCurrentDocument <=> Cardinality(S) = 1
  BY <1>3 DEF HasCurrentDocument
<1>5. CASE CurrentDoc = NoFile
  <2>1. S = {} /\ CurrentParent = {}
    BY <1>2, <1>3, <1>5 DEF CurrentParent
  <2>2. Cardinality(S) = 0
    BY <2>1, FS_EmptySet
  <2> QED
    BY <1>4, <1>5, <2>1, <2>2
<1>6. CASE CurrentDoc # NoFile
  <2>1. PICK f \in Files : f = CurrentDoc
    BY <1>2, <1>6 DEF Pages
  <2>2. doc[f] = "current" /\ file[f].status = "available" /\ object[f] = "stored"
    BY <1>1, <1>2, <2>1 DEF Attached, Sound
  <2>3. S = {f} /\ CurrentParent = {f}
    BY <1>1, <1>3, <2>2 DEF Attached, CurrentParent
  <2>4. Cardinality(S) = 1
    BY <2>3, FS_Singleton
  <2> QED
    BY <1>4, <1>6, <2>1, <2>2, <2>3, <2>4
<1> QED
  BY <1>5, <1>6

\* A form for a code is on the page that would be given one.
LEMMA ActivationPageFollows == Inv /\ OneCurrent => ActivationPageTrue
<1> SUFFICES ASSUME Inv, OneCurrent PROVE ActivationPageTrue
  OBVIOUS
<1>1. PICK page : page = ActivationPage
  OBVIOUS
<1>2. PICK answer : answer = IssueAnswer
  OBVIOUS
<1>3. /\ identity \in Nat /\ customer \in {"draft", "active"} /\ link.active \in BOOLEAN
  BY DEF Inv, TypeOK
<1>4. Complete(Components) <=>
        link.active /\ HasAcceptedCurrent /\ HasIdentity /\ HasCurrentDocument
  BY DEF Complete, Components
<1>5. /\ page.completed <=> customer = "active"
      /\ page.forms <=> customer = "draft" /\ Complete(Components)
  BY <1>1 DEF ActivationPage
<1>6. page.missing = {c \in {"telegram", "offer", "identity", "document"} :
        \/ c = "telegram" /\ ~link.active
        \/ c = "offer" /\ ~HasAcceptedCurrent
        \/ c = "identity" /\ ~HasIdentity
        \/ c = "document" /\ ~HasCurrentDocument}
  BY <1>1 DEF ActivationPage, Components
<1>7. /\ HasAcceptedCurrent <=> Accepted
      /\ HasCurrentDocument <=> CurrentDoc # NoFile
      /\ CurrentDoc # NoFile => file[CurrentDoc].status = "available"
  BY AcceptanceAgrees, DocumentAgrees
<1>8. answer = IF ~link.active THEN "telegram"
               ELSE IF customer = "active" THEN "already_active"
               ELSE IF ~HasAcceptedCurrent THEN "offer"
               ELSE IF ~HasIdentity THEN "identity"
               ELSE IF ~HasCurrentDocument THEN "document"
               ELSE "pending"
  BY <1>2, <1>7 DEF IssueAnswer, HasIdentity
<1>9. RequestCode = {answer} /\ (RequestCode = {"pending"} <=> answer = "pending")
  BY <1>2 DEF RequestCode
<1>10. answer = "pending" <=> page.forms
  BY <1>3, <1>4, <1>5, <1>8
<1>11. answer \in page.missing \cup {"pending", "already_active"}
  BY <1>6, <1>8
<1>12. page.forms /\ ~Outstanding => RequestNewCode = {"pending"}
  BY <1>2, <1>10 DEF RequestNewCode
<1>13. VerifyCode = "activated" => page.forms
  BY <1>3, <1>4, <1>5, <1>7 DEF VerifyCode, SameAsIssued, Ready, HasIdentity
<1>14. VerifyCode = "already_active" => page.completed
  BY <1>5 DEF VerifyCode
<1>15. answer = "already_active" => page.completed
  BY <1>5, <1>8
<1> QED
  BY <1>1, <1>9, <1>10, <1>11, <1>12, <1>13, <1>14, <1>15 DEF ActivationPageTrue

\* Every form of an offer is accepted.
LEMMA OfferPagesFollow == Inv /\ OneCurrent => OfferPagesTrue
<1> SUFFICES ASSUME Inv, OneCurrent PROVE OfferPagesTrue
  OBVIOUS
<1>1. /\ CurrentOffer \in Versions /\ CurrentOffer # None
      /\ \A w \in Versions : IsCurrent(w) <=> w = CurrentOffer
      /\ HasAcceptedCurrent <=> accepted[CurrentOffer] # 0
  BY AcceptanceAgrees
<1>2. /\ OfferPage \in Versions
      /\ AcceptAnswer(OfferPage) = IF HasAcceptedCurrent THEN "replayed" ELSE "recorded"
  BY <1>1 DEF OfferPage, AcceptAnswer
<1>3. ASSUME NEW v \in Versions
      PROVE  LET page == AdminPage(v)
             IN  /\ page.edit => EditAnswer(v) = "updated"
                 /\ page.edit => ApproveAnswer(v) = IF page.incomplete THEN "incomplete" ELSE "approved"
                 /\ page.makeCurrent
                      => MakeCurrentAnswer(v, page.current) \in {"switched", "already_current"}
  <2>1. offer[v].text \in 1..MaxEdits
    BY DEF Inv, TypeOK
  <2>2. HasText(v)
    BY <2>1 DEF HasText
  <2>3. PICK page : page = AdminPage(v)
    OBVIOUS
  <2>4. /\ page.edit <=> offer[v].status = "draft"
        /\ page.incomplete <=> ~HasText(v)
        /\ page.makeCurrent <=> offer[v].status \in {"approved", "current"}
        /\ page.current = CurrentOffer
    BY <2>3 DEF AdminPage, Detail
  <2>5. page.makeCurrent => MakeCurrentAnswer(v, page.current) \in {"switched", "already_current"}
    BY <2>2, <2>4 DEF MakeCurrentAnswer, IsCurrent
  <2> QED
    BY <2>2, <2>3, <2>4, <2>5 DEF EditAnswer, ApproveAnswer
<1> QED
  BY <1>2, <1>3 DEF OfferPagesTrue

\* Every form of the identity page is accepted, and its link leads to the image.
LEMMA IdentityPageFollows == Inv => IdentityPageTrue
<1> SUFFICES ASSUME Inv, NEW page \in IdentityPage
             PROVE  LET forms == Forms(page)
                    IN  /\ SaveAnswer(forms.expected_revision) = "saved"
                        /\ UploadAnswer(forms.expected_current_document_id) = "uploaded"
                        /\ IF forms.link
                           THEN FollowLink = {page.document} /\ object[page.document] = "stored"
                           ELSE FollowLink = {"access_denied"}
  BY DEF IdentityPageTrue
<1>1. customer = "draft" /\ page = PageState
  BY DEF IdentityPage
<1>2. PICK forms : forms = Forms(page)
  OBVIOUS
<1>3. /\ page.document = CurrentDoc /\ forms.expected_revision = identity
      /\ forms.expected_current_document_id = CurrentDoc
      /\ forms.link <=> HasCurrentDocument
  BY <1>1, <1>2 DEF Forms, PageState
<1>4. /\ HasCurrentDocument <=> CurrentDoc # NoFile
      /\ CurrentDoc # NoFile =>
           /\ CurrentDoc \in Files /\ file[CurrentDoc].status = "available"
           /\ object[CurrentDoc] = "stored" /\ CurrentParent = {CurrentDoc}
      /\ CurrentDoc = NoFile => CurrentParent = {}
  BY DocumentAgrees
<1>5. AccessParent = CurrentParent
  BY <1>1 DEF AccessParent
<1>6. CASE CurrentDoc = NoFile
  <2>1. DocumentUrl = {}
    BY <1>4, <1>5, <1>6 DEF DocumentUrl
  <2>2. FollowLink = {"access_denied"}
    BY <2>1 DEF FollowLink
  <2> QED
    BY <1>1, <1>2, <1>3, <1>4, <1>6, <2>2 DEF SaveAnswer, MaySave, UploadAnswer
<1>7. CASE CurrentDoc # NoFile
  <2>1. DocumentUrl = {CurrentDoc}
    BY <1>4, <1>5, <1>7 DEF DocumentUrl, Presigned, Authorized
  <2>2. FollowLink = {CurrentDoc}
    BY <2>1 DEF FollowLink
  <2> QED
    BY <1>1, <1>2, <1>3, <1>4, <1>7, <2>2 DEF SaveAnswer, MaySave, UploadAnswer
<1> QED
  BY <1>6, <1>7

\* A page of onboarding promises what its forms and links keep: queries that lock
\* nothing find what those made under the locks find.
THEOREM PagesKeepTheirPromise == Spec => []PagesGuideOnboarding
<1>1. Init => Inv /\ OneCurrent
  <2>1. Init => OneCurrent
    BY OnboardingAssumption DEF Init, OneCurrent, IsCurrent
  <2> QED
    BY <2>1, InitInv
<1>2. Inv /\ OneCurrent /\ [Next]_vars => Inv' /\ OneCurrent'
  <2>1. Inv => TypeOK
    BY DEF Inv
  <2> QED
    BY <2>1, InvKept, OneCurrentKept
<1>3. Inv /\ OneCurrent => PagesGuideOnboarding
  BY ActivationPageFollows, OfferPagesFollow, IdentityPageFollows DEF PagesGuideOnboarding
<1> QED
  BY <1>1, <1>2, <1>3, PTL DEF Spec
=============================================================================
