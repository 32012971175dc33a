------------------------------ MODULE FileStore ------------------------------
(***************************************************************************)
(* What an upload promises its caller (docs/architecture/import-           *)
(* pipeline.md), without the bucket, the duplicate check and the order of  *)
(* the calls: each content is stored once, with one job, for ever; each    *)
(* upload is answered once, in one step with what its answer says, and     *)
(* changes nothing afterwards.  SourceIntake implements it.                *)
(***************************************************************************)

CONSTANTS Uploads,
          Content    \* what each upload uploads

VARIABLES sourceFiles,  \* the uploads whose file was stored
          jobStatus,    \* the status of each upload's job, "none" without one
          sent,         \* the uploads whose job was handed over for processing
          answer        \* what each caller was told

storeVars == <<sourceFiles, jobStatus, sent, answer>>

StoreInit ==
  /\ sourceFiles = {} /\ sent = {}
  /\ jobStatus = [u \in Uploads |-> "none"]
  /\ answer = [u \in Uploads |-> "none"]

StoredWith(content) == {v \in sourceFiles : Content[v] = content}

Tell(u, result) ==
  /\ answer[u] = "none"
  /\ answer' = [answer EXCEPT ![u] = result]

Keep(u) ==
  /\ answer[u] = "none" /\ jobStatus[u] = "none"
  /\ StoredWith(Content[u]) = {}
  /\ sourceFiles' = sourceFiles \cup {u}
  /\ jobStatus' = [jobStatus EXCEPT ![u] = "queued"]
  /\ UNCHANGED <<sent, answer>>

HandOver(u) ==
  /\ jobStatus[u] = "queued" /\ u \notin sent
  /\ sent' = sent \cup {u}
  /\ UNCHANGED <<sourceFiles, jobStatus>>

Queue(u) == HandOver(u) /\ Tell(u, "queued")

\* The queue took the job and reported a failure: "queued" is not said any more.
HandOverUnnoticed(u) == HandOver(u) /\ answer[u] = "none" /\ UNCHANGED answer

\* A job that was handed over unnoticed may be marked failed all the same.
FailDispatch(u) ==
  /\ jobStatus[u] = "queued"
  /\ jobStatus' = [jobStatus EXCEPT ![u] = "failed"]
  /\ Tell(u, "dispatch_failed") \/ Tell(u, "error")
  /\ UNCHANGED <<sourceFiles, sent>>

Decline(u) ==
  /\ jobStatus[u] = "none"
  /\ \/ Tell(u, "unsupported")
     \/ StoredWith(Content[u]) # {} /\ Tell(u, "duplicate")
  /\ UNCHANGED <<sourceFiles, jobStatus, sent>>

\* The caller gets no answer or an error and has to look.
GiveUp(u) ==
  /\ Tell(u, "error") \/ Tell(u, "lost")
  /\ UNCHANGED <<sourceFiles, jobStatus, sent>>

StoreNext ==
  \E u \in Uploads :
    \/ Keep(u) \/ Queue(u) \/ HandOverUnnoticed(u) \/ FailDispatch(u)
    \/ Decline(u) \/ GiveUp(u)

StoreSpec == StoreInit /\ [][StoreNext]_storeVars

=============================================================================
