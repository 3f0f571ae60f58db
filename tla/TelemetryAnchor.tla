-------------------------- MODULE TelemetryAnchor ---------------------------
(***************************************************************************)
(* From an accepted reading to an anchored one:                            *)
(*                                                                         *)
(*   processIotWebhook, bulkIngestTelemetry   store the reading, then add  *)
(*                                            a job to transaction_queue   *)
(*   transaction_queue (BullMQ, external)     attempts, leases, stalls     *)
(*   processStellarAnchor                     anchor on chain, then record *)
(*   deleteShipmentService                    soft-deletes the readings    *)
(*                                                                         *)
(* A worker handler is one action per await.  A job whose lease expires is *)
(* given to another handler although the first may still be running.       *)
(***************************************************************************)
EXTENDS Naturals, Sequences, FiniteSets

CONSTANTS
    Readings,       \* telemetry documents; one job each
    Handlers,       \* job handlers of the stellar worker (concurrency)
    Attempts,       \* attempts of an anchor_telemetry job
    MaxStalls,      \* times BullMQ gives a stalled job back to the queue
    Faults,         \* which of "api", "chain", "mongo", "crash", "stall" can happen
    None            \* absent value

ASSUME AttemptsAssumption == Attempts \in Nat \ {0}
ASSUME MaxStallsAssumption == MaxStalls \in Nat
ASSUME NoReadingAssumption == None \notin Readings \cup Handlers

VARIABLES
    anchor,     \* Telemetry.anchorStatus ("absent": no document yet)
    tx,         \* Telemetry.stellarTxHash: a transaction, 0 for none
    deleted,    \* Telemetry.deletedAt is set
    ingest,     \* where the request that stores the reading is
    job,        \* state of the reading's job in transaction_queue
    owner,      \* the handler that holds the job's lease
    tries,      \* failed attempts of the job
    stalls,     \* times the job's lease expired
    chain,      \* confirmed anchor transactions; a hash is an index
    pc,         \* where a handler is
    work,       \* the reading it anchors
    mine        \* the transaction hash it got

docVars  == <<anchor, tx, deleted>>
jobVars  == <<job, owner, tries, stalls>>
slotVars == <<pc, work, mine>>
vars == <<anchor, tx, deleted, ingest, job, owner, tries, stalls, chain, pc, work, mine>>

AnchorStatus == {"PENDING_ANCHOR", "ANCHORED", "ANCHOR_FAILED"}
JobState == {"none", "waiting", "active", "completed", "failed"}
PC == {"idle", "anchor", "persist", "mark", "succeed", "fail"}

Init ==
    /\ anchor = [r \in Readings |-> "absent"]
    /\ tx = [r \in Readings |-> 0]
    /\ deleted = [r \in Readings |-> FALSE]
    /\ ingest = [r \in Readings |-> "new"]
    /\ job = [r \in Readings |-> "none"]
    /\ owner = [r \in Readings |-> None]
    /\ tries = [r \in Readings |-> 0]
    /\ stalls = [r \in Readings |-> 0]
    /\ chain = <<>>
    /\ pc = [h \in Handlers |-> "idle"]
    /\ work = [h \in Handlers |-> None]
    /\ mine = [h \in Handlers |-> 0]

Goto(h, l) == pc' = [pc EXCEPT ![h] = l]

-----------------------------------------------------------------------------
(***************************************************************************)
(* The API process.                                                        *)
(***************************************************************************)

(***************************************************************************)
(* createTelemetryRecord: the document is stored as PENDING_ANCHOR.        *)
(***************************************************************************)
Store(r) ==
    /\ ingest[r] = "new"
    /\ anchor' = [anchor EXCEPT ![r] = "PENDING_ANCHOR"]
    /\ ingest' = [ingest EXCEPT ![r] = "push"]
    /\ UNCHANGED <<tx, deleted, jobVars, chain, slotVars>>

(***************************************************************************)
(* pushStellarAnchorJob, then the 202; or the queue refuses the job or the *)
(* process dies first, and the stored reading has no job.                  *)
(***************************************************************************)
Push(r) ==
    /\ ingest[r] = "push"
    /\ \/ /\ job' = [job EXCEPT ![r] = "waiting"]
          /\ ingest' = [ingest EXCEPT ![r] = "accepted"]
       \/ /\ "api" \in Faults
          /\ ingest' = [ingest EXCEPT ![r] = "error"]
          /\ UNCHANGED job
    /\ UNCHANGED <<docVars, owner, tries, stalls, chain, slotVars>>

(***************************************************************************)
(* deleteShipmentService marks the shipment's readings deleted.            *)
(***************************************************************************)
Delete(r) ==
    /\ anchor[r] # "absent"
    /\ ~deleted[r]
    /\ deleted' = [deleted EXCEPT ![r] = TRUE]
    /\ UNCHANGED <<anchor, tx, ingest, jobVars, chain, slotVars>>

-----------------------------------------------------------------------------
(***************************************************************************)
(* The queue.                                                              *)
(***************************************************************************)

(***************************************************************************)
(* A free handler takes a waiting job and its lease.                       *)
(***************************************************************************)
Take(h, r) ==
    /\ pc[h] = "idle"
    /\ job[r] = "waiting"
    /\ job' = [job EXCEPT ![r] = "active"]
    /\ owner' = [owner EXCEPT ![r] = h]
    /\ work' = [work EXCEPT ![h] = r]
    /\ Goto(h, "anchor")
    /\ UNCHANGED <<docVars, ingest, tries, stalls, chain, mine>>

\* External: a job that stalled more than MaxStalls times has failed.
Stalled(r) == IF stalls[r] < MaxStalls THEN "waiting" ELSE "failed"

\* The handler that held the job died.
Orphaned(r) == \A h \in Handlers : owner[r] = h => work[h] # r

(***************************************************************************)
(* The lease of an active job expires: its handler died, or is too slow.   *)
(***************************************************************************)
LeaseExpires(r) ==
    /\ job[r] = "active"
    /\ Orphaned(r) \/ "stall" \in Faults
    /\ job' = [job EXCEPT ![r] = Stalled(r)]
    /\ stalls' = [stalls EXCEPT ![r] = @ + 1]
    /\ owner' = [owner EXCEPT ![r] = None]
    /\ UNCHANGED <<docVars, ingest, tries, chain, slotVars>>

\* BullMQ ignores the report of a handler that has lost the lease.
HoldsLease(h) == job[work[h]] = "active" /\ owner[work[h]] = h

\* Mutant: the last attempt is retried.
AfterFailureRetry(r) == IF tries[r] + 1 <= Attempts THEN "waiting" ELSE "failed"

\* The job is retried until its attempts are used up.
AfterFailure(r) == IF tries[r] + 1 < Attempts THEN "waiting" ELSE "failed"

(***************************************************************************)
(* The handler returned or threw: the queue is told.                       *)
(***************************************************************************)
Report(h) ==
    LET r == work[h] IN
    /\ pc[h] \in {"succeed", "fail"}
    /\ \/ /\ HoldsLease(h)
          /\ job' = [job EXCEPT ![r] = IF pc[h] = "succeed" THEN "completed" ELSE AfterFailure(r)]
          /\ tries' = [tries EXCEPT ![r] = IF pc[h] = "succeed" THEN @ ELSE @ + 1]
          /\ owner' = [owner EXCEPT ![r] = None]
       \/ /\ ~HoldsLease(h)
          /\ UNCHANGED <<job, tries, owner>>
    /\ Goto(h, "idle")
    /\ work' = [work EXCEPT ![h] = None]
    /\ mine' = [mine EXCEPT ![h] = 0]
    /\ UNCHANGED <<docVars, ingest, stalls, chain>>

-----------------------------------------------------------------------------
(***************************************************************************)
(* processStellarAnchor.                                                   *)
(***************************************************************************)

\* Mutant: a submission that threw goes on to the record.
AnchorErrorPersist(h) == Goto(h, "persist")

AnchorError(h) == Goto(h, "mark")

(***************************************************************************)
(* anchorEvent: confirmed and its hash returned; or it throws, before the  *)
(* network accepted the transaction or although it did.                    *)
(***************************************************************************)
AnchorEvent(h) ==
    /\ pc[h] = "anchor"
    /\ \/ /\ chain' = Append(chain, work[h])
          /\ \/ /\ mine' = [mine EXCEPT ![h] = Len(chain) + 1]
                /\ Goto(h, "persist")
             \/ /\ "chain" \in Faults
                /\ AnchorError(h)
                /\ UNCHANGED mine
       \/ /\ "chain" \in Faults
          /\ AnchorError(h)
          /\ UNCHANGED <<chain, mine>>
    /\ UNCHANGED <<docVars, ingest, jobVars, work>>

\* Mutant: a failed update is swallowed and the job completed.
PersistErrorSwallowed(h) == Goto(h, "succeed")

PersistError(h) == Goto(h, "mark")

(***************************************************************************)
(* updateTelemetryAnchor: status and hash are set together; for a deleted  *)
(* reading it finds nothing and returns null, which is a success.          *)
(***************************************************************************)
Persist(h) ==
    LET r == work[h] IN
    /\ pc[h] = "persist"
    /\ \/ /\ IF deleted[r] THEN UNCHANGED <<anchor, tx>>
             ELSE /\ anchor' = [anchor EXCEPT ![r] = "ANCHORED"]
                  /\ tx' = [tx EXCEPT ![r] = mine[h]]
          /\ Goto(h, "succeed")
       \/ /\ "mongo" \in Faults
          /\ PersistError(h)
          /\ UNCHANGED <<anchor, tx>>
    /\ UNCHANGED <<deleted, ingest, jobVars, chain, work, mine>>

\* Mutant: the hash is cleared with the failure.
MarkFailedClears(h) ==
    /\ pc[h] = "mark"
    /\ anchor' = [anchor EXCEPT ![work[h]] = "ANCHOR_FAILED"]
    /\ tx' = [tx EXCEPT ![work[h]] = 0]
    /\ Goto(h, "fail")
    /\ UNCHANGED <<deleted, ingest, jobVars, chain, work, mine>>

\* Mutant: the handler repeats the update until it has matched a document.
MarkFailedWaits(h) ==
    /\ pc[h] = "mark"
    /\ ~deleted[work[h]]
    /\ anchor' = [anchor EXCEPT ![work[h]] = "ANCHOR_FAILED"]
    /\ Goto(h, "fail")
    /\ UNCHANGED <<tx, deleted, ingest, jobVars, chain, work, mine>>

(***************************************************************************)
(* markTelemetryAnchorFailed; whether it works or throws too, the job has  *)
(* failed this attempt.  stellarTxHash is left as it is.                   *)
(***************************************************************************)
MarkFailed(h) ==
    LET r == work[h] IN
    /\ pc[h] = "mark"
    /\ \/ anchor' = [anchor EXCEPT ![r] = IF deleted[r] THEN @ ELSE "ANCHOR_FAILED"]
       \/ "mongo" \in Faults /\ UNCHANGED anchor
    /\ Goto(h, "fail")
    /\ UNCHANGED <<tx, deleted, ingest, jobVars, chain, work, mine>>

(***************************************************************************)
(* The worker process dies with the handlers in it.                        *)
(***************************************************************************)
Crash ==
    /\ "crash" \in Faults
    /\ \E h \in Handlers : pc[h] # "idle"
    /\ pc' = [h \in Handlers |-> "idle"]
    /\ work' = [h \in Handlers |-> None]
    /\ mine' = [h \in Handlers |-> 0]
    /\ UNCHANGED <<docVars, ingest, jobVars, chain>>

Step(h) == AnchorEvent(h) \/ Persist(h) \/ MarkFailed(h) \/ Report(h)

Next ==
    \/ \E r \in Readings : Store(r) \/ Push(r) \/ Delete(r) \/ LeaseExpires(r)
    \/ \E h \in Handlers, r \in Readings : Take(h, r)
    \/ \E h \in Handlers : Step(h)
    \/ Crash

Spec == Init /\ [][Next]_vars

(***************************************************************************)
(* Requests and handlers are resumed, the worker is restarted by its       *)
(* supervisor and takes waiting jobs, and the lease of a dead handler      *)
(* expires.                                                                *)
(***************************************************************************)
FairSpec ==
    /\ Spec
    /\ \A r \in Readings : WF_vars(Push(r)) /\ WF_vars(Orphaned(r) /\ LeaseExpires(r))
    /\ \A r \in Readings : SF_vars(\E h \in Handlers : Take(h, r))
    /\ \A h \in Handlers : WF_vars(Step(h))

-----------------------------------------------------------------------------
(***************************************************************************)
(* Properties.                                                             *)
(***************************************************************************)

TypeOK ==
    /\ anchor \in [Readings -> AnchorStatus \cup {"absent"}]
    /\ tx \in [Readings -> Nat]
    /\ deleted \in [Readings -> BOOLEAN]
    /\ ingest \in [Readings -> {"new", "push", "accepted", "error"}]
    /\ job \in [Readings -> JobState]
    /\ owner \in [Readings -> Handlers \cup {None}]
    /\ tries \in [Readings -> 0..Attempts]
    /\ stalls \in [Readings -> 0..MaxStalls + 1]
    /\ chain \in Seq(Readings)
    /\ pc \in [Handlers -> PC]
    /\ work \in [Handlers -> Readings \cup {None}]
    /\ mine \in [Handlers -> Nat]

(***************************************************************************)
(* A stored hash is the hash of a confirmed transaction of that reading,   *)
(* and an ANCHORED reading has one: whatever is retried, redelivered or    *)
(* lost, nothing claims an anchor that is not on chain.                    *)
(***************************************************************************)
AnchoredIsOnChain ==
    \A r \in Readings :
        /\ anchor[r] = "ANCHORED" => tx[r] # 0
        /\ tx[r] # 0 => tx[r] \in 1..Len(chain) /\ chain[tx[r]] = r

(***************************************************************************)
(* A completed job has left its mark: the reading carries a hash, or was   *)
(* deleted.  The job is completed last, so a crash cannot lose the result. *)
(***************************************************************************)
CompletedIsRecorded ==
    \A r \in Readings : job[r] = "completed" => tx[r] # 0 \/ deleted[r]

(***************************************************************************)
(* A reading is anchored at most once per attempt and per expired lease:   *)
(* that is what retries cost in transactions.                              *)
(***************************************************************************)
SubmissionsBounded ==
    \A r \in Readings :
        Cardinality({k \in 1..Len(chain) : chain[k] = r}) <= Attempts + MaxStalls

(***************************************************************************)
(* The hash of an anchored reading is never lost, even when a redelivered  *)
(* job fails afterwards and turns its status to ANCHOR_FAILED.             *)
(***************************************************************************)
AnchorKept ==
    [][\A r \in Readings : tx[r] # 0 => tx'[r] # 0]_vars

(***************************************************************************)
(* Every accepted reading's job ends, in spite of failures, crashes and    *)
(* expired leases.                                                         *)
(***************************************************************************)
JobsEnd ==
    \A r \in Readings :
        (ingest[r] = "accepted") ~> (job[r] \in {"completed", "failed"})

-----------------------------------------------------------------------------
(***************************************************************************)
(* What makes AnchoredIsOnChain inductive: a handler that is about to      *)
(* record a hash holds that of a confirmed transaction of its reading.     *)
(***************************************************************************)
HandlerOK ==
    \A h \in Handlers :
        /\ pc[h] # "idle" => work[h] \in Readings
        /\ pc[h] = "persist" => mine[h] \in 1..Len(chain) /\ chain[mine[h]] = work[h]
=============================================================================
