---------------------------- MODULE ChainSubmit -----------------------------
(***************************************************************************)
(* Submissions to the Stellar network from one signing account:            *)
(*                                                                         *)
(*   KeyedSerializer.run        one promise chain per key and process      *)
(*   submitManageData           load account, build, submit, retry         *)
(*   tokenizeShipment           load account, build, submit (no chain)     *)
(*                                                                         *)
(* Horizon accepts a transaction whose sequence number is the account's    *)
(* plus one, so two submissions that loaded the same sequence number race. *)
(* Every process has its own serializer: a key of this module stands for   *)
(* the account's queue in one process.                                     *)
(***************************************************************************)
EXTENDS Naturals, Sequences, FiniteSets

CONSTANTS
    Tasks,          \* submissions
    Keys,           \* the account's queue in each process
    KeyOf,          \* the queue a submission is made in
    Bare,           \* submissions of tokenizeShipment, outside any queue
    MaxBadSeqRetries, \* MAX_BAD_SEQ_RETRIES
    NetFaults,         \* which of "lost", "net" can happen
    NoTask            \* absent value

ASSUME KeyOfAssumption == KeyOf \in [Tasks -> Keys]
ASSUME BareAssumption == Bare \subseteq Tasks
ASSUME RetriesAssumption == MaxBadSeqRetries \in Nat
ASSUME NoTaskAssumption == NoTask \notin Tasks

VARIABLES
    sequence,   \* the account's sequence number on the network
    accepted,   \* the submissions the network accepted, in order
    tails,      \* KeyedSerializer.tails
    after,      \* the submission whose tail promise this one waits for
    ticket,     \* order of the call to run (0: not called)
    calls,      \* calls so far
    st,         \* where a submission is
    seq,        \* the sequence number it loaded
    attempt     \* bad-sequence retries so far

submitVars == <<sequence, accepted, tails, after, ticket, calls, st, seq, attempt>>

Settled == {"ok", "failed"}
InFlight == {"load", "submit"}
State == {"new", "waiting"} \cup InFlight \cup Settled

Queued == Tasks \ Bare

SubmitInit ==
    /\ sequence = 0
    /\ accepted = <<>>
    /\ tails = [k \in Keys |-> NoTask]
    /\ after = [t \in Tasks |-> NoTask]
    /\ ticket = [t \in Tasks |-> 0]
    /\ calls = 0
    /\ st = [t \in Tasks |-> "new"]
    /\ seq = [t \in Tasks |-> 0]
    /\ attempt = [t \in Tasks |-> 0]

Becomes(t, l) == st' = [st EXCEPT ![t] = l]

-----------------------------------------------------------------------------

(***************************************************************************)
(* run(key, task): the task is chained after the key's tail and becomes    *)
(* the tail, in one synchronous step.                                      *)
(***************************************************************************)
Run(t) ==
    /\ st[t] = "new"
    /\ t \in Queued
    /\ after' = [after EXCEPT ![t] = tails[KeyOf[t]]]
    /\ tails' = [tails EXCEPT ![KeyOf[t]] = t]
    /\ calls' = calls + 1
    /\ ticket' = [ticket EXCEPT ![t] = calls + 1]
    /\ Becomes(t, "waiting")
    /\ UNCHANGED <<sequence, accepted, seq, attempt>>

\* Mutant: a task queued behind a failed one is never started.
StartAfterSuccess(t) ==
    /\ st[t] = "waiting"
    /\ after[t] # NoTask => st[after[t]] = "ok"
    /\ Becomes(t, "load")
    /\ UNCHANGED <<sequence, accepted, tails, after, ticket, calls, seq, attempt>>

\* Mutant: a task does not wait for its predecessor.
StartAtOnce(t) ==
    /\ st[t] = "waiting"
    /\ Becomes(t, "load")
    /\ UNCHANGED <<sequence, accepted, tails, after, ticket, calls, seq, attempt>>

(***************************************************************************)
(* previous.then(task): the previous tail resolves on success and failure. *)
(***************************************************************************)
Start(t) ==
    /\ st[t] = "waiting"
    /\ after[t] # NoTask => st[after[t]] \in Settled
    /\ Becomes(t, "load")
    /\ UNCHANGED <<sequence, accepted, tails, after, ticket, calls, seq, attempt>>

\* Mutant: the entry is deleted whoever holds it.
ForgetAny(t) ==
    /\ t \in Queued /\ st[t] \in Settled
    /\ tails[KeyOf[t]] # NoTask
    /\ tails' = [tails EXCEPT ![KeyOf[t]] = NoTask]
    /\ UNCHANGED <<sequence, accepted, after, ticket, calls, st, seq, attempt>>

(***************************************************************************)
(* tail.then: the entry is deleted if the settled task is still the tail.  *)
(***************************************************************************)
Forget(t) ==
    /\ t \in Queued /\ st[t] \in Settled
    /\ tails[KeyOf[t]] = t
    /\ tails' = [tails EXCEPT ![KeyOf[t]] = NoTask]
    /\ UNCHANGED <<sequence, accepted, after, ticket, calls, st, seq, attempt>>

(***************************************************************************)
(* tokenizeShipment starts to load the account without taking the queue.   *)
(***************************************************************************)
Tokenize(t) ==
    /\ st[t] = "new"
    /\ t \in Bare
    /\ Becomes(t, "load")
    /\ UNCHANGED <<sequence, accepted, tails, after, ticket, calls, seq, attempt>>

(***************************************************************************)
(* loadAccount answers with the current sequence number, or fails.         *)
(***************************************************************************)
Load(t) ==
    /\ st[t] = "load"
    /\ \/ /\ seq' = [seq EXCEPT ![t] = sequence]
          /\ Becomes(t, "submit")
       \/ /\ "net" \in NetFaults
          /\ Becomes(t, "failed")
          /\ UNCHANGED seq
    /\ UNCHANGED <<sequence, accepted, tails, after, ticket, calls, attempt>>

\* Mutant: any failed submission is retried.
RetriesAfterAny(t, badSeq) == attempt[t] < MaxBadSeqRetries /\ t \in Queued

\* isBadSequence(err) && attempt < MAX_BAD_SEQ_RETRIES; tokenizeShipment never retries.
Retries(t, badSeq) == badSeq /\ attempt[t] < MaxBadSeqRetries /\ t \in Queued

OnError(t, badSeq) ==
    \/ /\ Retries(t, badSeq)
       /\ attempt' = [attempt EXCEPT ![t] = @ + 1]
       /\ Becomes(t, "load")
    \/ /\ ~Retries(t, badSeq)
       /\ Becomes(t, "failed")
       /\ UNCHANGED attempt

\* External: Horizon's sequence rule.
GoodSequence(t) == seq[t] + 1 = sequence + 1

(***************************************************************************)
(* submitTransaction: accepted, with the answer delivered or lost; refused *)
(* with tx_bad_seq; or not delivered at all.                               *)
(***************************************************************************)
Submit(t) ==
    /\ st[t] = "submit"
    /\ \/ /\ GoodSequence(t)
          /\ sequence' = sequence + 1
          /\ accepted' = Append(accepted, t)
          /\ \/ Becomes(t, "ok") /\ UNCHANGED attempt
             \/ "lost" \in NetFaults /\ OnError(t, FALSE)
       \/ /\ ~GoodSequence(t)
          /\ OnError(t, TRUE)
          /\ UNCHANGED <<sequence, accepted>>
       \/ /\ "net" \in NetFaults
          /\ OnError(t, FALSE)
          /\ UNCHANGED <<sequence, accepted>>
    /\ UNCHANGED <<tails, after, ticket, calls, seq>>

Progress(t) == Start(t) \/ Load(t) \/ Submit(t) \/ Forget(t)

SubmitNext == \E t \in Tasks : Run(t) \/ Tokenize(t) \/ Progress(t)

SubmitSpec == SubmitInit /\ [][SubmitNext]_submitVars

(***************************************************************************)
(* Promises that are settled run their continuations, and Horizon requests *)
(* end with an answer or an error.                                         *)
(***************************************************************************)
FairSubmitSpec == SubmitSpec /\ \A t \in Tasks : WF_submitVars(Progress(t))

-----------------------------------------------------------------------------
(***************************************************************************)
(* Properties.                                                             *)
(***************************************************************************)

SubmitTypeOK ==
    /\ sequence \in Nat
    /\ accepted \in Seq(Tasks)
    /\ tails \in [Keys -> Tasks \cup {NoTask}]
    /\ after \in [Tasks -> Tasks \cup {NoTask}]
    /\ ticket \in [Tasks -> Nat]
    /\ calls \in Nat
    /\ st \in [Tasks -> State]
    /\ seq \in [Tasks -> Nat]
    /\ attempt \in [Tasks -> 0..MaxBadSeqRetries]

\* Two submissions of the same queue.
SameQueue(t, u) == t \in Queued /\ u \in Queued /\ KeyOf[t] = KeyOf[u]

(***************************************************************************)
(* One load-build-sign-submit at a time per queue, in call order: what is  *)
(* in flight was called after everything of its queue that is settled and  *)
(* before everything that is not.                                          *)
(***************************************************************************)
OneInFlight ==
    \A t, u \in Tasks :
        SameQueue(t, u) /\ st[t] \in InFlight /\ u # t =>
            IF ticket[u] # 0 /\ ticket[u] < ticket[t]
            THEN st[u] \in Settled
            ELSE st[u] \in {"new", "waiting"}

(***************************************************************************)
(* The map forgets a key only when nothing of it is pending: otherwise the *)
(* next call would not wait for it.                                        *)
(***************************************************************************)
ForgottenIsIdle ==
    \A t \in Queued : tails[KeyOf[t]] = NoTask => st[t] \in Settled \cup {"new"}

(***************************************************************************)
(* No submission reaches the network twice, however its answer is lost and *)
(* however often it is retried; one that returned a hash reached it.       *)
(***************************************************************************)
AcceptedOnce ==
    /\ \A i, j \in DOMAIN accepted : accepted[i] = accepted[j] => i = j
    /\ \A t \in Tasks : st[t] = "ok" => \E i \in DOMAIN accepted : accepted[i] = t

(***************************************************************************)
(* A submission that gave up on tx_bad_seq lost to MaxBadSeqRetries + 1    *)
(* submissions from outside its queue: its own queue never costs it a      *)
(* retry.                                                                  *)
(***************************************************************************)
RetriesPaidByOthers ==
    \A t \in Queued :
        attempt[t] <= Cardinality({i \in DOMAIN accepted : ~SameQueue(t, accepted[i])})

(***************************************************************************)
(* Every submission settles; a failed one does not block those behind it.  *)
(***************************************************************************)
AllSettle == \A t \in Tasks : (st[t] # "new") ~> (st[t] \in Settled)

-----------------------------------------------------------------------------
(***************************************************************************)
(* The line of a key in SigningQueue: its unsettled calls in call order.   *)
(***************************************************************************)
Waiting(k) == {t \in Queued : KeyOf[t] = k /\ ticket[t] # 0 /\ st[t] \notin Settled}

\* q lists the members of S, the ones with the smaller numbers first.
InOrder(q, S, number) ==
    /\ q \in Seq(S)
    /\ \A t \in S : \E i \in 1..Len(q) : q[i] = t
    /\ \A i, j \in 1..Len(q) : i < j => number[q[i]] < number[q[j]]

Ordered(S, number) == CHOOSE q \in [1..Cardinality(S) -> S] : InOrder(q, S, number)

Lines == [k \in Keys |-> Ordered(Waiting(k), ticket)]

Queue == INSTANCE SigningQueue WITH line <- Lines, log <- accepted

(***************************************************************************)
(* The promise chain implements the line: calls join at the end, only the  *)
(* first submission reaches the network and leaves.                        *)
(***************************************************************************)
ImplementsSigningQueue == Queue!QueueSpec

-----------------------------------------------------------------------------
(***************************************************************************)
(* The inductive invariant behind the safety properties: what the promise  *)
(* chain knows about the order of the calls.                               *)
(***************************************************************************)

\* Tickets are given once, in call order.
TicketsOK ==
    /\ \A t \in Queued : ticket[t] <= calls /\ (ticket[t] = 0 <=> st[t] = "new")
    /\ \A t, u \in Queued : ticket[t] = ticket[u] /\ ticket[t] # 0 => t = u

\* The tail of a key is its last call.
TailsOK ==
    \A k \in Keys : tails[k] # NoTask =>
        /\ tails[k] \in Queued
        /\ KeyOf[tails[k]] = k
        /\ ticket[tails[k]] # 0
        /\ \A t \in Queued : KeyOf[t] = k => ticket[t] <= ticket[tails[k]]

\* Everything called before t in its queue has settled.
Clear(t) ==
    \A v \in Queued : KeyOf[v] = KeyOf[t] /\ ticket[v] # 0 /\ ticket[v] < ticket[t] =>
        st[v] \in Settled

\* A waiting task waits for the call just before it, if that may be pending.
WaitsOK ==
    \A t \in Queued : st[t] = "waiting" =>
        IF after[t] = NoTask
        THEN Clear(t)
        ELSE /\ after[t] \in Queued
             /\ KeyOf[after[t]] = KeyOf[t]
             /\ ticket[after[t]] # 0
             /\ ticket[after[t]] < ticket[t]
             /\ \A v \in Queued : KeyOf[v] = KeyOf[t] /\ ticket[v] < ticket[t] =>
                    ticket[v] <= ticket[after[t]]

\* A task starts when it is its turn.
StartedOK == \A t \in Queued : st[t] \in InFlight \cup Settled => Clear(t)

\* What the network accepted is settled, and what succeeded was accepted.
AcceptedSettled ==
    \A i \in DOMAIN accepted : st[accepted[i]] \in Settled

QueueInv ==
    /\ SubmitTypeOK
    /\ TicketsOK
    /\ TailsOK
    /\ WaitsOK
    /\ StartedOK
    /\ ForgottenIsIdle

SubmitInv == SubmitTypeOK /\ AcceptedSettled /\ AcceptedOnce
=============================================================================
