---------------------------- MODULE ChainProofs -----------------------------
(***************************************************************************)
(* Proofs about what reaches the chain.                                    *)
(*                                                                         *)
(* ChainSubmit, for any number of processes and submissions: the promise   *)
(* chain of KeyedSerializer lets one submission of a queue run at a time,  *)
(* in call order, no submission is accepted twice, only others cost it a   *)
(* retry, and the whole implements SigningQueue.                           *)
(*                                                                         *)
(* TelemetryAnchor, for every set of readings and handlers and every       *)
(* number of attempts and stalls: an ANCHORED reading carries the hash of  *)
(* a confirmed transaction of that reading, a hash, once stored, is never  *)
(* lost, a completed job has left one, and the transactions of a reading   *)
(* stay within the attempts and stalls of its job.                         *)
(***************************************************************************)
EXTENDS ChainSubmit, TelemetryAnchor, SequenceTheorems, FiniteSetTheorems,
        WellFoundedInduction, TLAPS

-----------------------------------------------------------------------------
(* Submissions. *)


\* Every step keeps the types.
LEMMA SubmitTypeStep ==
    ASSUME SubmitTypeOK, [SubmitNext]_submitVars
    PROVE  SubmitTypeOK'
    <1> USE KeyOfAssumption, BareAssumption, RetriesAssumption
    <1>1. ASSUME NEW t \in Tasks, Run(t) PROVE SubmitTypeOK'
        BY <1>1 DEF Run, SubmitTypeOK, Becomes, State, Queued
    <1>2. ASSUME NEW t \in Tasks, Tokenize(t) \/ Start(t) \/ Load(t) \/ Forget(t) PROVE SubmitTypeOK'
        <2>1. CASE Tokenize(t)
            BY <2>1 DEF Tokenize, SubmitTypeOK, Becomes, State, InFlight, Settled
        <2>2. CASE Start(t)
            BY <2>2 DEF Start, SubmitTypeOK, Becomes, State, InFlight, Settled
        <2>3. CASE Load(t)
            BY <2>3 DEF Load, SubmitTypeOK, Becomes, State, InFlight, Settled
        <2>4. CASE Forget(t)
            BY <2>4 DEF Forget, SubmitTypeOK, Becomes, State, InFlight, Settled
        <2> QED BY <1>2, <2>1, <2>2, <2>3, <2>4
    <1>3. ASSUME NEW t \in Tasks, Submit(t) PROVE SubmitTypeOK'
        <2>1. \A b \in BOOLEAN : OnError(t, b) =>
                st' \in [Tasks -> State] /\ attempt' \in [Tasks -> 0..MaxBadSeqRetries]
            <3> SUFFICES ASSUME NEW b \in BOOLEAN, OnError(t, b)
                         PROVE  st' \in [Tasks -> State] /\ attempt' \in [Tasks -> 0..MaxBadSeqRetries]
                OBVIOUS
            <3>1. attempt[t] \in 0..MaxBadSeqRetries /\ st \in [Tasks -> State]
                BY DEF SubmitTypeOK
            <3>2. CASE Retries(t, b)
                <4>1. attempt[t] + 1 \in 0..MaxBadSeqRetries
                    BY <3>1, <3>2 DEF Retries
                <4> QED BY <3>1, <3>2, <4>1 DEF OnError, SubmitTypeOK, Becomes, State, InFlight
            <3>3. CASE ~Retries(t, b)
                BY <3>1, <3>3 DEF OnError, SubmitTypeOK, Becomes, State, Settled
            <3> QED BY <3>2, <3>3
        <2>2. st' \in [Tasks -> State] /\ attempt' \in [Tasks -> 0..MaxBadSeqRetries]
            <3>1. CASE OnError(t, TRUE) \/ OnError(t, FALSE)
                BY <3>1, <2>1
            <3>2. CASE Becomes(t, "ok") /\ UNCHANGED attempt
                BY <3>2 DEF SubmitTypeOK, Becomes, State, Settled
            <3> QED BY <1>3, <3>1, <3>2 DEF Submit
        <2>3. sequence' \in Nat /\ accepted' \in Seq(Tasks)
            <3>1. \/ sequence' = sequence + 1 /\ accepted' = Append(accepted, t)
                  \/ sequence' = sequence /\ accepted' = accepted
                BY <1>3, Zenon DEF Submit
            <3>2. sequence \in Nat /\ accepted \in Seq(Tasks)
                BY DEF SubmitTypeOK
            <3>3. sequence + 1 \in Nat /\ Append(accepted, t) \in Seq(Tasks)
                BY <3>2
            <3> QED BY <3>1, <3>2, <3>3, Zenon
        <2> QED BY <1>3, <2>2, <2>3 DEF Submit, SubmitTypeOK
    <1>4. CASE UNCHANGED submitVars
        BY <1>4 DEF submitVars, SubmitTypeOK
    <1> QED BY <1>1, <1>2, <1>3, <1>4 DEF SubmitNext, Progress

-----------------------------------------------------------------------------
(***************************************************************************)
(* The promise chain.                                                      *)
(***************************************************************************)

\* A step that moves tasks forward and leaves the chain alone keeps the
\* invariant, if a task that starts is one whose turn it is.
LEMMA Moves ==
    ASSUME QueueInv, SubmitTypeOK',
           UNCHANGED <<tails, after, ticket, calls>>,
           \A v \in Tasks : st[v] \in Settled => st'[v] \in Settled,
           \A v \in Queued : (st'[v] = "new" <=> st[v] = "new"),
           \A v \in Queued : st'[v] = "waiting" => st[v] = "waiting",
           \A v \in Queued : st'[v] \in InFlight \cup Settled =>
                st[v] \in InFlight \cup Settled \/ Clear(v)
    PROVE  QueueInv'
    <1> USE DEF QueueInv
    <1>q. Queued \subseteq Tasks
        BY DEF Queued
    <1>1. TicketsOK'
        BY DEF TicketsOK
    <1>2. TailsOK'
        BY DEF TailsOK
    <1>3. \A t \in Queued : Clear(t) => Clear(t)'
        BY <1>q DEF Clear
    <1>4. WaitsOK'
        BY <1>3 DEF WaitsOK
    <1>5. StartedOK'
        BY <1>3 DEF StartedOK
    <1>6. ForgottenIsIdle'
        <2> SUFFICES ASSUME NEW t \in Queued, tails[KeyOf[t]] = NoTask
                     PROVE  st'[t] \in Settled \cup {"new"}
            BY DEF ForgottenIsIdle
        <2>1. st[t] \in Settled \cup {"new"}
            BY DEF ForgottenIsIdle
        <2> QED BY <2>1, <1>q
    <1> QED BY <1>1, <1>2, <1>3, <1>4, <1>5, <1>6

\* A submission that retries or gives up stays in flight or settles.
LEMMA OnErrorMoves ==
    ASSUME SubmitTypeOK, NEW t \in Tasks, NEW b \in BOOLEAN, OnError(t, b)
    PROVE  \E l \in {"load", "failed"} : st' = [st EXCEPT ![t] = l]
    BY DEF OnError, Becomes

\* run(key, task) keeps the chain in order.
LEMMA RunStep ==
    ASSUME QueueInv, SubmitTypeOK', NEW t \in Tasks, Run(t)
    PROVE  QueueInv'
    <1> USE DEF QueueInv
    <1> USE KeyOfAssumption, NoTaskAssumption
    <1> DEFINE k == KeyOf[t]
    <1>1. /\ st[t] = "new" /\ t \in Queued
          /\ after' = [after EXCEPT ![t] = tails[k]]
          /\ tails' = [tails EXCEPT ![k] = t]
          /\ calls' = calls + 1
          /\ ticket' = [ticket EXCEPT ![t] = calls + 1]
          /\ st' = [st EXCEPT ![t] = "waiting"]
        BY DEF Run, Becomes
    <1>2. /\ k \in Keys /\ Queued \subseteq Tasks /\ calls \in Nat
          /\ \A v \in Queued : ticket[v] \in Nat /\ ticket[v] <= calls
        BY DEF Queued, SubmitTypeOK, TicketsOK
    <1>3. /\ ticket'[t] = calls + 1 /\ st'[t] = "waiting" /\ after'[t] = tails[k] /\ tails'[k] = t
          /\ \A v \in Queued : v # t => ticket'[v] = ticket[v] /\ st'[v] = st[v] /\ after'[v] = after[v]
          /\ \A l \in Keys : l # k => tails'[l] = tails[l]
        BY <1>1, <1>2 DEF SubmitTypeOK
    <1>4. TicketsOK'
        BY <1>1, <1>2, <1>3 DEF TicketsOK
    <1>5. TailsOK'
        <2> SUFFICES ASSUME NEW l \in Keys, tails'[l] # NoTask
                     PROVE  /\ tails'[l] \in Queued
                            /\ KeyOf[tails'[l]] = l
                            /\ ticket'[tails'[l]] # 0
                            /\ \A v \in Queued : KeyOf[v] = l => ticket'[v] <= ticket'[tails'[l]]
            BY DEF TailsOK
        <2>1. CASE l = k
            BY <2>1, <1>1, <1>2, <1>3
        <2>2. CASE l # k
            <3>1. /\ tails[l] \in Queued /\ KeyOf[tails[l]] = l /\ ticket[tails[l]] # 0
                  /\ \A v \in Queued : KeyOf[v] = l => ticket[v] <= ticket[tails[l]]
                BY <2>2, <1>3 DEF TailsOK
            <3>2. tails[l] # t
                BY <2>2, <3>1
            <3> QED BY <2>2, <1>3, <3>1, <3>2
        <2> QED BY <2>1, <2>2
    <1>6. \A v \in Queued : v # t => (Clear(v) => Clear(v)')
        <2> SUFFICES ASSUME NEW v \in Queued, v # t, Clear(v), NEW w \in Queued,
                            KeyOf[w] = KeyOf[v], ticket'[w] # 0, ticket'[w] < ticket'[v]
                     PROVE  st'[w] \in Settled
            BY DEF Clear
        <2>1. w # t
            BY <1>2, <1>3
        <2> QED BY <2>1, <1>3 DEF Clear
    <1>7. WaitsOK'
        <2> SUFFICES ASSUME NEW v \in Queued, st'[v] = "waiting"
                     PROVE  IF after'[v] = NoTask
                            THEN Clear(v)'
                            ELSE /\ after'[v] \in Queued
                                 /\ KeyOf[after'[v]] = KeyOf[v]
                                 /\ ticket'[after'[v]] # 0
                                 /\ ticket'[after'[v]] < ticket'[v]
                                 /\ \A w \in Queued : KeyOf[w] = KeyOf[v] /\ ticket'[w] < ticket'[v] =>
                                        ticket'[w] <= ticket'[after'[v]]
            BY DEF WaitsOK
        <2>1. CASE v = t /\ tails[k] = NoTask
            <3>1. \A w \in Queued : KeyOf[w] = k => st[w] \in Settled \cup {"new"}
                BY <2>1 DEF ForgottenIsIdle
            <3>2. \A w \in Queued : KeyOf[w] = k /\ w # t /\ ticket[w] # 0 => st[w] \in Settled
                BY <3>1 DEF TicketsOK
            <3> QED BY <2>1, <3>2, <1>2, <1>3 DEF Clear
        <2>2. CASE v = t /\ tails[k] # NoTask
            <3>1. /\ tails[k] \in Queued /\ KeyOf[tails[k]] = k /\ ticket[tails[k]] # 0
                  /\ \A w \in Queued : KeyOf[w] = k => ticket[w] <= ticket[tails[k]]
                BY <2>2, <1>2 DEF TailsOK
            <3>2. tails[k] # t
                BY <3>1, <1>1 DEF TicketsOK
            <3> QED BY <2>2, <3>1, <3>2, <1>2, <1>3
        <2>3. CASE v # t
            <3>1. st[v] = "waiting" /\ after'[v] = after[v]
                BY <2>3, <1>3
            <3>2. CASE after[v] = NoTask
                BY <2>3, <3>1, <3>2, <1>6 DEF WaitsOK
            <3>3. CASE after[v] # NoTask
                <4>1. /\ after[v] \in Queued /\ KeyOf[after[v]] = KeyOf[v]
                      /\ ticket[after[v]] # 0 /\ ticket[after[v]] < ticket[v]
                      /\ \A w \in Queued : KeyOf[w] = KeyOf[v] /\ ticket[w] < ticket[v] =>
                             ticket[w] <= ticket[after[v]]
                    BY <3>1, <3>3 DEF WaitsOK
                <4>2. after[v] # t
                    BY <1>1, <4>1 DEF TicketsOK
                <4> QED BY <2>3, <3>1, <3>3, <4>1, <4>2, <1>2, <1>3
            <3> QED BY <3>2, <3>3
        <2> QED BY <2>1, <2>2, <2>3
    <1>8. StartedOK'
        BY <1>3, <1>6 DEF StartedOK, InFlight, Settled
    <1>9. ForgottenIsIdle'
        <2> SUFFICES ASSUME NEW v \in Queued, tails'[KeyOf[v]] = NoTask
                     PROVE  st'[v] \in Settled \cup {"new"}
            BY DEF ForgottenIsIdle
        <2>1. KeyOf[v] # k /\ KeyOf[v] \in Keys
            BY <1>1, <1>2, <1>3
        <2> QED BY <2>1, <1>3 DEF ForgottenIsIdle
    <1> QED BY <1>4, <1>5, <1>7, <1>8, <1>9

\* Forgetting the tail is safe: nothing of the queue is pending.
LEMMA ForgetStep ==
    ASSUME QueueInv, SubmitTypeOK', NEW t \in Tasks, Forget(t)
    PROVE  QueueInv'
    <1> USE DEF QueueInv
    <1> USE KeyOfAssumption, NoTaskAssumption
    <1> DEFINE k == KeyOf[t]
    <1>1. /\ t \in Queued /\ st[t] \in Settled /\ tails[k] = t /\ k \in Keys
          /\ tails' = [tails EXCEPT ![k] = NoTask]
          /\ UNCHANGED <<after, ticket, calls, st>>
        BY DEF Forget
    <1>2. tails'[k] = NoTask /\ \A l \in Keys : l # k => tails'[l] = tails[l]
        BY <1>1 DEF SubmitTypeOK
    <1>3. \A v \in Queued : KeyOf[v] = k => st[v] \in Settled \cup {"new"}
        <2> SUFFICES ASSUME NEW v \in Queued, KeyOf[v] = k, ticket[v] # 0
                     PROVE  st[v] \in Settled
            BY DEF TicketsOK
        <2>1. ticket[v] <= ticket[t] /\ ticket[v] \in Nat /\ ticket[t] \in Nat
            BY <1>1 DEF TailsOK, SubmitTypeOK, Queued
        <2>2. CASE ticket[v] = ticket[t]
            BY <1>1, <2>2 DEF TicketsOK
        <2>3. CASE ticket[v] < ticket[t]
            BY <1>1, <2>3 DEF StartedOK, Clear
        <2> QED BY <2>1, <2>2, <2>3
    <1>4. ForgottenIsIdle'
        BY <1>1, <1>2, <1>3 DEF ForgottenIsIdle, Queued
    <1>5. TailsOK'
        BY <1>1, <1>2 DEF TailsOK
    <1>6. TicketsOK' /\ WaitsOK' /\ StartedOK'
        BY <1>1 DEF TicketsOK, WaitsOK, StartedOK, Clear
    <1> QED BY <1>4, <1>5, <1>6

\* Every step keeps the chain in order.
LEMMA QueueStep ==
    ASSUME QueueInv, [SubmitNext]_submitVars
    PROVE  QueueInv'
    <1>t. SubmitTypeOK /\ SubmitTypeOK' /\ Queued \subseteq Tasks
        BY SubmitTypeStep DEF QueueInv, Queued
    <1>1. ASSUME NEW t \in Tasks, Run(t) PROVE QueueInv'
        BY <1>1, <1>t, RunStep
    <1>2. ASSUME NEW t \in Tasks, Forget(t) PROVE QueueInv'
        BY <1>2, <1>t, ForgetStep
    <1>3. ASSUME NEW t \in Tasks, Start(t) PROVE QueueInv'
        <2>1. /\ st[t] = "waiting" /\ (after[t] # NoTask => st[after[t]] \in Settled)
              /\ st' = [st EXCEPT ![t] = "load"] /\ UNCHANGED <<tails, after, ticket, calls>>
            BY <1>3 DEF Start, Becomes
        <2>2. t \in Queued => Clear(t)
            <3> SUFFICES ASSUME t \in Queued PROVE Clear(t)
                OBVIOUS
            <3>1. CASE after[t] = NoTask
                BY <2>1, <3>1 DEF QueueInv, WaitsOK
            <3>2. CASE after[t] # NoTask
                <4> DEFINE u == after[t]
                <4>1. /\ u \in Queued /\ KeyOf[u] = KeyOf[t] /\ st[u] \in Settled
                      /\ \A v \in Queued : KeyOf[v] = KeyOf[t] /\ ticket[v] < ticket[t] =>
                             ticket[v] <= ticket[u]
                    BY <2>1, <3>2 DEF QueueInv, WaitsOK
                <4>2. Clear(u)
                    BY <4>1 DEF QueueInv, StartedOK
                <4>3. \A v \in Queued : ticket[v] \in Nat
                    BY <1>t DEF SubmitTypeOK
                <4> HIDE DEF u
                <4> SUFFICES ASSUME NEW v \in Queued, KeyOf[v] = KeyOf[t],
                                    ticket[v] # 0, ticket[v] < ticket[t]
                             PROVE  st[v] \in Settled
                    BY DEF Clear
                <4>4. CASE ticket[v] = ticket[u]
                    BY <4>1, <4>4 DEF QueueInv, TicketsOK
                <4>5. CASE ticket[v] # ticket[u]
                    <5>1. ticket[v] < ticket[u]
                        BY <4>1, <4>3, <4>5
                    <5> QED BY <4>1, <4>2, <5>1 DEF Clear
                <4> QED BY <4>4, <4>5
            <3> QED BY <3>1, <3>2
        <2>3. /\ \A v \in Tasks : st[v] \in Settled => st'[v] \in Settled
              /\ \A v \in Queued : (st'[v] = "new" <=> st[v] = "new")
              /\ \A v \in Queued : st'[v] = "waiting" => st[v] = "waiting"
              /\ \A v \in Queued : v # t => st'[v] = st[v]
            BY <2>1, <1>t DEF SubmitTypeOK, Settled
        <2> QED BY <1>t, <2>1, <2>2, <2>3, Moves
    <1>4. ASSUME NEW t \in Tasks, NEW l \in InFlight \cup Settled,
                 st[t] \in InFlight \/ (st[t] = "new" /\ t \in Bare),
                 st' = [st EXCEPT ![t] = l], UNCHANGED <<tails, after, ticket, calls>>
          PROVE  QueueInv'
        <2>1. /\ \A v \in Tasks : st[v] \in Settled => st'[v] \in Settled
              /\ \A v \in Queued : (st'[v] = "new" <=> st[v] = "new")
              /\ \A v \in Queued : st'[v] = "waiting" => st[v] = "waiting"
              /\ \A v \in Queued : st'[v] \in InFlight \cup Settled => st[v] \in InFlight \cup Settled
            BY <1>4, <1>t DEF SubmitTypeOK, Settled, InFlight, Queued
        <2> QED BY <1>t, <1>4, <2>1, Moves
    <1>5. ASSUME NEW t \in Tasks, Tokenize(t) \/ Load(t) PROVE QueueInv'
        <2>1. /\ st[t] \in InFlight \/ (st[t] = "new" /\ t \in Bare)
              /\ UNCHANGED <<tails, after, ticket, calls>>
              /\ \E l \in InFlight \cup Settled : st' = [st EXCEPT ![t] = l]
            BY <1>5 DEF Tokenize, Load, Becomes, InFlight, Settled
        <2> QED BY <2>1, <1>4
    <1>6. ASSUME NEW t \in Tasks, Submit(t) PROVE QueueInv'
        <2>1. st[t] \in InFlight /\ UNCHANGED <<tails, after, ticket, calls>>
            BY <1>6 DEF Submit, InFlight
        <2>2. \E l \in InFlight \cup Settled : st' = [st EXCEPT ![t] = l]
            <3>1. CASE \E b \in BOOLEAN : OnError(t, b)
                BY <3>1, <1>t, OnErrorMoves DEF InFlight, Settled
            <3>2. CASE Becomes(t, "ok")
                BY <3>2 DEF Becomes, Settled
            <3> QED BY <1>6, <3>1, <3>2 DEF Submit
        <2> QED BY <2>1, <2>2, <1>4
    <1>7. CASE UNCHANGED submitVars
        BY <1>7, <1>t, Moves DEF submitVars
    <1> QED BY <1>1, <1>2, <1>3, <1>5, <1>6, <1>7 DEF SubmitNext, Progress

LEMMA QueueInitial == SubmitInit => QueueInv
    BY KeyOfAssumption, RetriesAssumption
       DEF SubmitInit, QueueInv, SubmitTypeOK, State, TicketsOK, TailsOK, WaitsOK, StartedOK,
           ForgottenIsIdle, Queued, InFlight, Settled

\* The chain's invariant gives the mutual exclusion.
LEMMA QueueExcludes == QueueInv => OneInFlight
    <1> SUFFICES ASSUME QueueInv, NEW t \in Tasks, NEW u \in Tasks,
                        SameQueue(t, u), st[t] \in InFlight, u # t
                 PROVE  IF ticket[u] # 0 /\ ticket[u] < ticket[t]
                        THEN st[u] \in Settled
                        ELSE st[u] \in {"new", "waiting"}
        BY DEF OneInFlight
    <1>1. t \in Queued /\ u \in Queued /\ KeyOf[t] = KeyOf[u]
        BY DEF SameQueue
    <1>2. CASE ticket[u] # 0 /\ ticket[u] < ticket[t]
        BY <1>1, <1>2 DEF QueueInv, StartedOK, Clear
    <1>3. CASE ~(ticket[u] # 0 /\ ticket[u] < ticket[t])
        <2>1. /\ ticket[t] # 0 /\ ticket[t] \in Nat /\ ticket[u] \in Nat
              /\ st[u] \in State /\ st[t] \notin Settled
            BY <1>1 DEF QueueInv, TicketsOK, InFlight, Settled, SubmitTypeOK
        <2>2. CASE ticket[u] = 0
            BY <1>1, <1>3, <2>2 DEF QueueInv, TicketsOK
        <2>3. CASE ticket[u] # 0
            <3>1. ticket[t] < ticket[u]
                BY <1>1, <1>3, <2>1, <2>3 DEF QueueInv, TicketsOK
            <3>2. st[u] \notin InFlight \cup Settled
                BY <1>1, <2>1, <3>1 DEF QueueInv, StartedOK, Clear
            <3> QED BY <1>3, <2>1, <3>2 DEF State
        <2> QED BY <2>2, <2>3
    <1> QED BY <1>2, <1>3

(***************************************************************************)
(* For any number of processes and submissions, with failures, retries and *)
(* lost answers: KeyedSerializer runs at most one submission of a queue at *)
(* a time, in call order.                                                  *)
(***************************************************************************)
THEOREM SerializerExcludes == SubmitSpec => []OneInFlight
    <1>1. SubmitInit => QueueInv
        BY QueueInitial
    <1>2. QueueInv /\ [SubmitNext]_submitVars => QueueInv'
        BY QueueStep
    <1>3. QueueInv => OneInFlight
        BY QueueExcludes
    <1> QED BY <1>1, <1>2, <1>3, PTL DEF SubmitSpec

(***************************************************************************)
(* The clean-up of the tails map never drops a queue that has work.        *)
(***************************************************************************)
THEOREM SerializerForgetsIdle == SubmitSpec => []ForgottenIsIdle
    <1>1. QueueInv => ForgottenIsIdle
        BY DEF QueueInv
    <1> QED BY <1>1, QueueInitial, QueueStep, PTL DEF SubmitSpec

-----------------------------------------------------------------------------
(***************************************************************************)
(* The network.                                                            *)
(***************************************************************************)

\* A step that accepts nothing and unsettles nothing keeps the books.
LEMMA BooksKept ==
    ASSUME SubmitInv, SubmitTypeOK', accepted' = accepted,
           \A v \in Tasks : st[v] \in Settled => st'[v] \in Settled,
           \A v \in Tasks : st'[v] = "ok" => st[v] = "ok"
    PROVE  SubmitInv'
    <1>1. AcceptedSettled'
        BY DEF SubmitInv, AcceptedSettled, SubmitTypeOK
    <1>2. AcceptedOnce'
        BY DEF SubmitInv, AcceptedOnce
    <1> QED BY <1>1, <1>2 DEF SubmitInv

LEMMA BooksStep ==
    ASSUME SubmitInv, [SubmitNext]_submitVars
    PROVE  SubmitInv'
    <1>t. SubmitTypeOK /\ SubmitTypeOK'
        BY SubmitTypeStep DEF SubmitInv
    <1>1. ASSUME NEW t \in Tasks, Run(t) \/ Tokenize(t) \/ Start(t) \/ Load(t) \/ Forget(t)
          PROVE  SubmitInv'
        <2>1. accepted' = accepted
            BY <1>1 DEF Run, Tokenize, Start, Load, Forget
        <2>2. /\ \A v \in Tasks : st[v] \in Settled => st'[v] \in Settled
              /\ \A v \in Tasks : st'[v] = "ok" => st[v] = "ok"
            BY <1>1, <1>t DEF Run, Tokenize, Start, Load, Forget, Becomes, Settled, SubmitTypeOK
        <2> QED BY <1>t, <2>1, <2>2, BooksKept
    <1>2. ASSUME NEW t \in Tasks, Submit(t), accepted' = accepted PROVE SubmitInv'
        <2>1. st[t] = "submit" /\ \E b \in BOOLEAN : OnError(t, b)
            <3>1. accepted # Append(accepted, t)
                <4>1. Len(Append(accepted, t)) = Len(accepted) + 1 /\ Len(accepted) \in Nat
                    BY <1>t DEF SubmitTypeOK
                <4> QED BY <4>1
            <3> QED BY <1>2, <3>1 DEF Submit
        <2>2. PICK l \in {"load", "failed"} : st' = [st EXCEPT ![t] = l]
            BY <2>1, <1>t, OnErrorMoves
        <2>3. /\ \A v \in Tasks : st[v] \in Settled => st'[v] \in Settled
              /\ \A v \in Tasks : st'[v] = "ok" => st[v] = "ok"
            BY <2>1, <2>2, <1>t DEF Settled, SubmitTypeOK
        <2> QED BY <1>2, <1>t, <2>3, BooksKept
    <1>3. ASSUME NEW t \in Tasks, Submit(t), accepted' # accepted PROVE SubmitInv'
        <2>1. /\ st[t] = "submit" /\ accepted' = Append(accepted, t)
              /\ Becomes(t, "ok") \/ OnError(t, FALSE)
            BY <1>3 DEF Submit
        <2>2. \E l \in {"ok", "failed"} : st' = [st EXCEPT ![t] = l]
            BY <2>1 DEF OnError, Retries, Becomes
        <2>3. /\ st'[t] \in Settled
              /\ \A v \in Tasks : v # t => st'[v] = st[v]
            BY <2>2, <1>t DEF Settled, SubmitTypeOK
        <2> DEFINE n == Len(accepted)
        <2>4. /\ n \in Nat /\ DOMAIN accepted = 1..n /\ DOMAIN accepted' = 1..(n + 1)
              /\ accepted'[n + 1] = t
              /\ \A i \in 1..n : accepted'[i] = accepted[i] /\ accepted[i] \in Tasks
            BY <2>1, <1>t DEF SubmitTypeOK
        <2>5. \A i \in 1..n : accepted[i] # t /\ st[accepted[i]] \in Settled
            BY <2>1, <2>4 DEF SubmitInv, AcceptedSettled, Settled
        <2> HIDE DEF n
        <2>6. AcceptedSettled'
            <3> SUFFICES ASSUME NEW i \in 1..(n + 1) PROVE st'[accepted'[i]] \in Settled
                BY <2>4 DEF AcceptedSettled
            <3>1. CASE i = n + 1
                BY <3>1, <2>3, <2>4
            <3>2. CASE i # n + 1
                <4>1. i \in 1..n
                    BY <3>2, <2>4
                <4> QED BY <4>1, <2>3, <2>4, <2>5
            <3> QED BY <3>1, <3>2
        <2>7. \A i, j \in 1..(n + 1) : accepted'[i] = accepted'[j] => i = j
            <3>1. \A i, j \in 1..n : accepted[i] = accepted[j] => i = j
                BY <2>4 DEF SubmitInv, AcceptedOnce
            <3> QED BY <3>1, <2>4, <2>5
        <2>8. ASSUME NEW v \in Tasks, st'[v] = "ok" PROVE \E i \in 1..(n + 1) : accepted'[i] = v
            <3>1. CASE v = t
                BY <3>1, <2>4
            <3>2. CASE v # t
                <4>1. \E i \in 1..n : accepted[i] = v
                    BY <2>8, <3>2, <2>3, <2>4 DEF SubmitInv, AcceptedOnce
                <4> QED BY <4>1, <2>4
            <3> QED BY <3>1, <3>2
        <2> QED BY <1>t, <2>4, <2>6, <2>7, <2>8 DEF SubmitInv, AcceptedOnce
    <1>4. CASE UNCHANGED submitVars
        BY <1>4, <1>t, BooksKept DEF submitVars
    <1> QED BY <1>1, <1>2, <1>3, <1>4 DEF SubmitNext, Progress

\* Nothing is accepted in the beginning.
LEMMA SubmitInitial == SubmitInit => SubmitInv
    BY KeyOfAssumption, RetriesAssumption
       DEF SubmitInit, SubmitInv, SubmitTypeOK, State, AcceptedSettled, AcceptedOnce

(***************************************************************************)
(* No submission is accepted twice and every hash returned to a caller is  *)
(* the hash of an accepted transaction, whatever answers are lost.         *)
(***************************************************************************)
THEOREM NeverTwice == SubmitSpec => []AcceptedOnce
    <1>1. SubmitInit => SubmitInv
        BY SubmitInitial
    <1>2. SubmitInv /\ [SubmitNext]_submitVars => SubmitInv'
        BY BooksStep
    <1>3. SubmitInv => AcceptedOnce
        BY DEF SubmitInv
    <1> QED BY <1>1, <1>2, <1>3, PTL DEF SubmitSpec

-----------------------------------------------------------------------------
(***************************************************************************)
(* The line of a key.                                                      *)
(***************************************************************************)

\* A set of naturals has a least member.
LEMMA Least ==
    ASSUME NEW T \in SUBSET Nat, T # {}
    PROVE  \E n \in T : \A m \in T : n <= m
    <1> DEFINE R == OpToRel(<, Nat)
    <1>1. \A x, y \in Nat : x < y => <<x, y>> \in R
        BY DEF OpToRel
    <1>2. IsWellFoundedOn(R, Nat)
        BY NatLessThanWellFounded
    <1> HIDE DEF R
    <1>3. PICK n \in T : \A y \in T : ~ (<<y, n>> \in R)
        BY <1>2, WFMin
    <1>4. ASSUME NEW m \in T PROVE n <= m
        <2>1. n \in Nat /\ m \in Nat /\ <<m, n>> \notin R
            BY <1>3
        <2>2. ~(m < n)
            BY <2>1, <1>1
        <2> QED BY <2>1, <2>2
    <1> QED BY <1>4

\* Of two ordered lists of a set, one goes on like the other.
LEMMA SameStart ==
    ASSUME NEW S, NEW f, \A t \in S : f[t] \in Nat,
           NEW p, NEW q, InOrder(p, S, f), InOrder(q, S, f)
    PROVE  \A i \in 1..Len(p) : i <= Len(q) /\ p[i] = q[i]
    <1> DEFINE T == {i \in 1..Len(p) : ~(i <= Len(q) /\ p[i] = q[i])}
    <1>1. /\ Len(p) \in Nat /\ Len(q) \in Nat
          /\ \A i \in 1..Len(p) : p[i] \in S
          /\ \A i \in 1..Len(q) : q[i] \in S
        BY DEF InOrder
    <1>2. /\ \A t \in S : \E i \in 1..Len(p) : p[i] = t
          /\ \A t \in S : \E i \in 1..Len(q) : q[i] = t
        BY DEF InOrder
    <1>3. /\ \A i, j \in 1..Len(p) : i < j => f[p[i]] < f[p[j]]
          /\ \A i, j \in 1..Len(q) : i < j => f[q[i]] < f[q[j]]
        BY DEF InOrder
    <1> SUFFICES ASSUME T # {} PROVE FALSE
        OBVIOUS
    <1>4. T \in SUBSET Nat
        BY <1>1
    <1>5. PICK n \in T : \A m \in T : n <= m
        BY <1>4, Least
    <1>6. n \in 1..Len(p) /\ n \in Nat /\ ~(n <= Len(q) /\ p[n] = q[n])
        BY <1>4
    <1>7. \A i \in 1..Len(p) : i < n => i <= Len(q) /\ p[i] = q[i]
        BY <1>5, <1>6
    <1> HIDE DEF T
    <1>8. PICK j \in 1..Len(q) : q[j] = p[n]
        BY <1>1, <1>2, <1>6
    <1>9. j \in Nat /\ ~(j < n)
        <2> SUFFICES ASSUME j < n PROVE FALSE
            BY <1>1
        <2>1. j \in 1..Len(p)
            BY <1>1, <1>6
        <2>2. f[p[j]] < f[p[n]] /\ p[j] = q[j]
            BY <2>1, <1>3, <1>6, <1>7
        <2>3. f[p[n]] \in Nat
            BY <1>1, <1>6
        <2> QED BY <2>2, <2>3, <1>8
    <1>10. n < j /\ n \in 1..Len(q)
        BY <1>1, <1>6, <1>8, <1>9
    <1>11. f[q[n]] < f[p[n]]
        BY <1>3, <1>8, <1>10
    <1>12. PICK m \in 1..Len(p) : p[m] = q[n]
        BY <1>1, <1>2, <1>10
    <1>13. f[p[m]] < f[p[n]] /\ f[p[m]] \in Nat /\ f[p[n]] \in Nat /\ m \in Nat
        BY <1>1, <1>6, <1>11, <1>12
    <1>14. m < n
        BY <1>3, <1>6, <1>12, <1>13
    <1>15. p[m] = q[m] /\ m \in 1..Len(q)
        BY <1>1, <1>7, <1>12, <1>13, <1>14
    <1>16. f[q[m]] < f[q[n]] /\ q[m] = q[n]
        BY <1>3, <1>10, <1>12, <1>14, <1>15
    <1> QED BY <1>12, <1>13, <1>16

\* A set has one ordered list, and Ordered is it.
LEMMA OneOrder ==
    ASSUME NEW S, NEW f, \A t \in S : f[t] \in Nat, NEW q, InOrder(q, S, f)
    PROVE  Ordered(S, f) = q
    <1>1. q \in Seq(S) /\ Len(q) \in Nat /\ q \in [1..Len(q) -> S]
        BY DEF InOrder
    <1>2. Cardinality(S) = Len(q)
        <2>1. \A i, j \in 1..Len(q) : q[i] = q[j] => i = j
            <3> SUFFICES ASSUME NEW i \in 1..Len(q), NEW j \in 1..Len(q), q[i] = q[j], i < j
                         PROVE  FALSE
                BY <1>1
            <3>1. f[q[i]] < f[q[j]] /\ f[q[i]] \in Nat
                BY <1>1 DEF InOrder
            <3> QED BY <3>1
        <2>2. \A t \in S : \E i \in 1..Len(q) : q[i] = t
            BY DEF InOrder
        <2>3. ExistsBijection(1..Len(q), S)
            BY <1>1, <2>1, <2>2
               DEF ExistsBijection, Bijection, Injection, Surjection, IsInjective
        <2>4. IsFiniteSet(1..Len(q)) /\ Cardinality(1..Len(q)) = Len(q)
            BY <1>1, FS_Interval
        <2> QED BY <2>3, <2>4, FS_Bijection
    <1>3. q \in [1..Cardinality(S) -> S]
        BY <1>1, <1>2
    <1>4. InOrder(Ordered(S, f), S, f)
        BY <1>3 DEF Ordered
    <1>5. ASSUME NEW p, InOrder(p, S, f) PROVE p = q
        <2>1. /\ \A i \in 1..Len(p) : i <= Len(q) /\ p[i] = q[i]
              /\ \A i \in 1..Len(q) : i <= Len(p) /\ q[i] = p[i]
            BY <1>5, SameStart
        <2>2. p \in Seq(S) /\ Len(p) \in Nat
            BY <1>5 DEF InOrder
        <2>3. Len(p) = Len(q)
            BY <2>1, <2>2, <1>1
        <2> QED BY <2>1, <2>2, <2>3, <1>1
    <1> QED BY <1>4, <1>5

\* A new number that is larger than the others goes to the end,
LEMMA OrderAppend ==
    ASSUME NEW S, NEW f, NEW g, NEW q, InOrder(q, S, f), NEW t, t \notin S,
           \A u \in S : g[u] = f[u] /\ f[u] < g[t]
    PROVE  InOrder(Append(q, t), S \cup {t}, g)
    <1> DEFINE n == Len(q)
               p == Append(q, t)
    <1>1. /\ q \in Seq(S) /\ n \in Nat
          /\ p \in Seq(S \cup {t}) /\ Len(p) = n + 1 /\ p[n + 1] = t
          /\ \A i \in 1..n : p[i] = q[i] /\ q[i] \in S
        <2>1. q \in Seq(S) /\ q \in Seq(S \cup {t})
            BY DEF InOrder
        <2> QED BY <2>1
    <1>2. \A u \in S : \E i \in 1..n : q[i] = u
        BY DEF InOrder
    <1>3. \A i, j \in 1..n : i < j => f[q[i]] < f[q[j]]
        BY DEF InOrder
    <1> HIDE DEF n, p
    <1>4. ASSUME NEW u \in S \cup {t} PROVE \E i \in 1..Len(p) : p[i] = u
        <2>1. CASE u = t
            BY <2>1, <1>1
        <2>2. CASE u \in S
            BY <2>2, <1>1, <1>2
        <2> QED BY <2>1, <2>2
    <1>5. ASSUME NEW i \in 1..Len(p), NEW j \in 1..Len(p), i < j PROVE g[p[i]] < g[p[j]]
        <2>1. i \in 1..n /\ p[i] = q[i] /\ q[i] \in S
            BY <1>1, <1>5
        <2>2. CASE j = n + 1
            BY <2>1, <2>2, <1>1
        <2>3. CASE j \in 1..n
            BY <2>1, <2>3, <1>1, <1>3, <1>5
        <2> QED BY <2>2, <2>3, <1>1
    <1>6. InOrder(p, S \cup {t}, g)
        BY <1>1, <1>4, <1>5 DEF InOrder
    <1> QED BY <1>6 DEF p

\* the smallest is at the head, and without it the tail is in order,
LEMMA OrderTail ==
    ASSUME NEW S, NEW f, NEW q, InOrder(q, S, f), NEW t \in S,
           \A u \in S : f[u] \in Nat,
           \A u \in S : u # t => f[t] < f[u]
    PROVE  q # <<>> /\ Head(q) = t /\ InOrder(Tail(q), S \ {t}, f)
    <1> DEFINE n == Len(q)
               p == Tail(q)
    <1>1. q \in Seq(S) /\ n \in Nat /\ \A i \in 1..n : q[i] \in S
        BY DEF InOrder
    <1>2. \A u \in S : \E i \in 1..n : q[i] = u
        BY DEF InOrder
    <1>3. \A i, j \in 1..n : i < j => f[q[i]] < f[q[j]]
        BY DEF InOrder
    <1>4. PICK k \in 1..n : q[k] = t
        BY <1>2
    <1>5. n >= 1 /\ 1 \in 1..n /\ q # <<>>
        BY <1>1, <1>4
    <1>6. q[1] = t
        <2> SUFFICES ASSUME q[1] # t PROVE FALSE
            OBVIOUS
        <2>1. 1 < k /\ k \in 1..n
            BY <1>1, <1>4
        <2>2. f[q[1]] < f[t] /\ f[t] < f[q[1]]
            BY <2>1, <1>1, <1>3, <1>4, <1>5
        <2>3. f[t] \in Nat /\ f[q[1]] \in Nat
            BY <1>1, <1>5
        <2> QED BY <2>2, <2>3
    <1>7. /\ Len(p) = n - 1 /\ p \in Seq(S)
          /\ \A i \in 1..(n - 1) : p[i] = q[i + 1]
        BY <1>1, <1>5
    <1>8. \A i \in 1..(n - 1) : p[i] \in S /\ p[i] # t
        <2> SUFFICES ASSUME NEW i \in 1..(n - 1) PROVE p[i] \in S /\ p[i] # t
            OBVIOUS
        <2>1. i + 1 \in 1..n /\ 1 < i + 1 /\ p[i] = q[i + 1]
            BY <1>1, <1>7
        <2>2. f[t] < f[p[i]] /\ p[i] \in S
            BY <2>1, <1>1, <1>3, <1>5, <1>6
        <2>3. f[t] \in Nat
            OBVIOUS
        <2> QED BY <2>2, <2>3
    <1> HIDE DEF n, p
    <1>9. p \in Seq(S \ {t})
        <2>1. Len(p) \in Nat /\ DOMAIN p = 1..Len(p) /\ \A i \in 1..Len(p) : p[i] \in S \ {t}
            BY <1>7, <1>8
        <2>2. p \in [1..Len(p) -> S \ {t}]
            BY <2>1, <1>7
        <2> QED BY <2>1, <2>2
    <1>10. ASSUME NEW u \in S \ {t} PROVE \E i \in 1..Len(p) : p[i] = u
        <2>1. PICK i \in 1..n : q[i] = u
            BY <1>2
        <2>2. i - 1 \in 1..(n - 1) /\ i = (i - 1) + 1
            BY <2>1, <1>1, <1>6
        <2> QED BY <2>1, <2>2, <1>7
    <1>11. ASSUME NEW i \in 1..Len(p), NEW j \in 1..Len(p), i < j PROVE f[p[i]] < f[p[j]]
        <2>1. i + 1 \in 1..n /\ j + 1 \in 1..n /\ i + 1 < j + 1
            BY <1>1, <1>7, <1>11
        <2> QED BY <2>1, <1>3, <1>7
    <1>12. InOrder(p, S \ {t}, f)
        BY <1>9, <1>10, <1>11 DEF InOrder
    <1> QED BY <1>1, <1>5, <1>6, <1>12 DEF p

\* and numbers of others do not matter.
LEMMA OrderSame ==
    ASSUME NEW S, NEW f, NEW g, NEW q, InOrder(q, S, f), \A u \in S : g[u] = f[u]
    PROVE  InOrder(q, S, g)
    <1>1. \A i \in 1..Len(q) : q[i] \in S
        BY DEF InOrder
    <1> QED BY <1>1 DEF InOrder

(***************************************************************************)
(* The refinement of SigningQueue.                                         *)
(***************************************************************************)

\* Every line can be listed in call order.
LinesOK == \A k \in Keys : \E q : InOrder(q, Waiting(k), ticket)

\* The line of a key is the list in call order, now and after a step.
LEMMA LineIs ==
    ASSUME SubmitTypeOK, SubmitTypeOK', NEW k \in Keys, NEW q
    PROVE  /\ InOrder(q, Waiting(k), ticket) => Lines[k] = q
           /\ InOrder(q, Waiting(k)', ticket') => Lines'[k] = q
    <1>1. \A u \in Waiting(k) : ticket[u] \in Nat
        BY DEF SubmitTypeOK, Waiting, Queued
    <1>2. \A u \in Waiting(k)' : ticket'[u] \in Nat
        BY DEF SubmitTypeOK, Waiting, Queued
    <1>3. Lines[k] = Ordered(Waiting(k), ticket) /\ Lines'[k] = Ordered(Waiting(k)', ticket')
        BY DEF Lines
    <1>4. ASSUME InOrder(q, Waiting(k), ticket) PROVE Ordered(Waiting(k), ticket) = q
        BY <1>1, <1>4, OneOrder
    <1>5. ASSUME InOrder(q, Waiting(k)', ticket') PROVE Ordered(Waiting(k)', ticket') = q
        BY <1>2, <1>5, OneOrder
    <1> QED BY <1>3, <1>4, <1>5

\* What every line becomes gives what Lines becomes.
LEMMA LinesBecome ==
    ASSUME SubmitTypeOK, SubmitTypeOK', LinesOK, NEW k \in Keys, NEW q,
           \A j \in Keys : j # k => /\ Waiting(j)' = Waiting(j)
                                    /\ \A u \in Waiting(j) : ticket'[u] = ticket[u],
           InOrder(q, Waiting(k)', ticket')
    PROVE  LinesOK' /\ Lines' = [Lines EXCEPT ![k] = q]
    <1>1. ASSUME NEW j \in Keys, j # k
          PROVE  (\E p : InOrder(p, Waiting(j)', ticket')) /\ Lines'[j] = Lines[j]
        <2>1. PICK p : InOrder(p, Waiting(j), ticket)
            BY DEF LinesOK
        <2>2. InOrder(p, Waiting(j)', ticket')
            BY <1>1, <2>1, OrderSame
        <2> QED BY <2>1, <2>2, LineIs
    <1>2. Lines'[k] = q
        BY LineIs
    <1>3. LinesOK'
        BY <1>1 DEF LinesOK
    <1>4. Lines = [j \in Keys |-> Lines[j]] /\ Lines' = [j \in Keys |-> Lines'[j]]
        BY DEF Lines
    <1> QED BY <1>1, <1>2, <1>3, <1>4, Zenon

\* A step that leaves the lines alone.
LEMMA LinesStay ==
    ASSUME SubmitTypeOK, SubmitTypeOK', LinesOK, UNCHANGED ticket,
           \A t \in Queued : st'[t] \in Settled <=> st[t] \in Settled
    PROVE  LinesOK' /\ Lines' = Lines
    <1>1. \A k \in Keys : Waiting(k)' = Waiting(k)
        BY DEF Waiting
    <1>2. LinesOK'
        BY <1>1 DEF LinesOK
    <1>3. \A k \in Keys : Ordered(Waiting(k)', ticket') = Ordered(Waiting(k), ticket)
        BY <1>1
    <1> QED BY <1>2, <1>3, Zenon DEF Lines

\* A call joins its line.
LEMMA RunJoins ==
    ASSUME QueueInv, SubmitInv, SubmitTypeOK', LinesOK, NEW t \in Tasks, Run(t)
    PROVE  LinesOK' /\ Queue!Join(t)
    <1> DEFINE k == KeyOf[t]
    <1>1. /\ t \in Queued /\ st[t] = "new" /\ k \in Keys /\ accepted' = accepted
          /\ ticket' = [ticket EXCEPT ![t] = calls + 1] /\ st' = [st EXCEPT ![t] = "waiting"]
        BY KeyOfAssumption DEF Run, Becomes
    <1>2. /\ ticket[t] = 0 /\ ticket'[t] = calls + 1 /\ calls \in Nat /\ st'[t] = "waiting"
          /\ \A u \in Tasks : u # t => ticket'[u] = ticket[u] /\ st'[u] = st[u]
          /\ \A u \in Queued : ticket[u] \in Nat /\ ticket[u] <= calls
          /\ Queued \subseteq Tasks
        BY <1>1 DEF QueueInv, SubmitTypeOK, TicketsOK, Queued
    <1>3. PICK q : InOrder(q, Waiting(k), ticket)
        BY <1>1 DEF LinesOK
    <1>4. /\ t \notin Waiting(k) /\ Waiting(k)' = Waiting(k) \cup {t}
          /\ \A u \in Waiting(k) : ticket'[u] = ticket[u] /\ ticket[u] < ticket'[t]
        BY <1>1, <1>2 DEF Waiting, Settled
    <1>5. InOrder(Append(q, t), Waiting(k)', ticket')
        BY <1>3, <1>4, OrderAppend
    <1>6. \A j \in Keys : j # k => /\ Waiting(j)' = Waiting(j)
                                   /\ \A u \in Waiting(j) : ticket'[u] = ticket[u]
        BY <1>1, <1>2 DEF Waiting
    <1>7. Lines[k] = q
        BY <1>1, <1>3, LineIs DEF QueueInv
    <1>8. LinesOK' /\ Lines' = [Lines EXCEPT ![k] = Append(Lines[k], t)]
        BY <1>1, <1>5, <1>6, <1>7, LinesBecome DEF QueueInv
    <1>9. ~Queue!InLine(t)
        <2>1. \A i \in DOMAIN q : q[i] \in Waiting(k)
            BY <1>3 DEF InOrder
        <2> QED BY <2>1, <1>4, <1>7 DEF Queue!InLine
    <1>10. ~Queue!Logged(t)
        BY <1>1 DEF Queue!Logged, SubmitInv, AcceptedSettled, Settled
    <1> QED BY <1>1, <1>8, <1>9, <1>10 DEF Queue!Join, Queued

\* A submission that settles was the first of its line and leaves it.
LEMMA SettleLeaves ==
    ASSUME QueueInv, SubmitInv, SubmitTypeOK', LinesOK, NEW t \in Queued, NEW l \in Settled,
           st[t] \in InFlight, st' = [st EXCEPT ![t] = l], UNCHANGED ticket,
           NEW b \in BOOLEAN, accepted' = IF b THEN Append(accepted, t) ELSE accepted
    PROVE  LinesOK' /\ Queue!Leave(KeyOf[t], b)
    <1> DEFINE k == KeyOf[t]
    <1>1. /\ k \in Keys /\ t \in Tasks /\ Queued \subseteq Tasks /\ st[t] \notin Settled
          /\ st'[t] \in Settled /\ \A u \in Tasks : u # t => st'[u] = st[u]
          /\ \A u \in Queued : ticket[u] \in Nat
        BY KeyOfAssumption DEF Queued, QueueInv, SubmitTypeOK, InFlight, Settled
    <1>2. PICK q : InOrder(q, Waiting(k), ticket)
        BY <1>1 DEF LinesOK
    <1>3. t \in Waiting(k) /\ Waiting(k)' = Waiting(k) \ {t}
        <2>1. ticket[t] # 0
            BY DEF QueueInv, TicketsOK, InFlight
        <2> QED BY <2>1, <1>1 DEF Waiting
    <1>4. \A u \in Waiting(k) : ticket[u] \in Nat /\ (u # t => ticket[t] < ticket[u])
        <2> SUFFICES ASSUME NEW u \in Waiting(k), u # t PROVE ticket[t] < ticket[u]
            BY <1>1 DEF Waiting
        <2>1. u \in Queued /\ KeyOf[u] = k /\ ticket[u] # 0 /\ st[u] \notin Settled
            BY DEF Waiting
        <2>2. ~(ticket[u] < ticket[t])
            BY <2>1 DEF QueueInv, StartedOK, Clear
        <2>3. ticket[u] # ticket[t]
            BY <2>1 DEF QueueInv, TicketsOK
        <2> QED BY <1>1, <2>1, <2>2, <2>3
    <1>5. q # <<>> /\ Head(q) = t /\ InOrder(Tail(q), Waiting(k)', ticket')
        BY <1>2, <1>3, <1>4, OrderTail
    <1>6. \A j \in Keys : j # k => /\ Waiting(j)' = Waiting(j)
                                   /\ \A u \in Waiting(j) : ticket'[u] = ticket[u]
        BY <1>1 DEF Waiting
    <1>7. Lines[k] = q
        BY <1>1, <1>2, LineIs DEF QueueInv
    <1>8. LinesOK' /\ Lines' = [Lines EXCEPT ![k] = Tail(Lines[k])]
        BY <1>1, <1>5, <1>6, <1>7, LinesBecome DEF QueueInv
    <1>9. ~Queue!Logged(t)
        BY <1>1 DEF Queue!Logged, SubmitInv, AcceptedSettled
    <1> QED BY <1>5, <1>7, <1>8, <1>9 DEF Queue!Leave

\* Where a submission to the network ends.
LEMMA SubmitEnds ==
    ASSUME SubmitTypeOK, NEW t \in Tasks, Submit(t)
    PROVE  /\ st[t] = "submit" /\ UNCHANGED ticket
           /\ \/ /\ accepted' = Append(accepted, t)
                 /\ \E l \in Settled : st' = [st EXCEPT ![t] = l]
              \/ /\ accepted' = accepted
                 /\ \E l \in {"load", "failed"} : st' = [st EXCEPT ![t] = l]
    <1>1. st[t] = "submit" /\ UNCHANGED ticket
        BY DEF Submit
    <1>2. OnError(t, FALSE) => st' = [st EXCEPT ![t] = "failed"]
        BY DEF OnError, Retries, Becomes
    <1>3. OnError(t, TRUE) => \E l \in {"load", "failed"} : st' = [st EXCEPT ![t] = l]
        BY DEF OnError, Becomes
    <1> QED BY <1>1, <1>2, <1>3 DEF Submit, Becomes, Settled

\* Every step is one of the queue's or leaves it alone.
LEMMA RefinesNext ==
    ASSUME QueueInv, SubmitInv, LinesOK, [SubmitNext]_submitVars
    PROVE  LinesOK' /\ [Queue!QueueNext]_(Queue!lineVars)
    <1>t. SubmitTypeOK /\ SubmitTypeOK' /\ Queued \subseteq Tasks /\ st \in [Tasks -> State]
        BY SubmitTypeStep DEF QueueInv, Queued, SubmitTypeOK
    <1>1. ASSUME NEW t \in Tasks, Run(t) PROVE LinesOK' /\ Queue!QueueNext
        BY <1>1, <1>t, RunJoins DEF Queue!QueueNext
    <1>2. ASSUME accepted' = accepted, UNCHANGED ticket,
                 \A t \in Queued : st'[t] \in Settled <=> st[t] \in Settled
          PROVE  LinesOK' /\ UNCHANGED Queue!lineVars
        BY <1>2, <1>t, LinesStay DEF Queue!lineVars
    <1>3. ASSUME NEW t \in Queued, NEW l \in Settled, st[t] \in InFlight,
                 st' = [st EXCEPT ![t] = l], UNCHANGED ticket,
                 accepted' = accepted \/ accepted' = Append(accepted, t)
          PROVE  LinesOK' /\ Queue!QueueNext
        <2>1. PICK b \in BOOLEAN : accepted' = IF b THEN Append(accepted, t) ELSE accepted
            BY <1>3
        <2>2. KeyOf[t] \in Keys
            BY <1>t, KeyOfAssumption
        <2> QED BY <1>3, <1>t, <2>1, <2>2, SettleLeaves DEF Queue!QueueNext
    <1>4. ASSUME NEW t \in Tasks, Tokenize(t) \/ Start(t) \/ Forget(t)
          PROVE  LinesOK' /\ UNCHANGED Queue!lineVars
        <2>1. accepted' = accepted /\ UNCHANGED ticket
            BY <1>4 DEF Tokenize, Start, Forget
        <2>2. \A u \in Queued : st'[u] \in Settled <=> st[u] \in Settled
            BY <1>4, <1>t DEF Tokenize, Start, Forget, Becomes, Settled
        <2> QED BY <2>1, <2>2, <1>2
    <1>5. ASSUME NEW t \in Tasks, Load(t) PROVE LinesOK' /\ [Queue!QueueNext]_(Queue!lineVars)
        <2>1. st[t] = "load" /\ accepted' = accepted /\ UNCHANGED ticket
            BY <1>5 DEF Load
        <2>2. PICK l \in {"submit", "failed"} : st' = [st EXCEPT ![t] = l]
            BY <1>5 DEF Load, Becomes
        <2>3. CASE l = "failed" /\ t \in Queued
            BY <2>1, <2>2, <2>3, <1>3 DEF Settled, InFlight
        <2>4. CASE l # "failed" \/ t \notin Queued
            <3>1. \A u \in Queued : st'[u] \in Settled <=> st[u] \in Settled
                BY <2>1, <2>2, <2>4, <1>t DEF Settled
            <3> QED BY <2>1, <3>1, <1>2
        <2> QED BY <2>3, <2>4
    <1>6. ASSUME NEW t \in Tasks, Submit(t) PROVE LinesOK' /\ [Queue!QueueNext]_(Queue!lineVars)
        <2>1. st[t] = "submit" /\ UNCHANGED ticket
            BY <1>6, <1>t, SubmitEnds
        <2>2. CASE t \in Queued /\ \E l \in Settled : st' = [st EXCEPT ![t] = l]
            BY <2>1, <2>2, <1>3, <1>6, <1>t, SubmitEnds DEF InFlight
        <2>3. CASE accepted' = accepted /\ ~(t \in Queued /\ \E l \in Settled : st' = [st EXCEPT ![t] = l])
            <3>1. \A u \in Queued : st'[u] \in Settled <=> st[u] \in Settled
                <4>1. PICK l \in {"load", "failed"} \cup Settled : st' = [st EXCEPT ![t] = l]
                    BY <1>6, <1>t, SubmitEnds
                <4> QED BY <2>1, <2>3, <4>1, <1>t DEF Settled
            <3> QED BY <2>1, <2>3, <3>1, <1>2
        <2>4. CASE accepted' = Append(accepted, t) /\ t \notin Queued
            <3>1. \A u \in Queued : st'[u] = st[u]
                <4>1. PICK l \in {"load", "failed"} \cup Settled : st' = [st EXCEPT ![t] = l]
                    BY <1>6, <1>t, SubmitEnds
                <4> QED BY <2>4, <4>1, <1>t
            <3>2. LinesOK' /\ Lines' = Lines
                BY <2>1, <3>1, <1>t, LinesStay
            <3>3. ~Queue!Logged(t)
                BY <2>1 DEF Queue!Logged, SubmitInv, AcceptedSettled, Settled
            <3> QED BY <2>4, <3>2, <3>3 DEF Queue!Outside, Queue!QueueNext, Queued
        <2> QED BY <2>2, <2>3, <2>4, <1>6, <1>t, SubmitEnds
    <1>7. CASE UNCHANGED submitVars
        BY <1>7, <1>2 DEF submitVars
    <1> QED BY <1>1, <1>4, <1>5, <1>6, <1>7 DEF SubmitNext, Progress

(***************************************************************************)
(* KeyedSerializer with its retries, lost answers and clean-up implements  *)
(* the line: for any number of processes and submissions, calls of a key   *)
(* reach the network one at a time, in call order, at most once, and every *)
(* settled call, failed or not, makes room for the next.                   *)
(***************************************************************************)
THEOREM RefinesSigningQueue == SubmitSpec => ImplementsSigningQueue
    <1>1. SubmitInit => SubmitInv /\ LinesOK /\ Queue!QueueInit
        <2> SUFFICES ASSUME SubmitInit PROVE SubmitInv /\ LinesOK /\ Queue!QueueInit
            OBVIOUS
        <2>1. SubmitInv
            BY SubmitInitial
        <2>2. \A k \in Keys : Waiting(k) = {}
            BY DEF SubmitInit, Waiting, Queued
        <2>3. InOrder(<<>>, {}, ticket)
            BY DEF InOrder
        <2>4. \A k \in Keys : Ordered(Waiting(k), ticket) = <<>>
            BY <2>2, <2>3, OneOrder
        <2>5. LinesOK
            BY <2>2, <2>3 DEF LinesOK
        <2>6. Lines = [k \in Keys |-> <<>>]
            BY <2>4 DEF Lines
        <2> QED BY <2>1, <2>5, <2>6 DEF SubmitInit, Queue!QueueInit
    <1>2. QueueInv /\ SubmitInv /\ LinesOK /\ [SubmitNext]_submitVars =>
              LinesOK' /\ [Queue!QueueNext]_(Queue!lineVars)
        BY RefinesNext
    <1>3. SubmitInv /\ [SubmitNext]_submitVars => SubmitInv'
        BY BooksStep
    <1>4. QueueInv /\ [SubmitNext]_submitVars => QueueInv'
        BY QueueStep
    <1> QED BY <1>1, <1>2, <1>3, <1>4, QueueInitial, PTL DEF SubmitSpec, ImplementsSigningQueue, Queue!QueueSpec

-----------------------------------------------------------------------------
(***************************************************************************)
(* Who pays for a retry.                                                   *)
(***************************************************************************)

\* The first n entries of q that are not of the queue of t.
Others(t, q, n) == {i \in 1..n : ~SameQueue(t, q[i])}

(***************************************************************************)
(* Every retry so far is matched by a submission of somebody else that the *)
(* network accepted; for a submission that is about to be sent, by one     *)
(* that was accepted before it loaded the account, and whatever was        *)
(* accepted since is not of its own queue.                                 *)
(***************************************************************************)
RetryInv ==
    /\ sequence = Len(accepted)
    /\ \A t \in Queued : attempt[t] <= Cardinality(Others(t, accepted, Len(accepted)))
    /\ \A t \in Queued : st[t] = "submit" =>
          /\ seq[t] <= sequence
          /\ attempt[t] <= Cardinality(Others(t, accepted, seq[t]))
          /\ \A i \in (seq[t] + 1)..sequence : ~SameQueue(t, accepted[i])

\* A longer prefix has no fewer entries of others, and more if the next is one.
LEMMA OthersMore ==
    ASSUME NEW t, NEW q, NEW m \in Nat, NEW n \in Nat, m <= n
    PROVE  /\ Cardinality(Others(t, q, m)) \in Nat
           /\ Cardinality(Others(t, q, n)) \in Nat
           /\ Cardinality(Others(t, q, m)) <= Cardinality(Others(t, q, n))
           /\ m < n /\ ~SameQueue(t, q[m + 1]) =>
                 Cardinality(Others(t, q, m)) + 1 <= Cardinality(Others(t, q, n))
    <1> DEFINE M == Others(t, q, m)
               N == Others(t, q, n)
    <1>1. IsFiniteSet(N) /\ M \subseteq N
        <2>1. IsFiniteSet(1..n)
            BY FS_Interval
        <2>2. N \subseteq 1..n
            BY DEF Others
        <2>3. 1..m \subseteq 1..n
            OBVIOUS
        <2>4. M \subseteq N
            BY <2>3 DEF Others
        <2> QED BY <2>1, <2>2, <2>4, FS_Subset
    <1>2. IsFiniteSet(M) /\ Cardinality(M) <= Cardinality(N)
        BY <1>1, FS_Subset
    <1>3. Cardinality(M) \in Nat /\ Cardinality(N) \in Nat
        BY <1>1, <1>2, FS_CardinalityType
    <1>4. ASSUME m < n, ~SameQueue(t, q[m + 1]) PROVE Cardinality(M) + 1 <= Cardinality(N)
        <2>1. m + 1 \in 1..n /\ m + 1 \notin 1..m
            BY <1>4
        <2>2. m + 1 \in N /\ m + 1 \notin M
            BY <1>4, <2>1 DEF Others
        <2>3. M \cup {m + 1} \subseteq N
            BY <1>1, <2>2
        <2>4. Cardinality(M \cup {m + 1}) = Cardinality(M) + 1
            BY <1>2, <2>2, FS_AddElement
        <2>5. Cardinality(M \cup {m + 1}) <= Cardinality(N)
            BY <1>1, <2>3, FS_Subset
        <2> QED BY <2>4, <2>5
    <1> QED BY <1>2, <1>3, <1>4

\* A submission appended to the list leaves the earlier prefixes alone.
LEMMA OthersAppend ==
    ASSUME NEW t, NEW q \in Seq(Tasks), NEW u \in Tasks, NEW n \in Nat, n <= Len(q)
    PROVE  Others(t, Append(q, u), n) = Others(t, q, n)
    <1>1. \A i \in 1..n : Append(q, u)[i] = q[i]
        OBVIOUS
    <1> QED BY <1>1 DEF Others

\* A retry follows a refusal; nothing is retried after an acceptance.
LEMMA RetryOnRefusal ==
    ASSUME SubmitTypeOK, NEW t \in Tasks, Submit(t)
    PROVE  \/ /\ GoodSequence(t)
              /\ sequence' = sequence + 1
              /\ accepted' = Append(accepted, t)
              /\ st' = [st EXCEPT ![t] = st'[t]]
              /\ st'[t] \in Settled
              /\ attempt' = attempt
           \/ /\ ~GoodSequence(t)
              /\ sequence' = sequence /\ accepted' = accepted
              /\ st' = [st EXCEPT ![t] = "load"]
              /\ attempt' = [attempt EXCEPT ![t] = @ + 1]
           \/ /\ sequence' = sequence /\ accepted' = accepted
              /\ st' = [st EXCEPT ![t] = "failed"]
              /\ attempt' = attempt
    <1>1. OnError(t, FALSE) => st' = [st EXCEPT ![t] = "failed"] /\ attempt' = attempt
        BY DEF OnError, Retries, Becomes
    <1>2. OnError(t, TRUE) => \/ /\ st' = [st EXCEPT ![t] = "load"]
                                 /\ attempt' = [attempt EXCEPT ![t] = @ + 1]
                              \/ st' = [st EXCEPT ![t] = "failed"] /\ attempt' = attempt
        BY DEF OnError, Becomes
    <1>3. ASSUME NEW l \in Settled, st' = [st EXCEPT ![t] = l]
          PROVE  st' = [st EXCEPT ![t] = st'[t]] /\ st'[t] \in Settled
        BY <1>3 DEF SubmitTypeOK
    <1>4. "ok" \in Settled /\ "failed" \in Settled
        BY DEF Settled
    <1> HIDE DEF Settled, GoodSequence, OnError
    <1> QED BY <1>1, <1>2, <1>3, <1>4 DEF Submit, Becomes

\* Every step keeps the account of the retries.
LEMMA RetryStep ==
    ASSUME SubmitTypeOK, OneInFlight, RetryInv, [SubmitNext]_submitVars
    PROVE  RetryInv'
    <1>0. /\ sequence \in Nat /\ accepted \in Seq(Tasks) /\ st \in [Tasks -> State]
          /\ seq \in [Tasks -> Nat] /\ attempt \in [Tasks -> Nat]
          /\ Queued \subseteq Tasks
        BY RetriesAssumption DEF SubmitTypeOK, Queued
    <1>1. ASSUME UNCHANGED <<sequence, accepted, seq, attempt>>,
                 NEW t \in Tasks, NEW l, l # "submit", st' = [st EXCEPT ![t] = l]
          PROVE  RetryInv'
        <2>1. \A u \in Queued : st'[u] = "submit" => st[u] = "submit"
            BY <1>0, <1>1
        <2> QED BY <2>1, <1>1 DEF RetryInv, Others
    <1>2. ASSUME NEW t \in Tasks, Run(t) \/ Tokenize(t) \/ Start(t) PROVE RetryInv'
        BY <1>1, <1>2, Zenon DEF Run, Tokenize, Start, Becomes
    <1>3. ASSUME NEW t \in Tasks, Forget(t) PROVE RetryInv'
        BY <1>3 DEF Forget, RetryInv, Others
    <1>4. ASSUME NEW t \in Tasks, Load(t) PROVE RetryInv'
        <2>1. CASE Becomes(t, "failed") /\ UNCHANGED seq
            BY <1>1, <1>4, <2>1, Zenon DEF Load, Becomes
        <2>2. CASE seq' = [seq EXCEPT ![t] = sequence] /\ Becomes(t, "submit")
            <3>1. UNCHANGED <<sequence, accepted, attempt>>
                BY <1>4 DEF Load
            <3>2. \A u \in Queued : u # t => st'[u] = st[u] /\ seq'[u] = seq[u]
                BY <1>0, <2>2 DEF Becomes
            <3>3. st'[t] = "submit" /\ seq'[t] = sequence
                BY <1>0, <2>2 DEF Becomes
            <3>4. (sequence + 1)..sequence = {}
                BY <1>0
            <3>5. sequence = Len(accepted) /\ sequence <= sequence
                BY <1>0 DEF RetryInv
            <3>6. ASSUME NEW u \in Queued, st'[u] = "submit"
                  PROVE  /\ seq'[u] <= sequence'
                         /\ attempt'[u] <= Cardinality(Others(u, accepted', seq'[u]))
                         /\ \A i \in (seq'[u] + 1)..sequence' : ~SameQueue(u, accepted'[i])
                <4>1. CASE u = t
                    BY <3>1, <3>3, <3>4, <3>5, <4>1 DEF RetryInv
                <4>2. CASE u # t
                    BY <3>1, <3>2, <3>6, <4>2 DEF RetryInv
                <4> QED BY <4>1, <4>2
            <3> QED BY <3>1, <3>5, <3>6 DEF RetryInv, Others
        <2> QED BY <1>4, <2>1, <2>2 DEF Load
    <1>5. ASSUME NEW t \in Tasks, Submit(t) PROVE RetryInv'
        <2>0. seq' = seq /\ st[t] = "submit"
            BY <1>5 DEF Submit
        <2>1. CASE /\ GoodSequence(t)
                   /\ sequence' = sequence + 1
                   /\ accepted' = Append(accepted, t)
                   /\ st' = [st EXCEPT ![t] = st'[t]]
                   /\ st'[t] \in Settled
                   /\ attempt' = attempt
            <3>1. /\ Len(accepted') = Len(accepted) + 1 /\ Len(accepted) \in Nat
                  /\ sequence' = Len(accepted') /\ sequence = Len(accepted)
                  /\ accepted'[sequence'] = t
                  /\ \A i \in 1..Len(accepted) : accepted'[i] = accepted[i]
                BY <1>0, <2>1 DEF RetryInv
            <3>2. ASSUME NEW u \in Queued
                  PROVE  attempt'[u] <= Cardinality(Others(u, accepted', Len(accepted')))
                <4>1. Others(u, accepted', Len(accepted)) = Others(u, accepted, Len(accepted))
                    BY <1>0, <2>1, <3>1, OthersAppend
                <4>2. /\ Cardinality(Others(u, accepted', Len(accepted))) \in Nat
                      /\ Cardinality(Others(u, accepted', Len(accepted'))) \in Nat
                      /\ Cardinality(Others(u, accepted', Len(accepted)))
                            <= Cardinality(Others(u, accepted', Len(accepted')))
                    BY <3>1, OthersMore
                <4>3. attempt[u] <= Cardinality(Others(u, accepted, Len(accepted))) /\ attempt[u] \in Nat
                    BY <1>0 DEF RetryInv
                <4> QED BY <2>1, <4>1, <4>2, <4>3
            <3>3. ASSUME NEW u \in Queued, st'[u] = "submit"
                  PROVE  /\ seq'[u] <= sequence'
                         /\ attempt'[u] <= Cardinality(Others(u, accepted', seq'[u]))
                         /\ \A i \in (seq'[u] + 1)..sequence' : ~SameQueue(u, accepted'[i])
                <4>1. u # t /\ st[u] = "submit"
                    <5>1. st'[t] # "submit"
                        BY <2>1 DEF Settled
                    <5> QED BY <1>0, <2>1, <3>3, <5>1
                <4>2. ~SameQueue(u, t)
                    <5>1. st[t] \notin Settled \cup {"new", "waiting"} /\ st[u] \in InFlight
                        BY <2>0, <4>1 DEF Settled, InFlight
                    <5> QED BY <1>0, <4>1, <5>1 DEF OneInFlight
                <4>3. /\ seq[u] \in Nat /\ seq[u] <= sequence
                      /\ attempt[u] <= Cardinality(Others(u, accepted, seq[u]))
                      /\ \A i \in (seq[u] + 1)..sequence : ~SameQueue(u, accepted[i])
                    BY <1>0, <4>1 DEF RetryInv
                <4>4. Others(u, accepted', seq[u]) = Others(u, accepted, seq[u])
                    BY <1>0, <2>1, <3>1, <4>3, OthersAppend
                <4>5. ASSUME NEW i \in (seq[u] + 1)..sequence' PROVE ~SameQueue(u, accepted'[i])
                    <5>1. i = sequence' \/ (i \in (seq[u] + 1)..sequence /\ i \in 1..Len(accepted))
                        BY <3>1, <4>3
                    <5> QED BY <3>1, <4>2, <4>3, <5>1
                <4>6. seq[u] <= sequence'
                    BY <3>1, <4>3
                <4> QED BY <2>0, <2>1, <4>3, <4>4, <4>5, <4>6
            <3> QED BY <3>1, <3>2, <3>3 DEF RetryInv, Others
        <2>2. CASE /\ ~GoodSequence(t)
                   /\ sequence' = sequence /\ accepted' = accepted
                   /\ st' = [st EXCEPT ![t] = "load"]
                   /\ attempt' = [attempt EXCEPT ![t] = @ + 1]
            <3>1. \A u \in Queued : st'[u] = "submit" => u # t /\ st[u] = "submit"
                BY <1>0, <2>2
            <3>2. \A u \in Queued : u # t => attempt'[u] = attempt[u]
                BY <1>0, <2>2
            <3>3. ASSUME t \in Queued
                  PROVE  attempt'[t] <= Cardinality(Others(t, accepted, Len(accepted)))
                <4>1. /\ seq[t] \in Nat /\ seq[t] <= sequence
                      /\ attempt[t] <= Cardinality(Others(t, accepted, seq[t]))
                      /\ \A i \in (seq[t] + 1)..sequence : ~SameQueue(t, accepted[i])
                      /\ sequence = Len(accepted) /\ Len(accepted) \in Nat
                    BY <1>0, <2>0, <3>3 DEF RetryInv
                <4>2. seq[t] < sequence /\ seq[t] + 1 \in (seq[t] + 1)..sequence
                    BY <1>0, <2>2, <4>1 DEF GoodSequence
                <4>3. /\ Cardinality(Others(t, accepted, seq[t])) \in Nat
                      /\ Cardinality(Others(t, accepted, Len(accepted))) \in Nat
                      /\ Cardinality(Others(t, accepted, seq[t])) + 1
                            <= Cardinality(Others(t, accepted, Len(accepted)))
                    BY <4>1, <4>2, OthersMore
                <4>4. attempt'[t] = attempt[t] + 1 /\ attempt[t] \in Nat
                    BY <1>0, <2>2
                <4> QED BY <4>1, <4>3, <4>4
            <3> QED BY <2>0, <2>2, <3>1, <3>2, <3>3 DEF RetryInv, Others
        <2>3. CASE /\ sequence' = sequence /\ accepted' = accepted
                   /\ st' = [st EXCEPT ![t] = "failed"]
                   /\ attempt' = attempt
            BY <1>1, <2>0, <2>3, Zenon
        <2> QED BY <1>5, <2>1, <2>2, <2>3, RetryOnRefusal
    <1>6. CASE UNCHANGED submitVars
        BY <1>6 DEF submitVars, RetryInv, Others
    <1> QED BY <1>2, <1>3, <1>4, <1>5, <1>6 DEF SubmitNext, Progress

(***************************************************************************)
(* The bad-sequence retries of submitManageData are never more than the    *)
(* submissions from outside its queue that the network accepted: the queue *)
(* spares a submission every race with its own process, whatever the       *)
(* number of processes and of direct submissions.                          *)
(***************************************************************************)
THEOREM OthersPayRetries == SubmitSpec => []RetriesPaidByOthers
    <1>1. SubmitInit => RetryInv
        <2> SUFFICES ASSUME SubmitInit PROVE RetryInv
            OBVIOUS
        <2>1. \A t \in Queued : attempt[t] = 0 /\ st[t] # "submit"
            BY DEF SubmitInit, Queued
        <2>2. \A t : Cardinality(Others(t, accepted, 0)) \in Nat
            BY OthersMore
        <2>3. sequence = 0 /\ Len(accepted) = 0
            BY DEF SubmitInit
        <2> QED BY <2>1, <2>2, <2>3 DEF RetryInv
    <1>2. QueueInv => OneInFlight /\ SubmitTypeOK
        BY QueueExcludes DEF QueueInv
    <1>3. SubmitTypeOK /\ OneInFlight /\ RetryInv /\ [SubmitNext]_submitVars => RetryInv'
        BY RetryStep
    <1>4. SubmitTypeOK /\ RetryInv => RetriesPaidByOthers
        <2> SUFFICES ASSUME SubmitTypeOK, RetryInv PROVE RetriesPaidByOthers
            OBVIOUS
        <2>1. DOMAIN accepted = 1..Len(accepted)
            BY DEF SubmitTypeOK
        <2> QED BY <2>1 DEF RetryInv, Others, RetriesPaidByOthers
    <1>5. QueueInv /\ [SubmitNext]_submitVars => QueueInv'
        BY QueueStep
    <1> QED BY <1>1, <1>2, <1>3, <1>4, <1>5, QueueInitial, PTL DEF SubmitSpec

-----------------------------------------------------------------------------
(* Anchored readings. *)

(***************************************************************************)
(* The part of the state the proof is about.  The queue's bookkeeping      *)
(* (attempts, stalls, leases) is arbitrary: the result does not rest on    *)
(* it.                                                                     *)
(***************************************************************************)
Types ==
    /\ anchor \in [Readings -> AnchorStatus \cup {"absent"}]
    /\ tx \in [Readings -> Nat]
    /\ chain \in Seq(Readings)
    /\ pc \in [Handlers -> PC]
    /\ work \in [Handlers -> Readings \cup {None}]
    /\ mine \in [Handlers -> Nat]

\* The invariant is inductive with these types alone.
AnchorInv == Types /\ HandlerOK /\ AnchoredIsOnChain

\* The initial state satisfies the invariant: nothing is stored or in flight.
LEMMA AnchorInit == Init => AnchorInv
  BY NoReadingAssumption DEF Init, AnchorInv, Types, HandlerOK, AnchoredIsOnChain, AnchorStatus, PC

\* Transactions are only ever added to the chain, so a hash stays valid.
LEMMA ChainGrows ==
  ASSUME NEW r \in Readings, chain \in Seq(Readings), chain' = Append(chain, r)
  PROVE  /\ chain' \in Seq(Readings)
         /\ Len(chain') = Len(chain) + 1
         /\ Len(chain) \in Nat
         /\ chain'[Len(chain) + 1] = r
         /\ \A k \in 1..Len(chain) : k \in 1..Len(chain') /\ chain'[k] = chain[k]
  OBVIOUS

\* A step that leaves documents, chain and handlers alone.
LEMMA AnchorFrame ==
  ASSUME AnchorInv, UNCHANGED <<anchor, tx, chain, pc, work, mine>>
  PROVE  AnchorInv'
  BY DEF AnchorInv, Types, HandlerOK, AnchoredIsOnChain

\* Every step of the queue, of a handler or of a request preserves it.
LEMMA AnchorNext == AnchorInv /\ [Next]_vars => AnchorInv'
<1> SUFFICES ASSUME AnchorInv, [Next]_vars PROVE AnchorInv'
  OBVIOUS
<1> USE DEF AnchorInv
<1>1. ASSUME NEW r \in Readings, Store(r) PROVE AnchorInv'
  BY <1>1 DEF Store, Types, HandlerOK, AnchoredIsOnChain, AnchorStatus, jobVars, slotVars
<1>2. ASSUME NEW r \in Readings, Push(r) PROVE AnchorInv'
  BY <1>2, AnchorFrame DEF Push, docVars, slotVars
<1>3. ASSUME NEW r \in Readings, Delete(r) PROVE AnchorInv'
  BY <1>3, AnchorFrame DEF Delete, jobVars, slotVars
<1>4. ASSUME NEW r \in Readings, LeaseExpires(r) PROVE AnchorInv'
  BY <1>4, AnchorFrame DEF LeaseExpires, docVars, slotVars
<1>5. ASSUME NEW h \in Handlers, NEW r \in Readings, Take(h, r) PROVE AnchorInv'
  BY <1>5 DEF Take, Goto, Types, HandlerOK, AnchoredIsOnChain, PC, docVars
<1>6. ASSUME NEW h \in Handlers, AnchorEvent(h) PROVE AnchorInv'
  <2>1. pc[h] = "anchor" /\ work[h] \in Readings
    BY <1>6 DEF AnchorEvent, HandlerOK
  <2>2. CASE chain' = Append(chain, work[h])
    <3>1. /\ chain' \in Seq(Readings)
          /\ Len(chain') = Len(chain) + 1
          /\ Len(chain) \in Nat
          /\ chain'[Len(chain) + 1] = work[h]
          /\ \A k \in 1..Len(chain) : k \in 1..Len(chain') /\ chain'[k] = chain[k]
      BY <2>1, <2>2, ChainGrows DEF Types
    <3>2. anchor' = anchor /\ tx' = tx /\ work' = work
      BY <1>6 DEF AnchorEvent, docVars
    <3>3. \/ mine' = [mine EXCEPT ![h] = Len(chain) + 1] /\ pc' = [pc EXCEPT ![h] = "persist"]
          \/ mine' = mine /\ pc' = [pc EXCEPT ![h] = "mark"]
      BY <1>6 DEF AnchorEvent, AnchorError, Goto
    <3>4. Types'
      <4>1. mine' \in [Handlers -> Nat]
        <5>1. mine \in [Handlers -> Nat] /\ Len(chain) + 1 \in Nat
          BY <3>1 DEF Types
        <5>2. mine' = [mine EXCEPT ![h] = Len(chain) + 1] \/ mine' = mine
          BY <3>3
        <5> QED
          BY <5>1, <5>2
      <4>2. pc' \in [Handlers -> PC]
        BY <3>3 DEF Types, PC
      <4> QED
        BY <3>1, <3>2, <4>1, <4>2 DEF Types
    <3>5. AnchoredIsOnChain'
      BY <3>1, <3>2 DEF AnchoredIsOnChain
    <3>6. HandlerOK'
      <4> SUFFICES ASSUME NEW g \in Handlers
                   PROVE  /\ pc'[g] # "idle" => work'[g] \in Readings
                          /\ pc'[g] = "persist" => mine'[g] \in 1..Len(chain')
                                                   /\ chain'[mine'[g]] = work'[g]
        BY DEF HandlerOK
      <4>1. CASE g = h
        BY <4>1, <2>1, <3>1, <3>2, <3>3 DEF Types
      <4>2. CASE g # h
        <5>1. pc'[g] = pc[g] /\ mine'[g] = mine[g] /\ work'[g] = work[g]
          BY <4>2, <3>2, <3>3 DEF Types
        <5> QED
          BY <5>1, <3>1 DEF HandlerOK
      <4> QED
        BY <4>1, <4>2
    <3> QED
      BY <3>4, <3>5, <3>6
  <2>3. CASE UNCHANGED <<chain, mine>> /\ AnchorError(h)
    BY <1>6, <2>1, <2>3
    DEF AnchorEvent, AnchorError, Goto, Types, HandlerOK, AnchoredIsOnChain, PC, docVars
  <2> QED
    BY <1>6, <2>2, <2>3 DEF AnchorEvent
<1>7. ASSUME NEW h \in Handlers, Persist(h) PROVE AnchorInv'
  <2>1. /\ pc[h] = "persist"
        /\ work[h] \in Readings
        /\ mine[h] \in 1..Len(chain)
        /\ chain[mine[h]] = work[h]
    BY <1>7 DEF Persist, HandlerOK
  <2>2. chain' = chain /\ work' = work /\ mine' = mine
    BY <1>7 DEF Persist
  <2>3. pc' = [pc EXCEPT ![h] = "succeed"] \/ pc' = [pc EXCEPT ![h] = "mark"]
    BY <1>7 DEF Persist, PersistError, Goto
  <2>4. \/ anchor' = anchor /\ tx' = tx
        \/ /\ anchor' = [anchor EXCEPT ![work[h]] = "ANCHORED"]
           /\ tx' = [tx EXCEPT ![work[h]] = mine[h]]
    BY <1>7 DEF Persist
  <2>5. Types'
    BY <2>1, <2>2, <2>3, <2>4 DEF Types, PC, AnchorStatus
  <2>6. HandlerOK'
    BY <2>1, <2>2, <2>3 DEF HandlerOK, Types
  <2>7. AnchoredIsOnChain'
    <3>1. mine[h] # 0
      BY <2>1 DEF Types
    <3> QED
      BY <2>1, <2>2, <2>4, <3>1 DEF AnchoredIsOnChain, Types
  <2> QED
    BY <2>5, <2>6, <2>7
<1>8. ASSUME NEW h \in Handlers, MarkFailed(h) PROVE AnchorInv'
  <2>1. work[h] \in Readings
    BY <1>8 DEF MarkFailed, HandlerOK
  <2>2. /\ chain' = chain /\ work' = work /\ mine' = mine /\ tx' = tx
        /\ pc' = [pc EXCEPT ![h] = "fail"]
    BY <1>8 DEF MarkFailed, Goto
  <2>3. anchor' = anchor \/ anchor' = [anchor EXCEPT ![work[h]] = "ANCHOR_FAILED"]
    BY <1>8, <2>1 DEF MarkFailed, Types
  <2>4. Types' /\ HandlerOK'
    BY <2>1, <2>2, <2>3 DEF Types, HandlerOK, PC, AnchorStatus
  <2>5. AnchoredIsOnChain'
    BY <2>1, <2>2, <2>3 DEF AnchoredIsOnChain, Types
  <2> QED
    BY <2>4, <2>5
<1>9. ASSUME NEW h \in Handlers, Report(h) PROVE AnchorInv'
  <2>1. /\ pc' = [pc EXCEPT ![h] = "idle"]
        /\ work' = [work EXCEPT ![h] = None]
        /\ mine' = [mine EXCEPT ![h] = 0]
        /\ anchor' = anchor /\ tx' = tx /\ chain' = chain
    BY <1>9 DEF Report, Goto, docVars
  <2> QED
    BY <2>1 DEF Types, HandlerOK, AnchoredIsOnChain, PC
<1>10. ASSUME Crash PROVE AnchorInv'
  BY <1>10 DEF Crash, Types, HandlerOK, AnchoredIsOnChain, PC, docVars
<1>11. CASE UNCHANGED vars
  BY <1>11, AnchorFrame DEF vars
<1> QED
  BY <1>1, <1>2, <1>3, <1>4, <1>5, <1>6, <1>7, <1>8, <1>9, <1>10, <1>11 DEF Next, Step

(***************************************************************************)
(* A stored hash belongs to a confirmed transaction of that reading, and   *)
(* an ANCHORED reading has one, whatever the worker's retries, the expired *)
(* leases and the crashes do (processStellarAnchor writes the hash only    *)
(* after anchorEvent returned it).                                         *)
(***************************************************************************)
THEOREM AnchorSound == Spec => []AnchoredIsOnChain
<1>1. AnchorInv => AnchoredIsOnChain
  BY DEF AnchorInv
<1> QED
  BY AnchorInit, AnchorNext, <1>1, PTL DEF Spec

(***************************************************************************)
(* updateTelemetryAnchor stores a real hash and markTelemetryAnchorFailed  *)
(* leaves it: a stored hash is never cleared.                              *)
(***************************************************************************)
THEOREM AnchorStays == Spec => AnchorKept
<1> DEFINE Kept == \A r \in Readings : tx[r] # 0 => tx'[r] # 0
<1>1. ASSUME AnchorInv, [Next]_vars PROVE [Kept]_vars
  <2>1. ASSUME NEW h \in Handlers, Persist(h) PROVE Kept
    <3>1. mine[h] # 0 /\ work[h] \in Readings
      BY <1>1, <2>1 DEF Persist, AnchorInv, HandlerOK, Types
    <3>2. tx' = tx \/ tx' = [tx EXCEPT ![work[h]] = mine[h]]
      BY <2>1 DEF Persist
    <3> QED
      BY <1>1, <3>1, <3>2 DEF AnchorInv, Types
  <2>2. ASSUME ~\E h \in Handlers : Persist(h), Next PROVE tx' = tx
    BY <2>2 DEF Next, Step, Store, Push, Delete, LeaseExpires, Take, AnchorEvent, MarkFailed,
                Report, Crash, docVars
  <2> QED
    BY <1>1, <2>1, <2>2
<1> QED
  BY AnchorInit, AnchorNext, <1>1, PTL DEF Spec, AnchorKept
(***************************************************************************)
(* The job is completed last: what a handler that returned has recorded is *)
(* there when its report arrives, however late.                            *)
(***************************************************************************)
Recorded(r) == tx[r] # 0 \/ deleted[r]

RecordInv ==
    /\ job \in [Readings -> JobState]
    /\ deleted \in [Readings -> BOOLEAN]
    /\ \A h \in Handlers : pc[h] = "succeed" => Recorded(work[h])
    /\ CompletedIsRecorded

\* Nothing that was recorded is taken back.
LEMMA RecordedStays ==
  ASSUME AnchorInv, RecordInv, [Next]_vars, NEW r \in Readings, Recorded(r)
  PROVE  Recorded(r)'
<1>1. ASSUME NEW h \in Handlers, Persist(h) PROVE Recorded(r)'
  <2>1. mine[h] # 0 /\ work[h] \in Readings
    BY <1>1 DEF Persist, AnchorInv, HandlerOK, Types
  <2>2. deleted' = deleted /\ (tx' = tx \/ tx' = [tx EXCEPT ![work[h]] = mine[h]])
    BY <1>1 DEF Persist
  <2> QED
    BY <2>1, <2>2 DEF Recorded, AnchorInv, Types
<1>2. ASSUME NEW x \in Readings, Delete(x) PROVE Recorded(r)'
  BY <1>2 DEF Delete, Recorded, RecordInv
<1>3. CASE UNCHANGED <<tx, deleted>>
  BY <1>3 DEF Recorded
<1>4. ASSUME ~\E h \in Handlers : Persist(h), ~\E x \in Readings : Delete(x), [Next]_vars
      PROVE  UNCHANGED <<tx, deleted>>
  BY <1>4 DEF Next, Step, Store, Push, LeaseExpires, Take, AnchorEvent, MarkFailed, Report, Crash,
              docVars, vars
<1> QED
  BY <1>1, <1>2, <1>3, <1>4

\* Every step preserves it; only a report completes a job.
LEMMA RecordNext == AnchorInv /\ RecordInv /\ [Next]_vars => RecordInv'
<1> SUFFICES ASSUME AnchorInv, RecordInv, [Next]_vars PROVE RecordInv'
  OBVIOUS
<1>s. \A r \in Readings : Recorded(r) => Recorded(r)'
  BY RecordedStays
<1>t. /\ job \in [Readings -> JobState] /\ deleted \in [Readings -> BOOLEAN]
      /\ pc \in [Handlers -> PC] /\ work \in [Handlers -> Readings \cup {None}]
      /\ \A h \in Handlers : pc[h] # "idle" => work[h] \in Readings
  BY DEF AnchorInv, Types, HandlerOK, RecordInv
<1>1. deleted' \in [Readings -> BOOLEAN]
  BY <1>t DEF Next, Step, Store, Push, Delete, LeaseExpires, Take, AnchorEvent, Persist, MarkFailed,
              Report, Crash, docVars, vars
<1>2. ASSUME NEW g \in Handlers, pc'[g] = "succeed" PROVE Recorded(work[g])'
  <2>1. CASE \E h \in Handlers : Persist(h)
    <3>1. PICK h \in Handlers : Persist(h)
      BY <2>1
    <3>2. CASE g = h
      <4>1. work[h] \in Readings /\ mine[h] # 0 /\ tx \in [Readings -> Nat]
        BY <3>1 DEF Persist, AnchorInv, HandlerOK, Types
      <4>2. /\ deleted' = deleted /\ work' = work
            /\ deleted[work[h]] \/ tx' = [tx EXCEPT ![work[h]] = mine[h]]
        BY <3>1, <3>2, <1>2, <1>t DEF Persist, PersistError, Goto
      <4> QED
        BY <3>2, <4>1, <4>2 DEF Recorded
    <3>3. CASE g # h
      <4>1. pc[g] = "succeed" /\ work'[g] = work[g]
        BY <3>1, <3>3, <1>2, <1>t DEF Persist, PersistError, Goto
      <4> QED
        BY <4>1, <1>s, <1>t DEF RecordInv, Recorded
    <3> QED
      BY <3>2, <3>3
  <2>2. CASE ~\E h \in Handlers : Persist(h)
    <3>1. pc[g] = "succeed" /\ work'[g] = work[g]
      BY <2>2, <1>2, <1>t
      DEF Next, Step, Store, Push, Delete, LeaseExpires, Take, AnchorEvent, AnchorError, MarkFailed,
          Report, Crash, Goto, slotVars, vars
    <3> QED
      BY <3>1, <1>s, <1>t DEF RecordInv, Recorded
  <2> QED
    BY <2>1, <2>2
<1>3. job' \in [Readings -> JobState] /\ CompletedIsRecorded'
  <2>1. ASSUME NEW h \in Handlers, Report(h) PROVE job' \in [Readings -> JobState] /\ CompletedIsRecorded'
    <3>1. work[h] \in Readings /\ pc[h] \in {"succeed", "fail"} /\ UNCHANGED <<tx, deleted>>
      BY <2>1, <1>t DEF Report, docVars
    <3>2. \/ job' = job
          \/ job' = [job EXCEPT ![work[h]] = IF pc[h] = "succeed" THEN "completed"
                                             ELSE AfterFailure(work[h])]
      BY <2>1 DEF Report
    <3>3. AfterFailure(work[h]) \in JobState \ {"completed"}
      BY DEF AfterFailure, JobState
    <3> QED
      BY <3>1, <3>2, <3>3, <1>t DEF RecordInv, Recorded, CompletedIsRecorded, JobState
  <2>2. ASSUME ~\E h \in Handlers : Report(h)
        PROVE  /\ job' \in [Readings -> JobState]
               /\ \A r \in Readings : job'[r] = "completed" => job[r] = "completed"
    BY <2>2, <1>t
    DEF Next, Step, Store, Push, Delete, LeaseExpires, Stalled, Take, AnchorEvent, Persist, MarkFailed,
        Crash, JobState, jobVars, vars
  <2> QED
    BY <2>1, <2>2, <1>s DEF RecordInv, Recorded, CompletedIsRecorded
<1> QED
  BY <1>1, <1>2, <1>3 DEF RecordInv

(***************************************************************************)
(* A completed job has left a hash on its reading, or the reading was      *)
(* deleted: neither a late report nor a crash completes a job whose result *)
(* was not stored.                                                         *)
(***************************************************************************)
THEOREM CompletionSound == Spec => []CompletedIsRecorded
<1>1. Init => RecordInv
  BY DEF Init, RecordInv, CompletedIsRecorded, JobState
<1>2. RecordInv => CompletedIsRecorded
  BY DEF RecordInv
<1> QED
  BY AnchorInit, AnchorNext, RecordNext, <1>1, <1>2, PTL DEF Spec

-----------------------------------------------------------------------------
(***************************************************************************)
(* What an anchored reading costs.                                         *)
(***************************************************************************)

\* The job's bookkeeping: failed attempts and expired leases stay in their limits.
JobInv ==
    /\ ingest \in [Readings -> {"new", "push", "accepted", "error"}]
    /\ job \in [Readings -> JobState]
    /\ tries \in [Readings -> Nat]
    /\ stalls \in [Readings -> Nat]
    /\ \A r \in Readings :
          /\ ingest[r] \in {"new", "push"} => job[r] = "none"
          /\ job[r] = "none" => tries[r] = 0 /\ stalls[r] = 0
          /\ job[r] \in {"waiting", "active", "completed"} =>
                tries[r] < Attempts /\ stalls[r] <= MaxStalls
          /\ job[r] = "failed" => tries[r] + stalls[r] <= Attempts + MaxStalls

\* Times the job was handed out: failed attempts, expired leases, and the last one.
Handed(j, t, s) == t + s + (IF j \in {"active", "completed"} THEN 1 ELSE 0)
HandedOut(r) == Handed(job[r], tries[r], stalls[r])

\* A completed hand-out is counted as before; taking a job adds one.
LEMMA HandedSame ==
  ASSUME NEW t \in Nat, NEW s \in Nat
  PROVE  /\ Handed("active", t, s) = Handed("completed", t, s)
         /\ Handed("active", t, s) = Handed("waiting", t, s) + 1
         /\ Handed("none", t, s) = Handed("waiting", t, s)
         /\ \A j : Handed(j, t, s) \in Nat
  BY DEF Handed

\* Every step keeps the bookkeeping; one that takes no job hands none out.
LEMMA JobNext ==
  ASSUME AnchorInv, JobInv, [Next]_vars
  PROVE  /\ JobInv'
         /\ \/ \A r \in Readings : HandedOut(r)' = HandedOut(r)
            \/ \E h \in Handlers, r \in Readings : Take(h, r)
<1> DEFINE Same == \A r \in Readings : HandedOut(r)' = HandedOut(r)
<1>t. /\ ingest \in [Readings -> {"new", "push", "accepted", "error"}]
      /\ job \in [Readings -> JobState] /\ tries \in [Readings -> Nat] /\ stalls \in [Readings -> Nat]
      /\ \A h \in Handlers : pc[h] # "idle" => work[h] \in Readings
      /\ Attempts \in Nat /\ MaxStalls \in Nat /\ Attempts # 0
  BY AttemptsAssumption, MaxStallsAssumption DEF JobInv, AnchorInv, HandlerOK
<1>1. ASSUME NEW x \in Readings, Store(x) PROVE JobInv' /\ Same
  BY <1>1, <1>t DEF Store, JobInv, jobVars, HandedOut
<1>2. ASSUME NEW x \in Readings, Push(x) PROVE JobInv' /\ Same
  <2>1. UNCHANGED <<tries, stalls>> /\ job[x] = "none" /\ tries[x] = 0 /\ stalls[x] = 0
    BY <1>2 DEF Push, JobInv
  <2>2. CASE job' = [job EXCEPT ![x] = "waiting"] /\ ingest' = [ingest EXCEPT ![x] = "accepted"]
    <3>1. JobInv'
      <4>1. job' \in [Readings -> JobState] /\ job'[x] = "waiting"
        BY <2>2, <1>t DEF JobState
      <4>2. \A r \in Readings : r # x => job'[r] = job[r] /\ ingest'[r] = ingest[r]
        BY <2>2, <1>t
      <4>3. /\ ingest' \in [Readings -> {"new", "push", "accepted", "error"}]
            /\ ingest'[x] = "accepted" /\ tries[x] < Attempts /\ stalls[x] <= MaxStalls
        BY <2>1, <2>2, <1>t DEF JobInv
      <4> QED
        BY <2>1, <4>1, <4>2, <4>3, <1>t DEF JobInv
    <3>2. Same
      <4>1. HandedOut(x)' = HandedOut(x)
        <5>1. Handed("none", tries[x], stalls[x]) = Handed("waiting", tries[x], stalls[x])
          BY <1>t, HandedSame
        <5>2. job'[x] = "waiting"
          BY <2>2, <1>t
        <5> QED
          BY <2>1, <5>1, <5>2 DEF HandedOut
      <4>2. \A r \in Readings \ {x} : HandedOut(r)' = HandedOut(r)
        BY <2>1, <2>2, <1>t DEF HandedOut
      <4> QED
        BY <4>1, <4>2
    <3> QED
      BY <3>1, <3>2
  <2>3. CASE job' = job /\ ingest' = [ingest EXCEPT ![x] = "error"]
    BY <2>1, <2>3, <1>t DEF JobInv, HandedOut
  <2> QED
    BY <1>2, <2>2, <2>3 DEF Push
<1>3. ASSUME NEW x \in Readings, LeaseExpires(x) PROVE JobInv' /\ Same
  <2>1. /\ job[x] = "active" /\ tries' = tries /\ ingest' = ingest
        /\ job' = [job EXCEPT ![x] = Stalled(x)]
        /\ stalls' = [stalls EXCEPT ![x] = stalls[x] + 1]
    BY <1>3 DEF LeaseExpires
  <2>2. /\ Stalled(x) \in {"waiting", "failed"}
        /\ tries[x] < Attempts /\ stalls[x] <= MaxStalls
        /\ Stalled(x) = "waiting" => stalls[x] + 1 <= MaxStalls
        /\ tries[x] + (stalls[x] + 1) <= Attempts + MaxStalls
    BY <2>1, <1>t DEF JobInv, Stalled
  <2>3. JobInv'
    <3>1. job' \in [Readings -> JobState] /\ stalls' \in [Readings -> Nat]
      BY <2>1, <2>2, <1>t DEF JobState
    <3>2. job'[x] = Stalled(x) /\ stalls'[x] = stalls[x] + 1
      BY <2>1, <1>t
    <3>3. \A r \in Readings : r # x => job'[r] = job[r] /\ stalls'[r] = stalls[r]
      BY <2>1, <1>t
    <3>4. ingest[x] \notin {"new", "push"}
      BY <2>1 DEF JobInv
    <3> HIDE DEF Stalled
    <3> QED
      BY <2>1, <2>2, <3>1, <3>2, <3>3, <3>4, <1>t DEF JobInv
  <2>4. Same
    <3>1. HandedOut(x)' = HandedOut(x)
      <4>1. Handed("active", tries[x], stalls[x]) = Handed(Stalled(x), tries[x], stalls[x] + 1)
        <5>1. tries[x] \in Nat /\ stalls[x] \in Nat
          BY <1>t
        <5> QED
          BY <2>2, <5>1 DEF Handed
      <4>2. job'[x] = Stalled(x) /\ stalls'[x] = stalls[x] + 1
        BY <2>1, <1>t
      <4> QED
        BY <2>1, <4>1, <4>2 DEF HandedOut
    <3>2. \A r \in Readings \ {x} : HandedOut(r)' = HandedOut(r)
      BY <2>1, <1>t DEF HandedOut
    <3> QED
      BY <3>1, <3>2
  <2> QED
    BY <2>3, <2>4
<1>4. ASSUME NEW h \in Handlers, NEW x \in Readings, Take(h, x) PROVE JobInv'
  BY <1>4, <1>t DEF Take, JobInv, JobState
<1>5. ASSUME NEW h \in Handlers, Report(h) PROVE JobInv' /\ Same
  <2>p. work[h] \in Readings /\ ingest' = ingest /\ stalls' = stalls
    BY <1>5, <1>t DEF Report
  <2>x. PICK x \in Readings : x = work[h]
    BY <2>p
  <2>0. x = work[h] /\ ingest' = ingest /\ stalls' = stalls
    BY <2>p, <2>x
  <2>1. CASE ~HoldsLease(h)
    <3>1. UNCHANGED <<job, tries>>
      BY <1>5, <2>1 DEF Report
    <3> QED
      BY <2>0, <3>1 DEF JobInv, HandedOut
  <2>2. CASE HoldsLease(h) /\ pc[h] = "succeed"
    <3>1. job' = [job EXCEPT ![x] = "completed"] /\ tries' = [tries EXCEPT ![x] = tries[x]] /\ job[x] = "active"
      BY <1>5, <2>0, <2>2 DEF Report, HoldsLease
    <3>2. tries' = tries
      BY <3>1, <1>t
    <3>3. JobInv'
      BY <2>0, <3>1, <3>2, <1>t DEF JobInv, JobState
    <3>4. HandedOut(x)' = HandedOut(x)
      <4>1. Handed("completed", tries[x], stalls[x]) = Handed("active", tries[x], stalls[x])
        BY <1>t, HandedSame
      <4>2. job'[x] = "completed"
        BY <3>1, <1>t
      <4> QED
        BY <2>0, <3>1, <3>2, <4>1, <4>2 DEF HandedOut
    <3>5. \A r \in Readings \ {x} : HandedOut(r)' = HandedOut(r)
      BY <2>0, <3>1, <3>2, <1>t DEF HandedOut
    <3> QED
      BY <3>3, <3>4, <3>5
  <2>3. CASE HoldsLease(h) /\ pc[h] # "succeed"
    <3>1. /\ job' = [job EXCEPT ![x] = AfterFailure(x)]
          /\ tries' = [tries EXCEPT ![x] = tries[x] + 1]
          /\ job[x] = "active"
      BY <1>5, <2>0, <2>3 DEF Report, HoldsLease
    <3>2. /\ AfterFailure(x) \in {"waiting", "failed"}
          /\ tries[x] < Attempts /\ stalls[x] <= MaxStalls
          /\ AfterFailure(x) = "waiting" => tries[x] + 1 < Attempts
          /\ (tries[x] + 1) + stalls[x] <= Attempts + MaxStalls
      BY <2>0, <3>1, <1>t DEF JobInv, AfterFailure
    <3>3. JobInv'
      <4>1. job' \in [Readings -> JobState] /\ tries' \in [Readings -> Nat]
        BY <2>0, <3>1, <3>2, <1>t DEF JobState
      <4>2. job'[x] = AfterFailure(x) /\ tries'[x] = tries[x] + 1
        BY <2>0, <3>1, <1>t
      <4>3. \A r \in Readings : r # x => job'[r] = job[r] /\ tries'[r] = tries[r]
        BY <2>0, <3>1, <1>t
      <4>4. ingest[x] \notin {"new", "push"}
        BY <2>0, <3>1 DEF JobInv
      <4> HIDE DEF AfterFailure
      <4> QED
        BY <2>0, <3>1, <3>2, <4>1, <4>2, <4>3, <4>4, <1>t DEF JobInv
    <3>4. HandedOut(x)' = HandedOut(x)
      <4>1. Handed("active", tries[x], stalls[x]) = Handed(AfterFailure(x), tries[x] + 1, stalls[x])
        <5>1. tries[x] \in Nat /\ stalls[x] \in Nat
          BY <1>t
        <5> QED
          BY <3>2, <5>1 DEF Handed
      <4>2. job'[x] = AfterFailure(x) /\ tries'[x] = tries[x] + 1
        BY <3>1, <1>t
      <4> QED
        BY <2>0, <3>1, <4>1, <4>2 DEF HandedOut
    <3>5. \A r \in Readings \ {x} : HandedOut(r)' = HandedOut(r)
      BY <2>0, <3>1, <1>t DEF HandedOut
    <3> QED
      BY <3>3, <3>4, <3>5
  <2> QED
    BY <2>1, <2>2, <2>3
<1>6. CASE UNCHANGED <<ingest, job, tries, stalls>>
  BY <1>6 DEF JobInv, HandedOut
<1>7. ASSUME NEW h \in Handlers, AnchorEvent(h) \/ Persist(h) \/ MarkFailed(h)
      PROVE  UNCHANGED <<ingest, job, tries, stalls>>
  BY <1>7, Zenon DEF AnchorEvent, Persist, MarkFailed, jobVars
<1>8. Crash \/ (\E x \in Readings : Delete(x)) \/ UNCHANGED vars => UNCHANGED <<ingest, job, tries, stalls>>
  BY Zenon DEF Crash, Delete, jobVars, vars
<1> HIDE DEF Same
<1>9. JobInv' /\ (Same \/ \E h \in Handlers, r \in Readings : Take(h, r))
  <2>1. CASE \E h \in Handlers, r \in Readings : Take(h, r)
    BY <2>1, <1>4
  <2>2. CASE ~\E h \in Handlers, r \in Readings : Take(h, r)
    BY <2>2, <1>1, <1>2, <1>3, <1>5, <1>6, <1>7, <1>8 DEF Next, Step, Same
  <2> QED
    BY <2>1, <2>2
<1> QED
  BY <1>9 DEF Same

\* Transactions of a reading, and handlers that are about to make one.
Of(c, r) == {k \in 1..Len(c) : c[k] = r}
Confirmed(r) == Of(chain, r)
Anchoring(r) == {h \in Handlers : pc[h] = "anchor" /\ work[h] = r}

(***************************************************************************)
(* Every transaction made or about to be made is one hand-out of the job,  *)
(* also of a handler that lost its lease and is still running.             *)
(***************************************************************************)
CostOK(r) ==
    /\ IsFiniteSet(Anchoring(r))
    /\ Cardinality(Confirmed(r)) + Cardinality(Anchoring(r)) <= HandedOut(r)

CostInv == \A r \in Readings : CostOK(r)

\* The transactions of a reading are finitely many, and one more makes one more.
LEMMA ConfirmedCount ==
  ASSUME NEW c \in Seq(Readings), NEW r, NEW x \in Readings
  PROVE  /\ Cardinality(Of(c, r)) \in Nat
         /\ Cardinality(Of(Append(c, x), r)) = Cardinality(Of(c, r)) + (IF x = r THEN 1 ELSE 0)
<1> DEFINE n == Len(c) + 1
<1>1. n \in Nat /\ n \notin 1..Len(c) /\ IsFiniteSet(1..Len(c))
  BY FS_Interval
<1>2. IsFiniteSet(Of(c, r))
  BY <1>1, FS_Subset DEF Of
<1>3. Cardinality(Of(c, r)) \in Nat
  BY <1>2, FS_CardinalityType
<1>4. /\ 1..Len(Append(c, x)) = 1..Len(c) \cup {n}
      /\ Append(c, x)[n] = x
      /\ \A k \in 1..Len(c) : Append(c, x)[k] = c[k]
  OBVIOUS
<1> HIDE DEF n
<1>5. CASE x = r
  <2>1. Of(Append(c, x), r) = Of(c, r) \cup {n} /\ n \notin Of(c, r)
    BY <1>1, <1>4, <1>5 DEF Of
  <2> QED
    BY <1>2, <1>3, <1>5, <2>1, FS_AddElement
<1>6. CASE x # r
  <2>1. Of(Append(c, x), r) = Of(c, r)
    BY <1>1, <1>4, <1>6 DEF Of
  <2> QED
    BY <1>3, <1>6, <2>1
<1> QED
  BY <1>3, <1>5, <1>6

\* The numbers of CostOK are numbers.
LEMMA CostTypes ==
  ASSUME AnchorInv, JobInv, NEW r \in Readings, CostOK(r)
  PROVE  /\ Cardinality(Confirmed(r)) \in Nat
         /\ Cardinality(Anchoring(r)) \in Nat
         /\ HandedOut(r) \in Nat
<1>1. chain \in Seq(Readings)
  BY DEF AnchorInv, Types
<1>2. tries[r] \in Nat /\ stalls[r] \in Nat
  BY DEF JobInv
<1> QED
  BY <1>1, <1>2, ConfirmedCount, HandedSame, FS_CardinalityType DEF Confirmed, HandedOut, CostOK

\* A step that anchors nothing, and after which no handler is newly about to.
LEMMA CostKept ==
  ASSUME AnchorInv, JobInv, NEW r \in Readings, CostOK(r),
         chain' = chain, Anchoring(r)' \subseteq Anchoring(r), HandedOut(r)' = HandedOut(r)
  PROVE  CostOK(r)'
<1>1. IsFiniteSet(Anchoring(r)') /\ Cardinality(Anchoring(r)') <= Cardinality(Anchoring(r))
  BY FS_Subset DEF CostOK
<1>2. Cardinality(Anchoring(r)') \in Nat
  BY <1>1, FS_CardinalityType
<1>3. Confirmed(r)' = Confirmed(r)
  BY DEF Confirmed
<1>4. /\ Cardinality(Confirmed(r)) \in Nat
      /\ Cardinality(Anchoring(r)) \in Nat
      /\ HandedOut(r) \in Nat
      /\ Cardinality(Confirmed(r)) + Cardinality(Anchoring(r)) <= HandedOut(r)
  BY CostTypes DEF CostOK
<1>5. Cardinality(Confirmed(r)') + Cardinality(Anchoring(r)') <= HandedOut(r)'
  BY <1>1, <1>2, <1>3, <1>4
<1> QED
  BY <1>1, <1>5 DEF CostOK

\* Taking a job adds the handler and the hand-out.
LEMMA CostTake ==
  ASSUME AnchorInv, JobInv, CostInv, NEW h \in Handlers, NEW x \in Readings, Take(h, x)
  PROVE  CostInv'
<1>t. /\ pc \in [Handlers -> PC] /\ work \in [Handlers -> Readings \cup {None}]
      /\ job \in [Readings -> JobState] /\ tries[x] \in Nat /\ stalls[x] \in Nat
  BY DEF AnchorInv, Types, JobInv
<1>0. /\ pc[h] = "idle" /\ job[x] = "waiting" /\ chain' = chain
      /\ tries' = tries /\ stalls' = stalls
      /\ pc' = [pc EXCEPT ![h] = "anchor"] /\ work' = [work EXCEPT ![h] = x]
      /\ job' = [job EXCEPT ![x] = "active"]
  BY DEF Take, Goto
<1>1. ASSUME NEW r \in Readings, r # x PROVE CostOK(r)'
  <2>1. Anchoring(r)' = Anchoring(r)
    BY <1>0, <1>1, <1>t DEF Anchoring
  <2>2. HandedOut(r)' = HandedOut(r)
    BY <1>0, <1>1, <1>t DEF HandedOut
  <2> QED
    BY <1>0, <2>1, <2>2, CostKept DEF CostInv
<1>2. CostOK(x)'
  <2>1. Anchoring(x)' = Anchoring(x) \cup {h} /\ h \notin Anchoring(x)
    BY <1>0, <1>t DEF Anchoring
  <2>2. HandedOut(x)' = HandedOut(x) + 1
    <3>1. Handed("active", tries[x], stalls[x]) = Handed("waiting", tries[x], stalls[x]) + 1
      BY <1>t, HandedSame
    <3>2. job'[x] = "active"
      BY <1>0, <1>t
    <3> QED
      BY <1>0, <3>1, <3>2 DEF HandedOut
  <2>3. /\ Cardinality(Confirmed(x)) \in Nat
        /\ Cardinality(Anchoring(x)) \in Nat
        /\ HandedOut(x) \in Nat
        /\ Cardinality(Confirmed(x)) + Cardinality(Anchoring(x)) <= HandedOut(x)
        /\ IsFiniteSet(Anchoring(x))
    BY CostTypes DEF CostInv, CostOK
  <2>4. IsFiniteSet(Anchoring(x)') /\ Cardinality(Anchoring(x)') = Cardinality(Anchoring(x)) + 1
    BY <2>1, <2>3, FS_AddElement
  <2>5. Confirmed(x)' = Confirmed(x)
    BY <1>0 DEF Confirmed
  <2>6. Cardinality(Confirmed(x)') + Cardinality(Anchoring(x)') <= HandedOut(x)'
    BY <2>2, <2>3, <2>4, <2>5
  <2> QED
    BY <2>4, <2>6 DEF CostOK
<1> QED
  BY <1>1, <1>2 DEF CostInv

\* A handler that anchors turns from one about to make a transaction into one made.
LEMMA CostAnchor ==
  ASSUME AnchorInv, JobInv, CostInv, NEW h \in Handlers, AnchorEvent(h)
  PROVE  CostInv'
<1> SUFFICES ASSUME NEW r \in Readings PROVE CostOK(r)'
  BY DEF CostInv
<1>t. pc \in [Handlers -> PC] /\ chain \in Seq(Readings)
  BY DEF AnchorInv, Types
<1>0. /\ pc[h] = "anchor" /\ work' = work /\ HandedOut(r)' = HandedOut(r)
      /\ pc' = [pc EXCEPT ![h] = "persist"] \/ pc' = [pc EXCEPT ![h] = "mark"]
      /\ chain' = Append(chain, work[h]) \/ chain' = chain
  BY DEF AnchorEvent, AnchorError, Goto, HandedOut, jobVars
<1>1. work[h] \in Readings
  BY <1>0 DEF AnchorInv, HandlerOK
<1>2. Anchoring(r)' = Anchoring(r) \ {h}
  BY <1>0, <1>t DEF Anchoring
<1>3. CASE chain' = chain
  BY <1>0, <1>2, <1>3, CostKept DEF CostInv
<1>4. CASE chain' = Append(chain, work[h])
  <2>1. /\ Cardinality(Confirmed(r)) \in Nat
        /\ Cardinality(Anchoring(r)) \in Nat
        /\ HandedOut(r) \in Nat
        /\ Cardinality(Confirmed(r)) + Cardinality(Anchoring(r)) <= HandedOut(r)
        /\ IsFiniteSet(Anchoring(r))
    BY CostTypes DEF CostInv, CostOK
  <2>2. /\ IsFiniteSet(Anchoring(r)')
        /\ Cardinality(Anchoring(r)') =
             IF h \in Anchoring(r) THEN Cardinality(Anchoring(r)) - 1 ELSE Cardinality(Anchoring(r))
    BY <1>2, <2>1, FS_RemoveElement
  <2>3. h \in Anchoring(r) <=> work[h] = r
    BY <1>0 DEF Anchoring
  <2>4. Cardinality(Confirmed(r)') = Cardinality(Confirmed(r)) + (IF work[h] = r THEN 1 ELSE 0)
    BY <1>1, <1>4, <1>t, ConfirmedCount DEF Confirmed
  <2>5. Cardinality(Confirmed(r)') + Cardinality(Anchoring(r)') <= HandedOut(r)'
    BY <1>0, <2>1, <2>2, <2>3, <2>4
  <2> QED
    BY <2>2, <2>5 DEF CostOK
<1> QED
  BY <1>0, <1>3, <1>4

\* Every step keeps the account.
LEMMA CostNext ==
  ASSUME AnchorInv, JobInv, CostInv, [Next]_vars
  PROVE  CostInv'
<1>1. CASE \E h \in Handlers, x \in Readings : Take(h, x)
  BY <1>1, CostTake
<1>2. CASE \E h \in Handlers : AnchorEvent(h)
  BY <1>2, CostAnchor
<1>3. CASE /\ ~\E h \in Handlers, x \in Readings : Take(h, x)
           /\ ~\E h \in Handlers : AnchorEvent(h)
  <2>1. \A r \in Readings : HandedOut(r)' = HandedOut(r)
    BY <1>3, JobNext
  <2>2. chain' = chain
    BY <1>3, Zenon DEF Next, Step, Store, Push, Delete, LeaseExpires, Persist, MarkFailed, Report, Crash, vars
  <2>3. \A r \in Readings : Anchoring(r)' \subseteq Anchoring(r)
    <3>1. \A g \in Handlers : pc'[g] = "anchor" => pc[g] = "anchor" /\ work'[g] = work[g]
      <4>1. pc \in [Handlers -> PC] /\ work \in [Handlers -> Readings \cup {None}]
        BY DEF AnchorInv, Types
      <4>2. ASSUME NEW h \in Handlers, Persist(h) \/ MarkFailed(h) \/ Report(h), NEW g \in Handlers, pc'[g] = "anchor"
            PROVE  pc[g] = "anchor" /\ work'[g] = work[g]
        BY <4>1, <4>2 DEF Persist, PersistError, MarkFailed, Report, Goto
      <4>3. CASE Crash
        BY <4>3 DEF Crash
      <4>4. CASE UNCHANGED <<pc, work>>
        BY <4>4
      <4> QED
        BY <1>3, <4>2, <4>3, <4>4 DEF Next, Step, Store, Push, Delete, LeaseExpires, slotVars, vars
    <3> QED
      BY <3>1 DEF Anchoring
  <2> QED
    BY <2>1, <2>2, <2>3, CostKept DEF CostInv
<1> QED
  BY <1>1, <1>2, <1>3

(***************************************************************************)
(* However attempts fail, leases expire and handlers outlive their lease   *)
(* or die, a reading is anchored at most once per attempt and per lease    *)
(* that expired: the transactions of one anchor_telemetry job are bounded. *)
(***************************************************************************)
THEOREM AnchorsBounded == Spec => []SubmissionsBounded
<1>1. Init => JobInv /\ CostInv
  <2> SUFFICES ASSUME Init PROVE JobInv /\ CostInv
    OBVIOUS
  <2>1. JobInv
    BY DEF Init, JobInv, JobState
  <2>2. ASSUME NEW r \in Readings PROVE CostOK(r)
    <3>1. Confirmed(r) = {} /\ Anchoring(r) = {}
      BY DEF Init, Confirmed, Of, Anchoring
    <3>2. HandedOut(r) = 0
      BY DEF Init, HandedOut, Handed
    <3> QED
      BY <3>1, <3>2, FS_EmptySet DEF CostOK
  <2> QED
    BY <2>1, <2>2 DEF CostInv
<1>2. AnchorInv /\ JobInv /\ [Next]_vars => JobInv'
  BY JobNext
<1>3. AnchorInv /\ JobInv /\ CostInv /\ [Next]_vars => CostInv'
  BY CostNext
<1>4. AnchorInv /\ JobInv /\ CostInv => SubmissionsBounded
  <2> SUFFICES ASSUME AnchorInv, JobInv, CostInv, NEW r \in Readings
               PROVE  Cardinality(Confirmed(r)) <= Attempts + MaxStalls
    BY DEF SubmissionsBounded, Confirmed, Of
  <2>1. /\ Cardinality(Confirmed(r)) \in Nat
        /\ Cardinality(Anchoring(r)) \in Nat
        /\ HandedOut(r) \in Nat
        /\ Cardinality(Confirmed(r)) + Cardinality(Anchoring(r)) <= HandedOut(r)
    BY CostTypes DEF CostInv, CostOK
  <2>2. HandedOut(r) <= Attempts + MaxStalls
    BY AttemptsAssumption, MaxStallsAssumption DEF JobInv, JobState, HandedOut, Handed
  <2> QED
    BY <2>1, <2>2, AttemptsAssumption, MaxStallsAssumption
<1> QED
  BY AnchorInit, AnchorNext, <1>1, <1>2, <1>3, <1>4, PTL DEF Spec
=============================================================================
