---------------------------- MODULE SigningQueue ----------------------------
(***************************************************************************)
(* What KeyedSerializer promises to the code that signs for an account:    *)
(* the submissions of one key stand in a line, in the order of the calls;  *)
(* only the first of the line can reach the network, at most once, and it  *)
(* leaves the line whether it succeeded or not.  Submissions that take no  *)
(* queue reach the network at any time, once.                              *)
(***************************************************************************)
EXTENDS Naturals, Sequences

CONSTANTS Tasks, Keys, KeyOf, Bare

VARIABLES
    line,   \* the unsettled submissions of a key, in call order
    log     \* the submissions the network accepted, in order

lineVars == <<line, log>>

InLine(t) == \E i \in DOMAIN line[KeyOf[t]] : line[KeyOf[t]][i] = t

Logged(t) == \E i \in DOMAIN log : log[i] = t

QueueInit ==
    /\ line = [k \in Keys |-> <<>>]
    /\ log = <<>>

Join(t) ==
    /\ t \notin Bare
    /\ ~InLine(t)
    /\ ~Logged(t)
    /\ line' = [line EXCEPT ![KeyOf[t]] = Append(@, t)]
    /\ UNCHANGED log

\* The first of the line settles: accepted by the network (whether or not its
\* answer arrives), or not.
Leave(k, accepted) ==
    /\ line[k] # <<>>
    /\ accepted => ~Logged(Head(line[k]))
    /\ log' = IF accepted THEN Append(log, Head(line[k])) ELSE log
    /\ line' = [line EXCEPT ![k] = Tail(@)]

Outside(t) ==
    /\ t \in Bare
    /\ ~Logged(t)
    /\ log' = Append(log, t)
    /\ UNCHANGED line

QueueNext ==
    \/ \E t \in Tasks : Join(t) \/ Outside(t)
    \/ \E k \in Keys, accepted \in BOOLEAN : Leave(k, accepted)

QueueSpec == QueueInit /\ [][QueueNext]_lineVars
=============================================================================
