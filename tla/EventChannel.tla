---------------------------- MODULE EventChannel ----------------------------
(***************************************************************************)
(* What the transactional outbox promises its readers: a topic carries     *)
(* only events of changes that were committed, under the key of their      *)
(* aggregate, and what it carries it never takes back.  Copies may repeat. *)
(* OutboxRelay implements it.                                              *)
(***************************************************************************)
EXTENDS Sequences

CONSTANTS Events,  \* event identities
          Keys,    \* aggregate ids, one partition each
          Key      \* Key[e]: the aggregate of event e

VARIABLES committed,  \* the events of committed changes, in commit order
          log         \* log[k]: what the partition of k carries

channelVars == <<committed, log>>

ChannelInit ==
  /\ committed = << >>
  /\ log = [k \in Keys |-> << >>]

\* A change commits, and with it the one event that describes it.
Happen(e) ==
  /\ \A i \in DOMAIN committed : committed[i] # e
  /\ committed' = Append(committed, e)
  /\ UNCHANGED log

Deliver(e) ==
  /\ \E i \in DOMAIN committed : committed[i] = e
  /\ log' = [log EXCEPT ![Key[e]] = Append(@, e)]
  /\ UNCHANGED committed

ChannelNext == \E e \in Events : Happen(e) \/ Deliver(e)

ChannelSpec == ChannelInit /\ [][ChannelNext]_channelVars
=============================================================================
