------------------------------ MODULE OnceEach ------------------------------
(***************************************************************************)
(* What an idempotent consumer promises: each event has its effect at most *)
(* once, and only after it was published, however often the topic carries  *)
(* it and whoever reads it.  ReadModelConsumer implements it.              *)
(***************************************************************************)
EXTENDS Sequences

CONSTANT Assessments  \* the events

VARIABLES published,  \* the events the topic carries
          applied     \* the effects, in the order they were committed

onceVars == <<published, applied>>

OnceInit == published = {} /\ applied = << >>

Publish(a) == published' = published \cup {a} /\ UNCHANGED applied

Apply(a) ==
  /\ a \in published
  /\ \A i \in DOMAIN applied : applied[i] # a
  /\ applied' = Append(applied, a)
  /\ UNCHANGED published

OnceNext == \E a \in Assessments : Publish(a) \/ Apply(a)

OnceSpec == OnceInit /\ [][OnceNext]_onceVars
=============================================================================
