---------------------------- MODULE LossyChannel ----------------------------
(***************************************************************************)
(* What the way of a record promises, with no map, text or batch: a        *)
(* message is delivered once at most, in any order, and one that is not is *)
(* given up openly, unless another one was sent at the same time.          *)
(***************************************************************************)
EXTENDS Naturals, Sequences

CONSTANTS Max, Time

VARIABLES
  sent,       \* when each message was sent
  flight,     \* the messages under way
  received,   \* those that were delivered, in that order
  gone,       \* those that were given up
  up          \* somebody receives

vars == <<sent, flight, received, gone, up>>

Init ==
  /\ sent = <<>> /\ flight = {} /\ received = <<>> /\ gone = {}
  /\ up = TRUE

Send(t) ==
  /\ up /\ Len(sent) < Max
  /\ sent' = Append(sent, t)
  /\ flight' = flight \cup {Len(sent) + 1}
  /\ UNCHANGED <<received, gone, up>>

Deliver(m) ==
  /\ up /\ m \in flight
  /\ flight' = flight \ {m}
  /\ received' = Append(received, m)
  /\ UNCHANGED <<sent, gone, up>>

Twin(m) == \E n \in DOMAIN sent \ {m} : sent[n] = sent[m]

\* Those of L that are not given up have a twin; the receiver may end with it.
Lose(L) ==
  /\ flight' = flight \ L
  /\ gone' \in SUBSET (gone \cup L) /\ gone \subseteq gone'
  /\ \A m \in L \ gone' : Twin(m)
  /\ up' \in {up, FALSE}
  /\ UNCHANGED <<sent, received>>

Next ==
  \/ \E t \in Time : Send(t)
  \/ \E m \in flight : Deliver(m)
  \/ \E L \in SUBSET flight : Lose(L)

Spec == Init /\ [][Next]_vars
===========================================================================
