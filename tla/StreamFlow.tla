----------------------------- MODULE StreamFlow -----------------------------
(***************************************************************************)
(* What flow control promises for the streams of a tunnel: each direction  *)
(* of a stream is a flow, five counters of units.  A flow sends as much of *)
(* what it was given as the window allows; the receiver returns credit     *)
(* once a threshold is reached.  Tunnel implements this specification.     *)
(***************************************************************************)
EXTENDS FlowWindow

CONSTANTS Flow,   \* the directions of the streams
          Units   \* the numbers of units a step may be about

VARIABLES given,      \* units handed to sendToStream
          delivered,  \* units handed to onData
          credited,   \* units whose credit the receiver has returned
          learned,    \* units whose credit the sender has received
          sent        \* units put into Data frames

flowVars == <<given, delivered, credited, learned, sent>>

Counters == [Flow -> Nat]

(* The types of the variables.                                           *)
TypeOK == /\ given \in Counters /\ delivered \in Counters /\ credited \in Counters
          /\ learned \in Counters /\ sent \in Counters

Init == /\ given = [f \in Flow |-> 0]
        /\ delivered = [f \in Flow |-> 0]
        /\ credited = [f \in Flow |-> 0]
        /\ learned = [f \in Flow |-> 0]
        /\ sent = [f \in Flow |-> 0]

(* The sender never holds back what the window allows.                     *)
SentWith(g, l) == IF g < InitialWindow + l THEN g ELSE InitialWindow + l

Give(f, n) == /\ given' = [given EXCEPT ![f] = @ + n]
              /\ sent' = [sent EXCEPT ![f] = SentWith(given[f] + n, learned[f])]
              /\ UNCHANGED <<delivered, credited, learned>>

(* One frame of n units; credit for it is returned in a step of its own.   *)
Deliver(f, n) == /\ n <= sent[f] - delivered[f]
                 /\ delivered' = [delivered EXCEPT ![f] = @ + n]
                 /\ UNCHANGED <<given, credited, learned, sent>>

ReturnCredit(f) == /\ delivered[f] - credited[f] >= Threshold
                   /\ credited' = [credited EXCEPT ![f] = delivered[f]]
                   /\ UNCHANGED <<given, delivered, learned, sent>>

LearnCredit(f, n) == /\ n <= credited[f] - learned[f]
                     /\ learned' = [learned EXCEPT ![f] = @ + n]
                     /\ sent' = [sent EXCEPT ![f] = SentWith(given[f], learned[f] + n)]
                     /\ UNCHANGED <<given, delivered, credited>>

(* A direction is closed, or the session ends: flows are forgotten.        *)
Forget(ended) == LET Reset(c) == [f \in Flow |-> IF f \in ended THEN 0 ELSE c[f]]
                 IN  /\ given' = Reset(given) /\ delivered' = Reset(delivered)
                     /\ credited' = Reset(credited) /\ learned' = Reset(learned)
                     /\ sent' = Reset(sent)

Next == \/ \E f \in Flow :
              \/ \E n \in Units \cap Nat : Give(f, n) \/ Deliver(f, n) \/ LearnCredit(f, n)
              \/ ReturnCredit(f)
        \/ \E ended \in SUBSET Flow : Forget(ended)

Spec == Init /\ [][Next]_flowVars

-----------------------------------------------------------------------------
(* What is under way never exceeds the window the receiver has left, so    *)
(* handleDataFrame never resets a stream (clsMultiplexedTunnel.cpp:565).   *)
WindowRespected ==
    \A f \in Flow : sent[f] - delivered[f] <= InitialWindow + credited[f] - delivered[f]

(* A flow with units left to send is not stuck: data or credit is under    *)
(* way, or the receiver is due to return credit.                           *)
NeverStuck ==
    \A f \in Flow : sent[f] < given[f] =>
        \/ delivered[f] < sent[f]
        \/ learned[f] < credited[f]
        \/ delivered[f] - credited[f] >= Threshold

=============================================================================
