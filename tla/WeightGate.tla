----------------------------- MODULE WeightGate -----------------------------
(***************************************************************************)
(* What the router promises about weight updates, without processes,       *)
(* files or messages: a worker whose weights may be mixed takes no         *)
(* requests.                                                               *)
(*                                                                         *)
(* A worker is uncertain from the moment an update is sent to it until     *)
(* every target of the update has succeeded or an operator has verified    *)
(* it; an update that fails, or whose sender dies, settles nothing.        *)
(***************************************************************************)
CONSTANT Worker

VARIABLES
    open,       \* workers an update is being sent to
    uncertain,  \* workers whose weights may be mixed
    served      \* workers that may be given requests

vars == <<open, uncertain, served>>

Init ==
    /\ open = {} /\ uncertain = {}
    /\ served \subseteq Worker

\* One update at a time, to workers that take no requests, and only when the
\* weights of the pool are known.
Send ==
    /\ open = {} /\ uncertain = {}
    /\ open' \in (SUBSET (Worker \ served)) \ {{}}
    /\ uncertain' = open'
    /\ served' = served

\* Every target has confirmed.
Succeed ==
    /\ open # {}
    /\ open' = {}
    /\ uncertain' = uncertain \ open
    /\ served' = served

\* A target failed, or the sender died.
Fail ==
    /\ open # {}
    /\ open' = {}
    /\ uncertain' = uncertain
    /\ served' \in SUBSET served

\* An operator has checked the weights of some workers.
Verify ==
    /\ open = {}
    /\ uncertain' \in SUBSET uncertain
    /\ UNCHANGED <<open, served>>

\* Requests are routed to other workers than before.
Route ==
    /\ served' \in SUBSET (Worker \ uncertain)
    /\ UNCHANGED <<open, uncertain>>

Next == Send \/ Succeed \/ Fail \/ Verify \/ Route

Spec == Init /\ [][Next]_vars

\* A worker whose weights may be mixed is given no request.
NoMixedWeights == served \cap uncertain = {}
=============================================================================
