---------------------------- MODULE PipeProtocol -----------------------------
(***************************************************************************)
(* What the full corpus index pipe promises its administrators, with       *)
(* nothing of how it is done: pipes start in order, each ends once, either *)
(* serving all its indexes or with nothing left, and neither changes after *)
(* that.  A pipe that a cancel request overtakes loses the promise.        *)
(***************************************************************************)
EXTENDS Naturals

CONSTANT Pipes   \* a set of naturals: the place of a pipe in the queue

VARIABLES
    stage,    \* "none", "waiting", "working", or how the pipe ended
    product   \* what it has made: "nothing", "partial" or "whole"

pipeStates == <<stage, product>>

ProtocolInit ==
    /\ stage = [p \in Pipes |-> "none"]
    /\ product = [p \in Pipes |-> "nothing"]

Moves(p, from, to) == stage[p] = from /\ stage' = [stage EXCEPT ![p] = to]

Ask(p) == Moves(p, "none", "waiting") /\ UNCHANGED product

Withdraw(p) == Moves(p, "waiting", "withdrawn") /\ UNCHANGED product

Begin(p) ==
    /\ Moves(p, "waiting", "working")
    /\ \A q \in Pipes : stage[q] = "waiting" => p <= q
    /\ UNCHANGED product

Work(p) ==
    /\ stage[p] \in {"working", "overtaken"}
    /\ \E made \in {"nothing", "partial", "whole"} :
           product' = [product EXCEPT ![p] = made]
    /\ UNCHANGED stage

Serve(p) ==
    /\ Moves(p, "working", "served")
    /\ product' = [product EXCEPT ![p] = "whole"]

GiveUp(p) ==
    /\ Moves(p, "working", "withdrawn")
    /\ product' = [product EXCEPT ![p] = "nothing"]

Overtake(p) ==
    /\ \E from \in {"working", "served", "withdrawn"} : Moves(p, from, "overtaken")
    /\ \E made \in {"nothing", "partial", "whole"} :
           product' = [product EXCEPT ![p] = made]

ProtocolNext ==
    \E p \in Pipes : \/ Ask(p) \/ Withdraw(p) \/ Begin(p) \/ Work(p)
                     \/ Serve(p) \/ GiveUp(p) \/ Overtake(p)

ProtocolSpec == ProtocolInit /\ [][ProtocolNext]_pipeStates
=============================================================================
