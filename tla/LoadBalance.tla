----------------------------- MODULE LoadBalance -----------------------------
(***************************************************************************)
(* The pickers of internal/loadbalance for one pool of targets, and what a *)
(* reload does to them: router.New makes new pickers on every tick of the  *)
(* reload loop, whether or not the configuration changed.                  *)
(*                                                                         *)
(* Next is one step: round robin takes its number with one atomic add and  *)
(* the other pickers hold a mutex.  A request that matched before a reload *)
(* finishes on the old picker, whose picks no longer matter here.          *)
(***************************************************************************)
EXTENDS Integers

CONSTANTS
    N,           \* targets in the pool
    MaxWeight,   \* weights are 1..MaxWeight
    Wrap,        \* numbers of the round-robin counter: 2^64 in the code
    MaxPicks     \* bound: picks of one picker

ASSUME LoadBalanceAssumption ==
    /\ N \in Nat \ {0} /\ MaxWeight \in Nat \ {0} /\ Wrap \in Nat \ {0}
    /\ MaxPicks \in Nat

Target == 1..N

VARIABLES
    strategy,
    weight,    \* of each target
    next,      \* round robin: the next number
    current,   \* weighted: the credit of each target
    served,    \* history: picks of each target by this picker
    last       \* history: the last pick

vars == <<strategy, weight, next, current, served, last>>

\* The sum of f over the targets 1..n.
Upto(f) ==
    LET sum[n \in 0..N] == IF n = 0 THEN 0 ELSE sum[n - 1] + f[n]
    IN  sum

Sum(f) == Upto(f)[N]

Total == Sum(weight)

Picks == Sum(served)

TypeOK ==
    /\ strategy \in {"round-robin", "weighted", "random"}
    /\ weight \in [Target -> 1..MaxWeight]
    /\ next \in 0..(Wrap - 1)
    /\ current \in [Target -> Int]
    /\ served \in [Target -> 0..MaxPicks]
    /\ last \in Target \cup {0}

FreshPicker ==
    /\ next' = 0
    /\ current' = [i \in Target |-> 0]
    /\ served' = [i \in Target |-> 0]

Init ==
    /\ strategy \in {"round-robin", "weighted", "random"}
    /\ weight \in [Target -> 1..MaxWeight]
    /\ next = 0
    /\ current = [i \in Target |-> 0]
    /\ served = [i \in Target |-> 0]
    /\ last = 0

Serve(i) ==
    /\ Picks < MaxPicks
    /\ served' = [served EXCEPT ![i] = @ + 1]
    /\ last' = i
    /\ UNCHANGED <<strategy, weight>>

\* Faulty variants: the number is never reduced; it starts over one late.
RoundRobinNextUnbounded ==
    /\ strategy = "round-robin"
    /\ next' = next + 1
    /\ Serve((next % N) + 1)
    /\ UNCHANGED current

RoundRobinNextLate ==
    /\ strategy = "round-robin"
    /\ next' = (next + 1) % (N + 1)
    /\ Serve((next % N) + 1)
    /\ UNCHANGED current

\* The number is taken modulo Wrap, the index modulo the pool.
RoundRobinNext ==
    /\ strategy = "round-robin"
    /\ next' = (next + 1) % Wrap
    /\ Serve((next % N) + 1)
    /\ UNCHANGED current

\* Every target gains its weight; the first of the richest is picked and
\* pays the total.
Raised == [i \in Target |-> current[i] + weight[i]]

Best(credit) ==
    CHOOSE i \in Target : \A j \in Target :
        credit[i] > credit[j] \/ (credit[i] = credit[j] /\ i <= j)

\* Faulty variant: the pick pays its own weight.
WeightedNextOwnWeight ==
    /\ strategy = "weighted"
    /\ current' = [Raised EXCEPT ![Best(Raised)] = @ - weight[Best(Raised)]]
    /\ Serve(Best(Raised))
    /\ UNCHANGED next

\* Faulty variant: the pick pays nothing.
WeightedNextFree ==
    /\ strategy = "weighted"
    /\ current' = Raised
    /\ Serve(Best(Raised))
    /\ UNCHANGED next

WeightedNext ==
    /\ strategy = "weighted"
    /\ current' = [Raised EXCEPT ![Best(Raised)] = @ - Total]
    /\ Serve(Best(Raised))
    /\ UNCHANGED next

RandomNext ==
    /\ strategy = "random"
    /\ \E i \in Target : Serve(i)
    /\ UNCHANGED <<next, current>>

Pick == RoundRobinNext \/ WeightedNext \/ RandomNext

\* On every tick, however few picks were made since the last one.
Reload ==
    /\ FreshPicker
    /\ UNCHANGED <<strategy, weight, last>>

Next == Pick \/ Reload

\* Requests keep coming and the reload ticker keeps firing.
Spec == Init /\ [][Next]_vars /\ WF_vars(Pick) /\ WF_vars(Reload)

-----------------------------------------------------------------------------
(* Properties *)

\* Round robin stays even: between any two targets the picks differ by at
\* most one, and by one more for each time the counter has wrapped.
RoundRobinEven ==
    strategy = "round-robin" =>
        \A i, j \in Target : served[i] - served[j] <= 1 + (Picks \div Wrap)

\* A weighted pick never takes a target a whole pick beyond its share, and
\* none falls further behind than half a pick for every other target (less
\* than a whole one in a pool of three); after every full cycle each has had
\* exactly its share.
WeightedShare ==
    strategy = "weighted" =>
        \A i \in Target :
            LET stray == served[i] * Total - Picks * weight[i]
            IN  /\ stray < Total
                /\ -2 * stray <= Total + (N - 2) * (Total - 1)
                /\ Picks % Total = 0 => stray = 0

\* The picks in which every target has its turn.
Cycle == IF strategy = "weighted" THEN Total ELSE N

\* A reload starts the pickers over, and takes their turn from the targets at
\* the end of a cycle it cuts short; no more than that: as long as there is
\* again and again a picker that lives for a cycle, every target is served
\* again and again.  With fewer picks between any two reloads some never are.
EveryTargetServed ==
    strategy # "random" =>
        ([]<>(Picks >= Cycle) => \A i \in Target : []<>(last = i))
=============================================================================
