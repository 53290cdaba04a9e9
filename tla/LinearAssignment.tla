------------------------- MODULE LinearAssignment -------------------------
(***************************************************************************)
(* The gated assignment solver (linear_assignment.cpp): the cost matrix    *)
(* extended by a dummy column per row and a dummy row per column, the      *)
(* Hungarian algorithm with potentials one loop iteration per step, and    *)
(* the matches read back.  Costs are integers; the matrix holds them       *)
(* doubled, so that half the limit is exact.                               *)
(*                                                                         *)
(* Operators named after a mistake are wrong versions of the definition    *)
(* after them and not part of the specification.                           *)
(***************************************************************************)
EXTENDS Integers, FiniteSets, FiniteSetsExt

CONSTANTS Shapes,     \* pairs <<rows, cols>> that are solved
          Costs,      \* entries of the cost matrix
          CostLimit,
          Forbidden   \* kForbidden: more than any assignment may cost

ASSUME LinearAssignmentAssumption ==
    /\ Shapes \subseteq Nat \X Nat
    /\ Costs \subseteq Nat /\ CostLimit \in Nat /\ Forbidden \in Nat
    /\ \A s \in Shapes, c \in Costs :
          Forbidden > 2 * (s[1] + s[2]) * (c + CostLimit)

VARIABLE la  \* a LinearAssignment and the problem it is solving

kInf == -1  \* stands for infinity: reduced costs are never negative

Size(p) == p.rows + p.cols

\* The extended matrix, with the indices 1..n of the code.
MatrixFullLimit(p) ==
    [r \in 1..Size(p) |-> [c \in 1..Size(p) |->
       IF r <= p.rows /\ c <= p.cols
       THEN IF p.cost[r][c] <= CostLimit THEN 2 * p.cost[r][c] ELSE Forbidden
       ELSE IF r <= p.rows THEN IF c - p.cols = r THEN 2 * CostLimit ELSE Forbidden
       ELSE IF c <= p.cols THEN IF r - p.rows = c THEN 2 * CostLimit ELSE Forbidden
       ELSE 0]]

Matrix(p) ==
    [r \in 1..Size(p) |-> [c \in 1..Size(p) |->
       IF r <= p.rows /\ c <= p.cols
       THEN IF p.cost[r][c] <= CostLimit THEN 2 * p.cost[r][c] ELSE Forbidden
       ELSE IF r <= p.rows THEN IF c - p.cols = r THEN CostLimit ELSE Forbidden
       ELSE IF c <= p.cols THEN IF r - p.rows = c THEN CostLimit ELSE Forbidden
       ELSE 0]]

Init_la == la = [pc |-> "idle"]

\* solve() is called; an empty side leaves everything unmatched.
solve ==
    /\ la.pc = "idle"
    /\ \E shape \in Shapes :
       \E cost \in [1..shape[1] -> [1..shape[2] -> Costs]] :
          LET p == [rows |-> shape[1], cols |-> shape[2], cost |-> cost]
              zero == [j \in 0..Size(p) |-> 0]
          IN la' = IF shape[1] = 0 \/ shape[2] = 0
                   THEN [pc |-> "done", problem |-> p, matches |-> {}]
                   ELSE [pc |-> "row", problem |-> p, matrix |-> Matrix(p), u |-> zero, v |-> zero,
                         assigned_row |-> zero, way |-> zero, i |-> 0]

\* The matches: a pair counts if row and column are real and the pair allowed.
ReadBack ==
    { <<la.assigned_row[c], c>> :
      c \in { c \in 1..la.problem.cols :
                LET r == la.assigned_row[c]
                IN r \in 1..la.problem.rows /\ la.matrix[r][c] < Forbidden } }

\* The outer loop turns to the next row, or ends with the read back.
NextRow ==
    /\ la.pc = "row"
    /\ la' = IF la.i = Size(la.problem)
             THEN [pc |-> "done", problem |-> la.problem, matches |-> ReadBack]
             ELSE [pc |-> "path", problem |-> la.problem, matrix |-> la.matrix, u |-> la.u,
                   v |-> la.v, way |-> la.way, i |-> la.i + 1,
                   assigned_row |-> [la.assigned_row EXCEPT ![0] = la.i + 1],
                   j0 |-> 0, used |-> {},
                   min_slack |-> [j \in 0..Size(la.problem) |-> kInf]]

\* The potentials of the used columns and of the rows assigned to them move.
UpdatePotentials(used, delta) ==
    [la EXCEPT !.u = [r \in DOMAIN @ |-> IF \E j \in used : la.assigned_row[j] = r
                                         THEN @[r] + delta ELSE @[r]],
               !.v = [j \in DOMAIN @ |-> IF j \in used THEN @[j] - delta ELSE @[j]]]

\* One iteration of the do loop: the slacks seen from column j0, the first
\* column with the least of them, the potentials moved by that much.
ExtendPath ==
    /\ la.pc = "path"
    /\ LET used == la.used \cup {la.j0}
           free == (1..Size(la.problem)) \ used
           i0 == la.assigned_row[la.j0]
           reduced == [j \in free |-> la.matrix[i0][j] - la.u[i0] - la.v[j]]
           closer == {j \in free : la.min_slack[j] = kInf \/ reduced[j] < la.min_slack[j]}
           slack == [j \in DOMAIN la.min_slack |->
                       IF j \in closer THEN reduced[j] ELSE la.min_slack[j]]
           way == [j \in DOMAIN la.way |-> IF j \in closer THEN la.j0 ELSE la.way[j]]
           delta == Min({slack[j] : j \in free})
           j1 == Min({j \in free : slack[j] = delta})
       IN la' = [UpdatePotentials(used, delta) EXCEPT
                   !.way = way, !.used = used, !.j0 = j1,
                   !.min_slack = [j \in DOMAIN slack |->
                                    IF j \in used THEN slack[j] ELSE slack[j] - delta],
                   !.pc = IF la.assigned_row[j1] = 0 THEN "augment" ELSE "path"]

\* One iteration of the second do loop: the path is flipped back to column 0.
Augment ==
    /\ la.pc = "augment"
    /\ LET j1 == la.way[la.j0]
       IN la' = IF j1 # 0
                THEN [la EXCEPT !.assigned_row[la.j0] = la.assigned_row[j1], !.j0 = j1]
                ELSE [pc |-> "row", problem |-> la.problem, matrix |-> la.matrix, u |-> la.u,
                      v |-> la.v, way |-> la.way, i |-> la.i,
                      assigned_row |-> [la.assigned_row EXCEPT ![la.j0] = la.assigned_row[0]]]

\* The caller takes the result.
Return ==
    /\ la.pc = "done"
    /\ la' = [pc |-> "idle"]

Next_la == solve \/ NextRow \/ ExtendPath \/ Augment \/ Return

-----------------------------------------------------------------------------
Matchings(rows, cols) ==
    { m \in SUBSET ((1..rows) \X (1..cols)) :
        \A p, q \in m : p # q => p[1] # q[1] /\ p[2] # q[2] }

\* f[1] + ... + f[n].
Total(f, n) ==
    LET upto[k \in 0..n] == IF k = 0 THEN 0 ELSE upto[k - 1] + f[k]
    IN upto[n]

\* Twice the price of a matching: its pairs, and half the limit for every column
\* and every row that it leaves out.
ColumnPrices(p, m) ==
    [c \in 1..p.cols |-> IF \E pair \in m : pair[2] = c
                        THEN LET pair == CHOOSE pair \in m : pair[2] = c
                             IN 2 * p.cost[pair[1]][c]
                        ELSE CostLimit]
RowPrices(p, m) ==
    [r \in 1..p.rows |-> IF \E pair \in m : pair[1] = r THEN 0 ELSE CostLimit]
Price(p, m) == Total(ColumnPrices(p, m), p.cols) + Total(RowPrices(p, m), p.rows)

\* linear_assignment.hpp: "the result is optimal under the gate".  The matches
\* pair no row or column twice and none above the limit, and no other gated
\* matching costs less with half the limit for everything left unmatched.
AssignmentOptimal ==
    la.pc = "done" =>
       LET p == la.problem
           gated == { m \in Matchings(p.rows, p.cols) :
                        \A pair \in m : p.cost[pair[1]][pair[2]] <= CostLimit }
       IN /\ la.matches \in gated
          /\ \A m \in gated : Price(p, la.matches) <= Price(p, m)
=============================================================================
