---------------------------- MODULE MCContainers ----------------------------
(* Containers with its symmetry, for the runs of safety properties.        *)
EXTENDS Containers, TLC

(* The container ids are interchangeable.                                  *)
IdSymmetry == Permutations(Ids)

(* SourceCell against the C loop, which runs on the array it is changing.  *)
Sequential(cells, n, k) ==
  LET After[j \in Nat] == IF j = 0 THEN cells
                          ELSE [After[j - 1] EXCEPT ![Cell(k, j - 1)] = After[j - 1][n + j - 1]]
  IN  After[MaxCpus]

ASSUME SourceCellIsSequential ==
  \A n \in 1 .. MaxContainers : \A k \in 0 .. n - 1 : \A j \in Cpu :
    Sequential([c \in Cells |-> c], n, k)[Cell(k, j)] = SourceCell(n, k, j)
=============================================================================
