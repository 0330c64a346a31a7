------------------------------ MODULE MCMemory ------------------------------
(* Model-checking instance of Memory.                                      *)
EXTENDS Memory

Ph(vaddr, filesz, memsz, flags, whole) ==
    [vaddr |-> vaddr, filesz |-> filesz, memsz |-> memsz, flags |-> flags, whole |-> whole]

Text == Ph(0, 2, 2, {1}, TRUE)

MCPrograms ==
    {[phdrs |-> <<Text>>, fit |-> TRUE], [phdrs |-> <<Text>>, fit |-> FALSE],
     [phdrs |-> <<Text, Ph(2, 0, 1, {2}, TRUE)>>, fit |-> TRUE],
     [phdrs |-> <<Text, Ph(2, 1, 2, {2}, FALSE)>>, fit |-> TRUE],
     [phdrs |-> <<Text, Ph(2, 2, 1, {2}, TRUE)>>, fit |-> TRUE],
     [phdrs |-> <<Text, Ph(2, 1, WORD - 1, {2}, TRUE)>>, fit |-> TRUE]}

(* Frames are interchangeable: two states that differ in which frame is    *)
(* where are alike, unless one of them has a frame in two places.          *)
Shape(pt) ==
    <<DOMAIN pt.dir,
      [v \in DOMAIN pt.pte |->
         <<pt.pte[v].perm, IF v < UserPages THEN content[pt.pte[v].pa] ELSE "kernel">>]>>

MCView ==
    <<[p \in Process |->
         <<state[p], sz[p], capped[p], pc[p], child[p], tf[p] = 0, Shape(table[p]),
           Shape(exec[p].pt), exec[p].sz, exec[p].phdrs, exec[p].fit>>],
      Cardinality(freelist), FramesAccountedFor, oops>>
=============================================================================
