--------------------------------- MODULE MCHeap ---------------------------------
(* Heap with a few layouts.  A block takes at least 48 bytes and a page is    *)
(* 4096, so that the layouts of a page fragment, fill and outgrow a region.   *)
EXTENDS Heap

\* A small string, a larger one with an alignment above ALIGN, and the
\* smallest size for which grow may ask for too little.
MCLayouts == {[size |-> 1000, align |-> 1],
              [size |-> 2500, align |-> 64],
              [size |-> 4049, align |-> 1]}

==============================================================================
