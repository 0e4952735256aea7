------------------------------ MODULE MCPaging ------------------------------
(***************************************************************************)
(* Instances of Paging for TLC: three pages of one word, the last of them  *)
(* devices; two tables; six frame numbers for the three physical pages.    *)
(***************************************************************************)
EXTENDS Paging

OnePageOfDevices == {2} \X {0, 1}

User(f)   == [frame |-> f, present |-> TRUE, system |-> FALSE]
System(f) == [frame |-> f, present |-> TRUE, system |-> TRUE]

\* A page for each process, one of them by a frame number beyond RAM and taken
\* away again at times, and a page of the kernel in the first table.
OwnPages == {<<0, User(3)>>, <<0, NoPte>>, <<1, System(2)>>, <<3, User(1)>>}

PagedUser == {{"PE"}}
AnyKernel == {{"SM"}, {"PE", "SM"}}
=============================================================================
