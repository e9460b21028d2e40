---------------------------- MODULE MCGpuService ----------------------------
(* Two threads, two connections one after the other, and a small pool.     *)
EXTENDS GpuService, TLC

MCRequests ==
    {<<"Write", 0, 0>>, <<"Read", 0, 0>>, <<"Copy", 0, 1>>}
    \cup {<<"Alloc", n, 0>> : n \in {1, NumPages}}
    \cup {<<s, h, 0>> : s \in {"Free", "ReadBuffer"}, h \in 1 .. MaxHandle}
    \cup {<<"WriteBuffer", 1, 0>>, <<"CopyBuffer", 1, 1>>, <<"CopyBuffer", 1, 2>>}

\* A smaller choice for the liveness run.
LiveRequests ==
    {<<"Write", 0, 0>>, <<"Alloc", NumPages, 0>>, <<"Free", 1, 0>>, <<"ReadBuffer", 1, 0>>}

\* Threads are interchangeable, and so are connections.
Symmetry == Permutations(Threads) \cup Permutations(Conns)
=============================================================================
