---------------------------- MODULE MCGpuChannel ----------------------------
(* Three cells and every page table over them, the wrong ones included.    *)
EXTENDS GpuChannel

MCVMaps == [Cells -> Cells]
=============================================================================
