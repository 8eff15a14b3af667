-------------------------------- MODULE MCPmm --------------------------------
(* Pages of two address units, three kernel pages of which the first holds *)
(* the kernel, and memory maps of one and two regions: a machine smaller   *)
(* than the kernel region, one with a hole across the boundary, a low      *)
(* region below the managed base as BIOSes report it, regions that reach   *)
(* the top of the address space, pass it or lie above it, and one region   *)
(* more than is kept.                                                      *)
EXTENDS Pmm

Region(b, l) == [base |-> b, length |-> l]

MCMaps == {
    <<Region(2, 18)>>,
    <<Region(0, 1), Region(2, 20)>>,
    <<Region(2, 4)>>,
    <<Region(2, 8), Region(14, 10)>>,
    <<Region(12, 8), Region(4, 6)>>,
    <<Region(2, 12), Region(20, 12)>>,
    <<Region(2, 14), Region(20, 20)>>,
    <<Region(2, 10), Region(46, 6)>>,
    <<Region(2, 6), Region(10, 4), Region(20, 4)>> }
=============================================================================
