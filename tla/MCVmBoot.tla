------------------------------ MODULE MCVmBoot ------------------------------
(***************************************************************************)
(* VmBoot for TLC: the smallest RAM, an odd number of megabytes and more   *)
(* than 1 GB; kernels that just spare the stack and that end at the stack  *)
(* pointer, a bzImage of the usual size, ones that reach the ramdisk, end  *)
(* with the RAM or exceed it, one with a long setup.                       *)
(***************************************************************************)
EXTENDS VmBoot

Plain(size) == [form |-> "plain", setup |-> 1, size |-> size]
BzImage(setup, size) == [form |-> "bzImage", setup |-> setup, size |-> size]

MCRamSizes == {511 * MB, 512 * MB, 777 * MB, 2048 * MB}
MCKernels == {Plain(7 * MB - 1), Plain(7 * MB), Plain(200 * MB), BzImage(8, 10 * MB),
              BzImage(20, 12 * MB), BzImage(9, 600 * MB),
              [form |-> "stub", setup |-> 1, size |-> 1]}
MCRamdisks == {2 * MB, 384 * MB, 1000 * MB}
MCHosts == {[leaves |-> 50, most |-> 256], [leaves |-> 20, most |-> 100],
            [leaves |-> 40, most |-> 60]}
=============================================================================
