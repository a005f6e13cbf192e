-------------------------------- MODULE MCVm --------------------------------
(* Two processes and few pages, so that memory runs out at every point.       *)
EXTENDS Vm

MCImages == {1, 3}
MCGrows == {1, 12, -3, -6}
MCLasts == 8 .. 16

=============================================================================
