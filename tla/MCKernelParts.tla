---------------------------- MODULE MCKernelParts ----------------------------
(***************************************************************************)
(* Three process slots, so that a slot and its pid are reused while a      *)
(* child of their last owner lives; four tasks that take turns in a queue  *)
(* of three; two signals; 13 pages in blocks of up to eight, from an       *)
(* aligned start and, as in the kernel's own test, from one a quarter of a *)
(* largest block off, with a pool that a few operations use up.            *)
(***************************************************************************)
EXTENDS KernelParts

==============================================================================
