----------------------------- MODULE MCKernelLoader -----------------------------
(* Files of up to five units in pages of two: empty files, exact multiples *)
(* of a page and partial last pages, before and after a rewrite.           *)
EXTENDS KernelLoader
================================================================================
