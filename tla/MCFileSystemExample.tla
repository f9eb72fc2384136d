-------------------------- MODULE MCFileSystemExample --------------------------
(* Content of two units, a read buffer of three, and files from empty to    *)
(* four units, so that the old file is shorter than the content, longer    *)
(* than it, and longer than the buffer; two power failures.                *)
EXTENDS FileSystemExample
================================================================================
