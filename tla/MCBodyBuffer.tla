---------------------------- MODULE MCBodyBuffer -----------------------------
(* Small buffers: memory only, memory and file, file from the first byte, and    *)
(* no file system.                                                              *)
EXTENDS BodyBuffer

MCOptions ==
  { [Limit |-> 3, MemoryLimit |-> 3, HasAccessToFS |-> TRUE],
    [Limit |-> 4, MemoryLimit |-> 2, HasAccessToFS |-> TRUE],
    [Limit |-> 3, MemoryLimit |-> 1, HasAccessToFS |-> TRUE],
    [Limit |-> 4, MemoryLimit |-> 2, HasAccessToFS |-> FALSE] }

=============================================================================
