---------------------------- MODULE MCFileTable -----------------------------
(***************************************************************************)
(* Contents of fs.config for TLC: fewer active threads than threads, and   *)
(* more, in a line that overrides an earlier one.                          *)
(***************************************************************************)
EXTENDS FileTable

Line(key, value) == [key |-> key, value |-> value]

FewAndMany ==
  {<<Line("active_threads", 2), Line("max_write_block_size", 4)>>,
   <<Line("active_threads", 1), Line("plfs", 0), Line("active_threads", 9)>>}

=============================================================================
