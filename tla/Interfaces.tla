----------------------------- MODULE Interfaces -----------------------------
(***************************************************************************)
(* The collective interfaces of omp_io_interfaces.c: what each of them     *)
(* writes into fs->ioprms before it calls pthread_coll_io_base.  The field *)
(* `offsets` is not in ioprms: it says whether the caller passes file      *)
(* offsets (the _at_ interfaces).  ioprms->contig is YES only for the      *)
(* common BUF interfaces, where nothing reads it.                          *)
(***************************************************************************)

ReadAll ==
  [io_type |-> "READ", input_type |-> "BUF", merge_type |-> "MEM",
   same_prms |-> FALSE, offsets |-> FALSE]

\* Takes offsets and still sets merge_type to MEM.
ReadAtAll == [ReadAll EXCEPT !.offsets = TRUE]

WriteAll   == [ReadAll EXCEPT !.io_type = "WRITE"]
WriteAtAll == [WriteAll EXCEPT !.merge_type = "ALL", !.offsets = TRUE]

ReadListAll    == [ReadAll EXCEPT !.input_type = "LIST"]
ReadListAtAll  == [ReadListAll EXCEPT !.merge_type = "ALL", !.offsets = TRUE]
WriteListAll   == [WriteAll EXCEPT !.input_type = "LIST"]
WriteListAtAll == [WriteListAll EXCEPT !.merge_type = "ALL", !.offsets = TRUE]

ReadComAll    == [ReadAll EXCEPT !.same_prms = TRUE]
ReadComAtAll  == [ReadComAll EXCEPT !.merge_type = "ALL", !.offsets = TRUE]
WriteComAll   == [WriteAll EXCEPT !.same_prms = TRUE]
WriteComAtAll == [WriteComAll EXCEPT !.merge_type = "ALL", !.offsets = TRUE]

ReadComListAll    == [ReadListAll EXCEPT !.same_prms = TRUE]
ReadComListAtAll  == [ReadListAtAll EXCEPT !.same_prms = TRUE]
WriteComListAll   == [WriteListAll EXCEPT !.same_prms = TRUE]
WriteComListAtAll == [WriteListAtAll EXCEPT !.same_prms = TRUE]

BufInterfaces  == {ReadAll, ReadAtAll, WriteAll, WriteAtAll}
ListInterfaces ==
  {ReadListAll, ReadListAtAll, WriteListAll, WriteListAtAll,
   ReadComListAll, ReadComListAtAll, WriteComListAll, WriteComListAtAll}
ComInterfaces  == {ReadComAll, ReadComAtAll, WriteComAll, WriteComAtAll}

=============================================================================
