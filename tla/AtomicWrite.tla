------------------------------ MODULE AtomicWrite ------------------------------
(***************************************************************************)
(* The "temp file + os.replace" write of the report store (history.py      *)
(* _atomic_write) and of the evidence store (evidence.py, two methods).    *)
(*                                                                         *)
(* The temporary name of a path is a function of the path ("<path>.tmp"),  *)
(* so two writers of one path share it.  open("w") truncates whatever the  *)
(* name refers to, os.replace moves whatever the name refers to, and a     *)
(* writer goes on writing to the file it opened wherever that is by then:  *)
(* a handle says where its file is, "tmp", "final" or "gone" (unlinked).   *)
(*                                                                         *)
(* What different writers put at one path differs in a timestamp or a      *)
(* nonce at most (the path is named by a hash of the rest), which is not   *)
(* kept: a file is "whole", or "empty", which stands for any torn content. *)
(* Loss of power, against which only _atomic_write syncs, is not modelled. *)
(***************************************************************************)
CONSTANTS
  Procs,    \* threads of the API process and worker processes
  Files,    \* the paths
  NoFile    \* a process writes no file

ASSUME FilesAssumption == NoFile \notin Files

VARIABLES
  final,    \* path -> what a reader of the path finds
  tmp,      \* path -> what its temporary name refers to
  handle    \* process -> the write it is in

filesVars == <<final, tmp, handle>>

Contents == {"none", "empty", "whole"}

Closed == [file |-> NoFile, step |-> "closed", at |-> "gone"]

Handle == [file: Files \cup {NoFile},
           step: {"closed", "opening", "opened", "written"},
           at: {"tmp", "final", "gone"}]

FilesInit ==
  /\ final = [f \in Files |-> "none"]
  /\ tmp = [f \in Files |-> "none"]
  /\ handle = [p \in Procs |-> Closed]

\* The process has made up its mind to write f (it may have found it missing).
Intend(p, f) ==
  /\ handle[p].step = "closed"
  /\ handle' = [handle EXCEPT ![p] = [file |-> f, step |-> "opening", at |-> "gone"]]
  /\ UNCHANGED <<final, tmp>>

\* open(tmp, "w")
Open(p) ==
  LET f == handle[p].file IN
  /\ handle[p].step = "opening"
  /\ tmp' = [tmp EXCEPT ![f] = "empty"]
  /\ handle' = [handle EXCEPT ![p] = [@ EXCEPT !.step = "opened", !.at = "tmp"]]
  /\ UNCHANGED final

\* fh.write, flush, close
Write(p) ==
  LET f == handle[p].file IN
  /\ handle[p].step = "opened"
  /\ tmp' = [tmp EXCEPT ![f] = IF handle[p].at = "tmp" THEN "whole" ELSE @]
  /\ final' = [final EXCEPT ![f] = IF handle[p].at = "final" THEN "whole" ELSE @]
  /\ handle' = [handle EXCEPT ![p] = [@ EXCEPT !.step = "written"]]

\* Where the file of a handle is after os.replace moved f's temporary file
Moved(h, f) ==
  IF h.file # f THEN h
  ELSE [h EXCEPT !.at = IF h.at = "tmp" THEN "final" ELSE "gone"]

\* os.replace(tmp, path)
Replace(p) ==
  LET f == handle[p].file IN
  /\ handle[p].step = "written"
  /\ tmp[f] # "none"
  /\ final' = [final EXCEPT ![f] = tmp[f]]
  /\ tmp' = [tmp EXCEPT ![f] = "none"]
  /\ handle' = [q \in Procs |-> IF q = p THEN Closed ELSE Moved(handle[q], f)]

\* os.replace raises: another writer has moved the temporary file already.
ReplaceRaises(p) ==
  /\ handle[p].step = "written"
  /\ tmp[handle[p].file] = "none"
  /\ handle' = [handle EXCEPT ![p] = Closed]
  /\ UNCHANGED <<final, tmp>>

\* The process dies, or gives up between two writes.
Drop(p) ==
  /\ handle' = [handle EXCEPT ![p] = Closed]
  /\ UNCHANGED <<final, tmp>>

FilesTypeOK ==
  /\ final \in [Files -> Contents]
  /\ tmp \in [Files -> Contents]
  /\ handle \in [Procs -> Handle]
  /\ \A p \in Procs : handle[p].step # "closed" => handle[p].file \in Files
================================================================================
