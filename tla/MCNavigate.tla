----------------------------- MODULE MCNavigate -----------------------------
(* A small file system for the file manager. Home has a subdirectory that  *)
(* can be read, one that chdir enters and opendir does not, and one that   *)
(* cannot be entered; it is longer than two screens, or has two entries.   *)
EXTENDS Navigate, TLC

CONSTANTS home, sub, blind, shut

Tree == [x \in {home, sub, blind, shut} |-> home]

Contents ==
  home :> {<<home, sub, blind, File, shut, File, File>>, <<blind, home>>}
    @@ sub :> {<<sub, home, File>>, <<File, sub, home, File, File>>}
    @@ blind :> {<<blind, home>>}
    @@ shut :> {<<shut, home>>}
=============================================================================
