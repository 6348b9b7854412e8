------------------------------ MODULE NetnsHook ------------------------------
(***************************************************************************)
(* The netns hook, hook/netns.go: a link to the container's network        *)
(* namespace, made on post-run and removed on post-stop by the path that   *)
(* the post-run stored.  The operators are calls, with ok for a nil error  *)
(* and fault for a system call that failed on its own.                     *)
(***************************************************************************)
CONSTANTS
  NetnsFaults   \* the system calls that may fail

VARIABLES
  linkPath,  \* netnsHookSymlinkPath is set
  link       \* the link is there

netnsVars == <<linkPath, link>>

NetnsInit == linkPath = FALSE /\ link = FALSE

(* The pid and the directory come first, then the path is stored, then the   *)
(* link is made.                                                             *)
NetnsPostRun(ok) ==
  \/ ~ok /\ NetnsFaults \cap {"inspect", "mkdir"} # {} /\ UNCHANGED netnsVars
  \/ /\ linkPath' = TRUE
     /\ link' = (link \/ ok)
     /\ ~ok => "symlink" \in NetnsFaults

(* os.Remove fails without a path, and without a link.                       *)
NetnsPostStop(ok, fault) ==
  /\ fault => "remove" \in NetnsFaults
  /\ ok = (linkPath /\ link /\ ~fault)
  /\ link' = (link /\ ~ok)
  /\ UNCHANGED linkPath
=============================================================================
