----------------------------- MODULE Processes ------------------------------
(***************************************************************************)
(* Two processes on one virtual_disk.bin: two command lines at once, or a  *)
(* shell and a command line.  The lock fs_mutex and the copies of the      *)
(* superblock and of the bitmap belong to a process; the disk is shared    *)
(* and nothing locks it.  The first process has the variables of MiniFs,   *)
(* the second has its own here and runs the same commands.                 *)
(*                                                                         *)
(* Bounds.  Commands of the two do not overlap: what is lost here is lost  *)
(* without any overlap.  A command whose copies promise a slot or a block  *)
(* that is not there does not run (module CrashFs has its error exits),    *)
(* and nobody formats a volume another process has open.                   *)
(***************************************************************************)
EXTENDS MiniFs

VARIABLES
  up2,    \* a second process has the volume open
  sb2,    \* its superblock
  bitmap2 \* its bitmap

first  == <<up, sb, bitmap>>
second == <<up2, sb2, bitmap2>>

Second == INSTANCE MiniFs WITH up <- up2, sb <- sb2, bitmap <- bitmap2

TwoInit == Init /\ Second!Init

\* Without a bit to change, bitmap_sync is not called.  MiniFs has the bitmap
\* written even then, which makes no difference to a process that is alone.
SyncsOnly(bits) == bits' = bits => dbitmap' = dbitmap

FirstRuns ==
  /\ \/ Mount \/ Unmount \/ Kill
     \/ Command /\ SyncsOnly(bitmap)
  /\ UNCHANGED second

SecondRuns ==
  /\ \/ Second!Mount \/ Second!Unmount \/ Second!Kill
     \/ Second!Command /\ SyncsOnly(bitmap2)
  /\ UNCHANGED first

\* A command line that formats while no other process is there.
FormatAlone ==
  /\ ~up2
  /\ \E arg \in FormatArg : CliFormat(arg)
  /\ UNCHANGED second

TwoNext == FirstRuns \/ SecondRuns \/ FormatAlone

TwoSpec == TwoInit /\ [][TwoNext]_<<vars, second>>

=============================================================================
