----------------------------- MODULE MCBackupStore ----------------------------
(* BackupStore in two settings: one process that runs any command, and two   *)
(* that write the same lockfile within the same milliseconds, one of which   *)
(* also cleans up.                                                           *)
EXTENDS BackupStore

Cleaner == CHOOSE p \in Procs : TRUE
Alone == [procs |-> {Cleaner}, cleaners |-> {Cleaner},
          commands |-> Writers \cup {"restore"}, grain |-> 1]
Together == [procs |-> Procs, cleaners |-> {Cleaner}, commands |-> {"migrate"}, grain |-> 4]
MCSettings == {Alone, Together}
===============================================================================
