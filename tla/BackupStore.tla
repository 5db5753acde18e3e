----------------------------- MODULE BackupStore ------------------------------
(***************************************************************************)
(* src/src/backup.js and the commands of src/bin/cli.js that write files:  *)
(* each process runs one command as a sequence of file-system calls, other *)
(* processes run between any two of them, and a process may die at any     *)
(* call.                                                                   *)
(*                                                                         *)
(* Contents are version numbers; Torn is what a file holds between being   *)
(* opened for writing and being written (empty, or cut short).  Time moves *)
(* with the calls that date a backup; clocks see it in units of grain      *)
(* (1: no two of these calls share a millisecond).  pathHash is taken to   *)
(* be injective, so the backups of a file are its own.                     *)
(*                                                                         *)
(* What runs at once is no choice of the program's: a setting says which   *)
(* processes there are, which commands they run and which may clean.       *)
(***************************************************************************)
EXTENDS Integers, Sequences, FiniteSets

CONSTANTS
  Procs,     \* processes
  Settings,  \* the settings: processes, cleaners, commands, grain of the clocks
  Keep,      \* --keep of clean-backups
  MaxTime,   \* bound: calls that date a backup
  MaxVer     \* bound: contents ever written

ASSUME StoreAssumption ==
  /\ Keep \in Nat \ {0}
  /\ IsFiniteSet(Procs)
  /\ \A s \in Settings : /\ s.procs \subseteq Procs /\ s.cleaners \subseteq Procs
                         /\ s.grain \in Nat \ {0}
  /\ MaxTime \in Nat /\ MaxVer \in Nat

Files == {"package.json", "package-lock.json"}
Torn == 0

VARIABLES
  setting,   \* the setting of this run: never changes
  file,      \* content of each file
  due,       \* history: what a truncated file held, or was getting back
  raced,     \* history: what an editor put into it between two calls of a command
             \* and no backup has been read from it since
  backups,   \* its backups: born and ctr give the name, at: last written
  now,       \* time
  ver,       \* contents made up so far
  plan,      \* calls each process has still to make
  kind,      \* the command it runs
  base,      \* what it read of each file when it started
  fresh,     \* the content it will write
  buf,       \* the content createBackup or restore has read
  slot,      \* the backup being written, by the time it was born
  names      \* backups restore has to read or clean has to unlink

procVars == <<plan, kind, base, fresh, buf, slot, names>>
vars == <<setting, file, due, raced, backups, now, ver, procVars>>

Call(op, f) == [op |-> op, file |-> f]
Backup(f) == <<Call("snap", f), Call("open", f), Call("fill", f)>>
Save(f) == <<Call("trunc", f), Call("write", f)>>
Await == <<Call("await", "package-lock.json")>>   \* the network

Package == "package.json"
Lock == "package-lock.json"

\* migrate, upgrade, prune, upgrade-hashes, dedupe and fix: no await.
MigratePlan == Backup(Lock) \o Save(Lock)
\* Mutant: createBackup before the registry is asked.
FixPlanEarlyBackup == Backup(Lock) \o Await \o Save(Lock)
\* fix-checksums: the backup is made after the registry has answered.
FixPlan == Await \o Backup(Lock) \o Save(Lock)
\* Mutant: backup and write file by file.
PinPlanFileByFile == Backup(Package) \o Save(Package) \o Backup(Lock) \o Save(Lock)
\* pin: both backups before the first write.
PinPlan == Backup(Package) \o Backup(Lock) \o Save(Package) \o Save(Lock)
\* remediate: writeJsonFile for one file, then for the other.
RemediatePlan == Await \o Backup(Package) \o Save(Package) \o Backup(Lock) \o Save(Lock)

\* The calls of each command that writes, after it has read its input.
Plan == [c \in {"migrate", "fix-checksums", "pin", "remediate"} |->
           CASE c = "migrate" -> MigratePlan
             [] c = "fix-checksums" -> FixPlan
             [] c = "pin" -> PinPlan
             [] c = "remediate" -> RemediatePlan]

Writers == DOMAIN Plan
Touched(c) == {Plan[c][i].file : i \in DOMAIN Plan[c]}

Init ==
  /\ setting \in Settings
  /\ file = [f \in Files |-> 1]
  /\ due = file
  /\ raced = [f \in Files |-> {}]
  /\ backups = [f \in Files |-> {}]
  /\ now = 0
  /\ ver = 1
  /\ plan = [p \in Procs |-> <<>>]
  /\ kind = [p \in Procs |-> "none"]
  /\ base = [p \in Procs |-> file]
  /\ fresh = [p \in Procs |-> Torn]
  /\ buf = [p \in Procs |-> Torn]
  /\ slot = [p \in Procs |-> 0]
  /\ names = [p \in Procs |-> <<>>]

-------------------------------------------------------------------------------
(* Names, dates, and the listing *)

Stamp(b) == b.born \div setting.grain
Name(b) == <<Stamp(b), b.ctr>>
MTime(b) == b.at \div setting.grain

\* readdir order of two names (suffixes below .10).
NameBefore(b, c) == Stamp(b) < Stamp(c) \/ (Stamp(b) = Stamp(c) /\ b.ctr < c.ctr)

\* Mutant: the comparison is the other way round.
ListedBeforeAscending(b, c) == MTime(b) < MTime(c) \/ (MTime(b) = MTime(c) /\ NameBefore(b, c))
\* listBackups: a stable sort of the directory by descending mtime.
ListedBefore(b, c) == MTime(b) > MTime(c) \/ (MTime(b) = MTime(c) /\ NameBefore(b, c))
ListBackups(f) ==
  [i \in 1..Cardinality(backups[f]) |->
     CHOOSE b \in backups[f] : Cardinality({c \in backups[f] : ListedBefore(c, b)}) = i - 1]

\* The counters of the names of this millisecond that exist.
Taken(f) == {b.ctr : b \in {b \in backups[f] : Stamp(b) = now \div setting.grain}}
\* Mutant: no counter suffix and no wx flag: the name is used whatever it holds.
FreeCtrReused(f) == 0
\* The first name that open(wx) does not refuse.
FreeCtr(f) == CHOOSE k \in 0..Cardinality(Taken(f)) :
                k \notin Taken(f) /\ \A j \in 0..(k - 1) : j \in Taken(f)

-------------------------------------------------------------------------------
(* Commands *)

Running(p) == plan[p] # <<>>

\* A command reads and parses its files; with --write and changes it goes on.
StartWriter(p, c) ==
  /\ ~Running(p) /\ c \in Writers /\ ver < MaxVer
  /\ \A f \in Touched(c) : file[f] # Torn
  /\ ver' = ver + 1
  /\ plan' = [plan EXCEPT ![p] = Plan[c]]
  /\ kind' = [kind EXCEPT ![p] = c]
  /\ base' = [base EXCEPT ![p] = file]
  /\ fresh' = [fresh EXCEPT ![p] = ver + 1]
  /\ UNCHANGED <<setting, file, due, raced, backups, now, buf, slot, names>>

\* restoreFromLatestBackup up to the listing; without a backup it throws.
StartRestore(p, f) ==
  /\ ~Running(p) /\ "restore" \in setting.commands
  /\ backups[f] # {}
  /\ names' = [names EXCEPT ![p] = <<Name(Head(ListBackups(f)))>>]
  /\ plan' = [plan EXCEPT ![p] = <<Call("load", f)>> \o Save(f)]
  /\ kind' = [kind EXCEPT ![p] = "restore"]
  /\ UNCHANGED <<setting, file, due, raced, backups, now, ver, base, fresh, buf, slot>>

\* Mutant: slice(keepCount - 1).
DoomedOneMore(f) == SubSeq(ListBackups(f), Keep, Cardinality(backups[f]))
\* backups.slice(keepCount)
Doomed(f) == SubSeq(ListBackups(f), Keep + 1, Cardinality(backups[f]))

\* cleanOldBackups up to its loop.
StartClean(p, f) ==
  /\ ~Running(p) /\ p \in setting.cleaners
  /\ Cardinality(backups[f]) > Keep
  /\ names' = [names EXCEPT ![p] = [i \in DOMAIN Doomed(f) |-> Name(Doomed(f)[i])]]
  /\ plan' = [plan EXCEPT ![p] = [i \in DOMAIN Doomed(f) |-> Call("unlink", f)]]
  /\ kind' = [kind EXCEPT ![p] = "clean-backups"]
  /\ UNCHANGED <<setting, file, due, raced, backups, now, ver, base, fresh, buf, slot>>

\* The process dies, between two calls or inside fill or write.
Crash(p) ==
  /\ Running(p)
  /\ plan' = [plan EXCEPT ![p] = <<>>]
  /\ UNCHANGED <<setting, file, due, raced, backups, now, ver, kind, base, fresh, buf, slot, names>>

-------------------------------------------------------------------------------
(* File-system calls *)

\* p makes its next call, which is op on f.
Next1(p, op, f) == /\ Running(p)
                   /\ Head(plan[p]) = Call(op, f)
                   /\ plan' = [plan EXCEPT ![p] = Tail(@)]
                   /\ UNCHANGED <<setting, ver, kind, base, fresh>>

\* The network answers; anything may have happened to the files meanwhile.
Answered(p, f) == /\ Next1(p, "await", f)
                  /\ UNCHANGED <<file, due, raced, backups, now, buf, slot, names>>

\* createBackup: readFileSync(absPath).
Snap(p, f) == /\ Next1(p, "snap", f)
              /\ buf' = [buf EXCEPT ![p] = file[f]]
              /\ raced' = [raced EXCEPT ![f] = @ \ {file[f]}]
              /\ UNCHANGED <<file, due, backups, now, slot, names>>

\* createBackup: the exclusive open creates an empty file.
OpenBackup(p, f) ==
  /\ Next1(p, "open", f)
  /\ now < MaxTime
  /\ now' = now + 1
  /\ slot' = [slot EXCEPT ![p] = now]
  /\ LET new == [born |-> now, ctr |-> FreeCtr(f), at |-> now, body |-> Torn] IN
     backups' = [backups EXCEPT ![f] = @ \cup {new}]
  /\ UNCHANGED <<file, due, raced, buf, names>>

\* createBackup: the content is written; a backup unlinked meanwhile stays gone.
FillBackup(p, f) ==
  /\ Next1(p, "fill", f)
  /\ now < MaxTime
  /\ now' = now + 1
  /\ backups' = [backups EXCEPT ![f] =
       {IF b.born = slot[p] THEN [b EXCEPT !.at = now, !.body = buf[p]] ELSE b : b \in @}]
  /\ UNCHANGED <<file, due, raced, buf, slot, names>>

\* writeFileSync(file): open with truncation, then write.
Truncate(p, f) == /\ Next1(p, "trunc", f)
                  /\ file' = [file EXCEPT ![f] = Torn]
                  /\ due' = [due EXCEPT ![f] =
                               IF kind[p] = "restore" THEN buf[p] ELSE file[f]]
                  /\ UNCHANGED <<raced, backups, now, buf, slot, names>>

\* Two writers at once may leave a mixture of both.
WriteFile(p, f) ==
  /\ Next1(p, "write", f)
  /\ LET new == IF kind[p] = "restore" THEN buf[p] ELSE fresh[p] IN
     \E c \in {new} \cup (IF file[f] = Torn THEN {} ELSE {Torn}) :
       file' = [file EXCEPT ![f] = c]
  /\ UNCHANGED <<due, raced, backups, now, buf, slot, names>>

\* restore: read the backup; if it was unlinked meanwhile the command throws.
LoadBackup(p, f) ==
  /\ Running(p) /\ Head(plan[p]) = Call("load", f)
  /\ LET found == {b \in backups[f] : Name(b) = Head(names[p])} IN
     IF found = {}
     THEN /\ plan' = [plan EXCEPT ![p] = <<>>]
          /\ UNCHANGED buf
     ELSE /\ plan' = [plan EXCEPT ![p] = Tail(@)]
          /\ \E b \in found : buf' = [buf EXCEPT ![p] = b.body]
  /\ UNCHANGED <<setting, file, due, raced, backups, now, ver, kind, base, fresh, slot, names>>

\* clean: unlink the next victim; if it is already gone the command throws.
Unlink(p, f) ==
  /\ Running(p) /\ Head(plan[p]) = Call("unlink", f)
  /\ LET v == Head(names[p])
         found == {b \in backups[f] : Name(b) = v} IN
     /\ backups' = [backups EXCEPT ![f] = @ \ found]
     /\ plan' = [plan EXCEPT ![p] = IF found = {} THEN <<>> ELSE Tail(@)]
     /\ names' = [names EXCEPT ![p] = Tail(@)]
  /\ UNCHANGED <<setting, file, due, raced, now, ver, kind, base, fresh, buf, slot>>

\* A command is between two calls, and does not wait for the network there.
InCalls == \E p \in Procs : Running(p) /\ Head(plan[p]).op # "await"

\* npm or an editor rewrites a file.
Edit(f) ==
  /\ ver < MaxVer
  /\ ver' = ver + 1
  /\ file' = [file EXCEPT ![f] = ver + 1]
  /\ raced' = IF InCalls THEN [raced EXCEPT ![f] = @ \cup {ver + 1}] ELSE raced
  /\ UNCHANGED <<setting, due, backups, now, procVars>>

Next ==
  \/ \E p \in setting.procs :
       \/ \E c \in setting.commands : StartWriter(p, c)
       \/ Crash(p)
       \/ \E f \in Files :
            \/ StartRestore(p, f) \/ StartClean(p, f)
            \/ Answered(p, f) \/ Snap(p, f) \/ OpenBackup(p, f) \/ FillBackup(p, f)
            \/ Truncate(p, f) \/ WriteFile(p, f) \/ LoadBackup(p, f) \/ Unlink(p, f)
  \/ \E f \in Files : Edit(f)

Spec == Init /\ [][Next]_vars

-------------------------------------------------------------------------------
(* Properties *)

\* One command at a time, on a clock that tells any two backups apart.
Orderly == Cardinality(setting.procs) = 1 /\ setting.grain = 1

Holds(f, c) == \E b \in backups[f] : b.body = c

\* "--write creates automatic backups before modifying files": what a command
\* overwrites is in a backup, even if the file was edited while the command
\* waited for the network and whatever earlier command died half-way. Only what
\* an editor puts there between the reading of the backup and the writing of the
\* file is lost: nothing locks the file.
OverwrittenIsBackedUp ==
  [][\A f \in Files :
       /\ Orderly /\ file'[f] # file[f]
       /\ \E p \in Procs : kind[p] \in Writers /\ plan'[p] # plan[p]
       => file[f] = Torn \/ Holds(f, file[f]) \/ file[f] \in raced[f]]_file

\* A file that a crash has left torn is brought back by restore: the newest
\* backup holds what the file held before it was truncated, if that was not edited
\* after the backup was read.
TornIsRestorable ==
  \A f \in Files :
    Orderly /\ file[f] = Torn /\ due[f] \notin raced[f] =>
      backups[f] # {} /\ Head(ListBackups(f)).body = due[f]

\* From pin's first write to its last, restoring both files brings back the pair
\* it read, or what an editor has made of it since, and nothing that pin wrote:
\* wherever it dies, package.json and the lockfile can be put back in step.
PinUndoable ==
  \A p \in Procs :
    Orderly /\ Running(p) /\ kind[p] = "pin" /\ Len(plan[p]) < 4
      => \A f \in Files :
           /\ backups[f] # {}
           /\ \/ Head(ListBackups(f)).body = base[p][f]
              \/ Head(ListBackups(f)).body > fresh[p]

\* A complete backup is never overwritten, though two processes back the same
\* file up in the same millisecond: it stays as it is until it is unlinked.
BackupsImmutable ==
  [][\A f \in Files : \A b \in backups[f], c \in backups'[f] :
       Name(b) = Name(c) /\ b.body # Torn => b = c]_backups

\* b is unlinked by this step.
Unlinked(f, b) == b \in backups[f] /\ \A c \in backups'[f] : Name(c) # Name(b)

\* clean-backups keeps "the most recent N": a backup is unlinked only while Keep
\* backups written after it remain; and however many processes add backups while
\* one cleans, no unlink leaves fewer than Keep.
CleanKeepsNewest ==
  [][\A f \in Files : \A b \in backups[f] :
       Unlinked(f, b) =>
         /\ Cardinality(setting.cleaners) = 1 => Cardinality(backups'[f]) >= Keep
         /\ Orderly => Cardinality({c \in backups'[f] : c.at > b.at}) >= Keep]_backups
===============================================================================
