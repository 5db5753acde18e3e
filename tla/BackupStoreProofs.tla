--------------------------- MODULE BackupStoreProofs ---------------------------
(***************************************************************************)
(* BackupStore, for any processes, settings, Keep and bounds: backups are  *)
(* never overwritten, in any setting; and one command at a time on a fine  *)
(* clock finds what it overwrites in a backup, leaves a torn file that     *)
(* restore brings back, can undo pin, and cleans up only old backups.      *)
(***************************************************************************)
EXTENDS BackupStore, SequenceTheorems, FunctionTheorems, FiniteSetTheorems, WellFoundedInduction, TLAPS

-------------------------------------------------------------------------------
(* Numbers, and how many elements a set has *)

\* The library states well-foundedness of an operator; this is the set the next lemma needs.
LEMMA LessIsWellFounded == IsWellFoundedOn({ss \in Nat \X Nat : ss[1] < ss[2]}, Nat)
<1>1. OpToRel(<, Nat) = {ss \in Nat \X Nat : ss[1] < ss[2]}
  BY DEF OpToRel
<1> QED
  BY <1>1, NatLessThanWellFounded

\* A set of natural numbers that is not empty has a least element.
LEMMA LeastNumber ==
  ASSUME NEW T \in SUBSET Nat, T # {}
  PROVE  \E x \in T : \A y \in T : x <= y
<1> DEFINE R == {ss \in Nat \X Nat : ss[1] < ss[2]}
<1>1. PICK x \in T : \A y \in T : ~(<<y, x>> \in R)
  <2> HIDE DEF R
  <2>1. IsWellFoundedOn(R, Nat)
    BY LessIsWellFounded DEF R
  <2> QED
    BY <2>1, WFMin
<1>2. ASSUME NEW y \in T PROVE x <= y
  <2>1. SUFFICES ASSUME y < x PROVE FALSE
    OBVIOUS
  <2>2. <<y, x>> \in Nat \X Nat /\ <<y, x>>[1] < <<y, x>>[2]
    BY <2>1
  <2>3. <<y, x>> \in R
    BY <2>2, Zenon
  <2> QED
    BY <2>3, <1>1
<1> QED
  BY <1>2

\* A finite set that different numbers up to n point into has n elements or more.
LEMMA NumberedSize ==
  ASSUME NEW S, IsFiniteSet(S), NEW n \in Nat, NEW f \in [1..n -> S],
         \A i, j \in 1..n : f[i] = f[j] => i = j
  PROVE  Cardinality(S) >= n
<1>1. f \in Injection(1..n, S)
  BY Fun_IsInj
<1>2. Cardinality(1..n) <= Cardinality(S) /\ Cardinality(S) \in Nat
  BY <1>1, FS_Injection, FS_CardinalityType
<1>3. Cardinality(1..n) = n
  BY FS_Interval, SMT
<1> QED
  BY <1>2, <1>3

\* A finite set in a strict order has, for each i up to its size, an element that i - 1 others precede.
LEMMA RankedElement ==
  ASSUME NEW S, IsFiniteSet(S), NEW R,
         \A x \in S : <<x, x>> \notin R,
         \A x, y, z \in S : <<x, y>> \in R /\ <<y, z>> \in R => <<x, z>> \in R,
         \A x, y \in S : x = y \/ <<x, y>> \in R \/ <<y, x>> \in R
  PROVE  /\ \A i \in 1..Cardinality(S) :
              \E x \in S : Cardinality({y \in S : <<y, x>> \in R}) = i - 1
         /\ \A x, y \in S : <<x, y>> \in R <=>
              Cardinality({z \in S : <<z, x>> \in R}) < Cardinality({z \in S : <<z, y>> \in R})
         /\ \A x \in S : Cardinality({y \in S : <<y, x>> \in R}) \in 0..(Cardinality(S) - 1)
<1> DEFINE Below(x) == {y \in S : <<y, x>> \in R}
           rank == [x \in S |-> Cardinality(Below(x))]
           n == Cardinality(S)
<1>1. n \in Nat
  BY FS_CardinalityType
<1>2. ASSUME NEW x \in S PROVE rank[x] \in 0..(n - 1)
  <2>1. IsFiniteSet(Below(x)) /\ Cardinality(Below(x)) <= n /\ (n = Cardinality(Below(x)) => S = Below(x))
    BY FS_Subset
  <2>2. x \notin Below(x)
    OBVIOUS
  <2>3. Cardinality(Below(x)) \in Nat /\ Cardinality(Below(x)) # n
    BY <2>1, <2>2, FS_CardinalityType
  <2> QED
    BY <1>1, <2>1, <2>3
<1>3. ASSUME NEW x \in S, NEW y \in S, <<x, y>> \in R PROVE rank[x] < rank[y]
  <2>1. Below(x) \subseteq Below(y) /\ x \in Below(y) /\ x \notin Below(x)
    BY <1>3
  <2>2. IsFiniteSet(Below(y))
    BY FS_Subset
  <2>3. Cardinality(Below(x)) <= Cardinality(Below(y)) /\ Cardinality(Below(x)) # Cardinality(Below(y))
    <3> HIDE DEF Below
    <3> QED
      BY <2>1, <2>2, FS_Subset
  <2> QED
    BY <1>2, <2>3
<1>4. ASSUME NEW x \in S, NEW y \in S, rank[x] < rank[y] PROVE <<x, y>> \in R
  <2>1. rank[x] \in Nat /\ rank[y] \in Nat /\ rank[x] < rank[y]
    BY <1>2, <1>4
  <2> HIDE DEF rank
  <2>2. x # y /\ ~(rank[y] < rank[x])
    BY <2>1
  <2> QED
    BY <2>2, <1>3
<1>5. rank \in Injection(S, 0..(n - 1))
  <2>1. rank \in [S -> 0..(n - 1)]
    BY <1>2
  <2>2. ASSUME NEW x \in S, NEW y \in S, rank[x] = rank[y] PROVE x = y
    <3>1. ~(rank[x] < rank[y]) /\ ~(rank[y] < rank[x])
      BY <1>2, <2>2
    <3> QED
      BY <3>1, <1>3
  <2> HIDE DEF rank
  <2> QED
    BY <2>1, <2>2, Fun_IsInj
<1>6. IsFiniteSet(0..(n - 1)) /\ Cardinality(0..(n - 1)) = n
  <2>1. 0 \in Int /\ n - 1 \in Int
    BY <1>1
  <2> QED
    BY <1>1, <2>1, FS_Interval, SMT
<1>7. rank \in Surjection(S, 0..(n - 1))
  <2> HIDE DEF rank
  <2> QED
    BY <1>5, <1>6, FS_Injection
<1>8. ASSUME NEW i \in 1..n PROVE \E x \in S : rank[x] = i - 1
  <2>1. i - 1 \in 0..(n - 1)
    BY <1>1
  <2>2. \A t \in 0..(n - 1) : \E x \in S : rank[x] = t
    <3> HIDE DEF rank, n
    <3> QED
      BY <1>7 DEF Surjection
  <2> QED
    BY <2>1, <2>2
<1> QED
  BY <1>2, <1>3, <1>4, <1>8

-------------------------------------------------------------------------------
(* The inductive invariant: what holds in every setting *)

Ops == {"await", "snap", "open", "fill", "trunc", "write", "load", "unlink"}
Calls == [op : Ops, file : Files]
Kinds == Writers \cup {"none", "restore", "clean-backups"}
Copies == [born : Nat, ctr : Nat, at : Nat, body : Nat]

TypeOK ==
  /\ setting \in Settings
  /\ file \in [Files -> Nat] /\ due \in [Files -> Nat] /\ raced \in [Files -> SUBSET Nat]
  /\ backups \in [Files -> SUBSET Copies]
  /\ \A f \in Files : IsFiniteSet(backups[f])
  /\ now \in Nat /\ ver \in Nat \ {0}
  /\ plan \in [Procs -> Seq(Calls)] /\ kind \in [Procs -> Kinds]
  /\ base \in [Procs -> [Files -> Nat]]
  /\ fresh \in [Procs -> Nat] /\ buf \in [Procs -> Nat] /\ slot \in [Procs -> Nat]
  /\ names \in [Procs -> Seq(Int \X Nat)]

\* The backups of a file differ in their births, their dates and their names.
Dated ==
  \A f \in Files : \A b \in backups[f] :
    /\ b.born < now /\ b.at < now
    /\ \A c \in backups[f] : b.born = c.born \/ b.at = c.at \/ Name(b) = Name(c) => b = c

\* What comes before and after a call in what is left of a plan.
Ordered(s) ==
  \A i \in DOMAIN s, f \in Files :
    /\ s[i] = Call("snap", f) => i + 1 \in DOMAIN s /\ s[i + 1] = Call("open", f)
    /\ s[i] = Call("open", f) => /\ i = 1 \/ s[i - 1] = Call("snap", f)
                                 /\ i + 1 \in DOMAIN s /\ s[i + 1] = Call("fill", f)
    /\ s[i] = Call("fill", f) => i = 1 \/ s[i - 1] = Call("open", f)
    /\ s[i] = Call("trunc", f) => i + 1 \in DOMAIN s /\ s[i + 1] = Call("write", f)
    /\ s[i] = Call("write", f) => /\ i = 1 \/ s[i - 1] = Call("trunc", f)
                                  /\ \A j \in DOMAIN s, op \in Ops : j > i => s[j] # Call(op, f)
    /\ s[i] \in {Call("await", f), Call("load", f)} => i = 1

Has(s, op, f) == \E i \in DOMAIN s : s[i] = Call(op, f)

\* A writer still has to back up what it truncates, if it waits for the network.
Writes(s) ==
  \A f \in Files :
    /\ ~Has(s, "load", f) /\ ~Has(s, "unlink", f)
    /\ s[1] = Call("await", f) =>
         \A g \in Files : Has(s, "trunc", g) => Has(s, "fill", g)

\* pin never waits, and writes both files in its last four calls.
Pins(s) ==
  /\ \A f \in Files : ~Has(s, "await", f)
  /\ \A i \in DOMAIN s : (\E f \in Files : s[i] \in {Call("trunc", f), Call("write", f)}) <=> Len(s) - i < 4
  /\ Len(s) >= 4 => \A f \in Files : Has(s, "trunc", f)

Restores(s) ==
  \E f \in Files : s \in {<<Call("load", f), Call("trunc", f), Call("write", f)>>,
                          <<Call("trunc", f), Call("write", f)>>, <<Call("write", f)>>}

Cleans(s) == \E f \in Files : \A i \in DOMAIN s : s[i] = Call("unlink", f)

ShapedAt(p) ==
  Running(p) =>
    /\ p \in setting.procs
    /\ Ordered(plan[p])
    /\ kind[p] \in Writers => Writes(plan[p]) /\ fresh[p] # Torn
    /\ kind[p] = "pin" => Pins(plan[p])
    /\ kind[p] = "restore" => Restores(plan[p])
    /\ kind[p] = "clean-backups" =>
         p \in setting.cleaners /\ Cleans(plan[p]) /\ Len(names[p]) = Len(plan[p])
    /\ kind[p] # "none"

Shaped == \A p \in Procs : ShapedAt(p)

\* p has opened a backup of f and has still to fill it.
Fills(p, f) == Running(p) /\ Head(plan[p]) = Call("fill", f)

\* A backup that is still to be filled is empty, and only one process fills it.
Filling ==
  \A p \in Procs, f \in Files : Fills(p, f) =>
    /\ slot[p] < now
    /\ \A g \in Files : \A b \in backups[g] : b.born = slot[p] => b.body = Torn
    /\ \A q \in Procs, g \in Files : q # p /\ Fills(q, g) => slot[q] # slot[p]

\* The names of f that p will not unlink.
Listed(f) == {Name(b) : b \in backups[f]}
Due(p) == {names[p][i] : i \in DOMAIN names[p]}
Cleaning(p, f) == Running(p) /\ kind[p] = "clean-backups" /\ Head(plan[p]) = Call("unlink", f)

\* A lone cleaner spares Keep names.
Spares ==
  Cardinality(setting.cleaners) = 1 =>
    \A p \in Procs, f \in Files :
      Cleaning(p, f) => Cardinality(Listed(f) \ Due(p)) >= Keep

GeneralInv == TypeOK /\ Dated /\ Shaped /\ Filling /\ Spares

-------------------------------------------------------------------------------
(* ... and what holds if commands run one at a time on a fine clock *)

Newest(f, b) == \A c \in backups[f] : c = b \/ c.at < b.at
\* The newest backup of f holds v.
Latest(f, v) == \E b \in backups[f] : b.body = v /\ Newest(f, b)

\* ... or an editor put v there after the backup was read.
Safe(f, v) == Latest(f, v) \/ v \in raced[f]

\* A writer at work: what it is to back up or truncate is whole, what it has read
\* is what the file holds, what it truncates next is in the newest backup, and so
\* is what it has truncated -- but for what an editor put there meanwhile.
Saving(p) ==
  /\ \A f \in Files, op \in {"snap", "open", "fill", "trunc"} : Has(plan[p], op, f) => file[f] # Torn
  /\ \A f \in Files :
       /\ Head(plan[p]) \in {Call("open", f), Call("fill", f)} =>
            buf[p] = file[f] \/ file[f] \in raced[f]
       /\ Head(plan[p]) = Call("fill", f) => \E b \in backups[f] : b.born = slot[p]
       /\ Has(plan[p], "trunc", f) /\ ~Has(plan[p], "fill", f) => Safe(f, file[f])
       /\ Head(plan[p]) = Call("write", f) =>
            (file[f] = Torn \/ file[f] \in raced[f]) /\ Safe(f, due[f])

\* What p read of f, or what was made of it later.
AsRead(p, f, v) == v = base[p][f] \/ v > fresh[p]

\* pin: until it writes, the files are as it read them or newer, and what it has
\* read from a file, and then the file's newest backup, are so all along.
Pinning(p) ==
  /\ fresh[p] <= ver
  /\ Len(plan[p]) >= 4 => \A f \in Files : AsRead(p, f, file[f])
  /\ \A f \in Files :
       /\ Head(plan[p]) \in {Call("open", f), Call("fill", f)} => AsRead(p, f, buf[p])
       /\ ~Has(plan[p], "fill", f) => \E v \in Nat : AsRead(p, f, v) /\ Latest(f, v)

\* restore: the backup it named, then read, is the newest.
Restoring(p) ==
  \A f \in Files :
    /\ Head(plan[p]) = Call("load", f) =>
         \E b \in backups[f] : names[p] = <<Name(b)>> /\ Newest(f, b)
    /\ Head(plan[p]) \in {Call("trunc", f), Call("write", f)} => Latest(f, buf[p])
    /\ Head(plan[p]) = Call("write", f) => due[f] = buf[p]

\* clean-backups: Keep newer backups are spared for each one to unlink.
Tidying(p) ==
  \A f \in Files : Head(plan[p]) = Call("unlink", f) =>
    \A b \in backups[f] : Name(b) \in Due(p) =>
      Cardinality({c \in backups[f] : Name(c) \notin Due(p) /\ c.at > b.at}) >= Keep

AtWork(p) ==
  Running(p) =>
    /\ kind[p] \in Writers => Saving(p)
    /\ kind[p] = "pin" => Pinning(p)
    /\ kind[p] = "restore" => Restoring(p)
    /\ kind[p] = "clean-backups" => Tidying(p)

\* What a torn file held, or was getting back, is in the newest backup, but for
\* what an editor put there after the backup was read.
TornSaved == \A f \in Files : file[f] = Torn => Safe(f, due[f])

OrderlyInv == Orderly => (\A p \in Procs : AtWork(p)) /\ TornSaved

IInv == GeneralInv /\ OrderlyInv

-------------------------------------------------------------------------------
(* Plans *)

\* The calls are the ones this module lists.
LEMMA CallType == ASSUME NEW op \in Ops, NEW f \in Files PROVE Call(op, f) \in Calls
BY DEF Call, Calls

\* A file is package.json or the lockfile.
LEMMA FileNames == Files = {Package, Lock} /\ Package # Lock
BY DEF Files, Package, Lock

\* What is left of a plan after its first call.
LEMMA TailOf ==
  ASSUME NEW s \in Seq(Calls), s # <<>>
  PROVE  /\ Tail(s) \in Seq(Calls) /\ Len(s) \in Nat \ {0} /\ Len(Tail(s)) = Len(s) - 1
         /\ Head(s) = s[1] /\ s[1] \in Calls /\ DOMAIN s = 1..Len(s)
         /\ DOMAIN Tail(s) = 1..(Len(s) - 1)
         /\ \A i \in DOMAIN Tail(s) : i + 1 \in DOMAIN s /\ Tail(s)[i] = s[i + 1]
         /\ \A i \in DOMAIN s : i # 1 => i - 1 \in DOMAIN Tail(s) /\ Tail(s)[i - 1] = s[i]
OBVIOUS

\* Two calls are the same if they do the same to the same file.
LEMMA CallsDiffer ==
  /\ \A op, o, f, g : Call(op, f) = Call(o, g) <=> op = o /\ f = g
  /\ \A c \in Calls : \E op \in Ops, f \in Files : c = Call(op, f)
BY DEF Call, Calls

\* Order is kept by what is left of a plan.
LEMMA OrderedTail ==
  ASSUME NEW s \in Seq(Calls), s # <<>>, Ordered(s)
  PROVE  Ordered(Tail(s))
<1> DEFINE t == Tail(s)
<1>1. /\ Len(s) \in Nat \ {0} /\ DOMAIN s = 1..Len(s) /\ DOMAIN t = 1..(Len(s) - 1)
      /\ \A i \in DOMAIN t : i + 1 \in DOMAIN s /\ t[i] = s[i + 1]
  BY TailOf
<1> HIDE DEF t
<1> SUFFICES ASSUME NEW i \in DOMAIN t, NEW f \in Files
             PROVE  /\ t[i] = Call("snap", f) => i + 1 \in DOMAIN t /\ t[i + 1] = Call("open", f)
                    /\ t[i] = Call("open", f) => /\ i = 1 \/ t[i - 1] = Call("snap", f)
                                                 /\ i + 1 \in DOMAIN t /\ t[i + 1] = Call("fill", f)
                    /\ t[i] = Call("fill", f) => i = 1 \/ t[i - 1] = Call("open", f)
                    /\ t[i] = Call("trunc", f) => i + 1 \in DOMAIN t /\ t[i + 1] = Call("write", f)
                    /\ t[i] = Call("write", f) =>
                         /\ i = 1 \/ t[i - 1] = Call("trunc", f)
                         /\ \A j \in DOMAIN t, op \in Ops : j > i => t[j] # Call(op, f)
                    /\ t[i] \in {Call("await", f), Call("load", f)} => i = 1
  BY DEF Ordered, t
<1>2. /\ i + 1 \in DOMAIN s /\ t[i] = s[i + 1] /\ i \in 1..(Len(s) - 1) /\ i + 1 # 1 /\ i + 1 - 1 = i
      /\ i + 1 + 1 \in DOMAIN s => i + 1 \in DOMAIN t /\ t[i + 1] = s[i + 1 + 1]
      /\ i # 1 => i - 1 \in DOMAIN t /\ t[i - 1] = s[i]
  BY <1>1
<1>3. ASSUME NEW k \in DOMAIN s
      PROVE  /\ s[k] = Call("snap", f) => k + 1 \in DOMAIN s /\ s[k + 1] = Call("open", f)
             /\ s[k] = Call("open", f) => /\ k = 1 \/ s[k - 1] = Call("snap", f)
                                          /\ k + 1 \in DOMAIN s /\ s[k + 1] = Call("fill", f)
             /\ s[k] = Call("fill", f) => k = 1 \/ s[k - 1] = Call("open", f)
             /\ s[k] = Call("trunc", f) => k + 1 \in DOMAIN s /\ s[k + 1] = Call("write", f)
             /\ s[k] = Call("write", f) =>
                  /\ k = 1 \/ s[k - 1] = Call("trunc", f)
                  /\ \A j \in DOMAIN s, op \in Ops : j > k => s[j] # Call(op, f)
             /\ s[k] \in {Call("await", f), Call("load", f)} => k = 1
  BY Zenon DEF Ordered
<1>4. t[i] = Call("write", f) => \A j \in DOMAIN t, op \in Ops : j > i => t[j] # Call(op, f)
  <2> SUFFICES ASSUME t[i] = Call("write", f), NEW j \in DOMAIN t, NEW op \in Ops, j > i
               PROVE  t[j] # Call(op, f)
    OBVIOUS
  <2>1. j + 1 \in DOMAIN s /\ t[j] = s[j + 1] /\ j + 1 > i + 1
    BY <1>1, <1>2
  <2> QED
    BY <2>1, <1>2, <1>3
<1> QED
  BY <1>2, <1>3, <1>4

\* The calls that are left are those of the plan, but for its first.
LEMMA HasTail ==
  ASSUME NEW s \in Seq(Calls), s # <<>>, NEW op, NEW f
  PROVE  /\ Has(Tail(s), op, f) => Has(s, op, f)
         /\ Has(s, op, f) => s[1] = Call(op, f) \/ Has(Tail(s), op, f)
         /\ s[1] = Call(op, f) => Has(s, op, f)
<1> DEFINE t == Tail(s)
<1>1. /\ 1 \in DOMAIN s /\ \A i \in DOMAIN t : i + 1 \in DOMAIN s /\ t[i] = s[i + 1]
      /\ \A i \in DOMAIN s : i # 1 => i - 1 \in DOMAIN t /\ t[i - 1] = s[i]
  BY TailOf
<1> HIDE DEF t
<1>2. Has(t, op, f) => Has(s, op, f)
  BY <1>1 DEF Has
<1>3. Has(s, op, f) => s[1] = Call(op, f) \/ Has(t, op, f)
  BY <1>1 DEF Has
<1> QED
  BY <1>1, <1>2, <1>3 DEF Has, t

\* Where a call stands in an ordered plan.
LEMMA OrderedHead ==
  ASSUME NEW s \in Seq(Calls), s # <<>>, Ordered(s), Tail(s) # <<>>, NEW f \in Files
  PROVE  LET t == Tail(s) IN
         /\ t[1] = Call("open", f) => s[1] = Call("snap", f)
         /\ t[1] = Call("fill", f) => s[1] = Call("open", f)
         /\ t[1] = Call("write", f) => s[1] = Call("trunc", f)
         /\ t[1] \notin {Call("await", f), Call("load", f)}
<1>1. 2 \in DOMAIN s /\ Tail(s)[1] = s[2] /\ 2 - 1 = 1
  <2>1. Tail(s) \in Seq(Calls) /\ DOMAIN Tail(s) = 1..Len(Tail(s)) /\ Len(Tail(s)) # 0
    BY TailOf
  <2>2. 1 \in DOMAIN Tail(s) /\ 1 + 1 = 2
    BY <2>1, TailOf
  <2> QED
    BY <2>2, TailOf
<1>2. /\ s[2] = Call("open", f) => 2 = 1 \/ s[2 - 1] = Call("snap", f)
      /\ s[2] = Call("fill", f) => 2 = 1 \/ s[2 - 1] = Call("open", f)
      /\ s[2] = Call("write", f) => 2 = 1 \/ s[2 - 1] = Call("trunc", f)
      /\ s[2] \in {Call("await", f), Call("load", f)} => 2 = 1
  BY <1>1, Zenon DEF Ordered
<1> QED
  BY <1>1, <1>2

\* After its first call, a plan neither backs up a file it has truncated nor
\* truncates one it is writing.
LEMMA OrderedAfter ==
  ASSUME NEW s \in Seq(Calls), s # <<>>, Ordered(s), NEW f \in Files
  PROVE  /\ \A op \in Ops : s[1] = Call("trunc", f) /\ Has(Tail(s), op, f) => op = "write"
         /\ \A op \in Ops : s[1] = Call("write", f) => ~Has(Tail(s), op, f)
         /\ s[1] = Call("snap", f) => Has(s, "fill", f)
         /\ s[1] = Call("open", f) => Has(s, "fill", f)
<1> DEFINE t == Tail(s)
<1>1. /\ 1 \in DOMAIN s /\ Len(s) \in Nat /\ DOMAIN s = 1..Len(s) /\ 1 + 1 = 2 /\ 2 + 1 = 3
      /\ \A i \in DOMAIN t : i + 1 \in DOMAIN s /\ i + 1 > 1 /\ t[i] = s[i + 1]
  BY TailOf
<1>0. ASSUME NEW i \in DOMAIN s
      PROVE  /\ s[i] = Call("snap", f) => i + 1 \in DOMAIN s /\ s[i + 1] = Call("open", f)
             /\ s[i] = Call("open", f) => i + 1 \in DOMAIN s /\ s[i + 1] = Call("fill", f)
             /\ s[i] = Call("trunc", f) => i + 1 \in DOMAIN s /\ s[i + 1] = Call("write", f)
             /\ s[i] = Call("write", f) => \A j \in DOMAIN s, op \in Ops : j > i => s[j] # Call(op, f)
  BY Zenon DEF Ordered
<1> HIDE DEF t
<1>2. ASSUME s[1] = Call("trunc", f), NEW op \in Ops, Has(t, op, f) PROVE op = "write"
  <2>1. 2 \in DOMAIN s /\ s[2] = Call("write", f)
    BY <1>0, <1>1, <1>2
  <2>2. \A j \in DOMAIN s : j > 2 => s[j] # Call(op, f)
    BY <1>0, <2>1
  <2>3. PICK i \in DOMAIN t : s[i + 1] = Call(op, f) /\ i + 1 > 1 /\ i + 1 \in DOMAIN s
    BY <1>1, <1>2 DEF Has
  <2>4. i + 1 = 2
    BY <1>1, <2>2, <2>3
  <2> QED
    BY <2>1, <2>3, <2>4, CallsDiffer
<1>3. ASSUME s[1] = Call("write", f), NEW op \in Ops PROVE ~Has(t, op, f)
  BY <1>0, <1>1, <1>3 DEF Has
<1>4. s[1] = Call("open", f) => Has(s, "fill", f)
  BY <1>0, <1>1 DEF Has
<1>5. ASSUME s[1] = Call("snap", f) PROVE Has(s, "fill", f)
  <2>1. 2 \in DOMAIN s /\ s[2] = Call("open", f)
    BY <1>0, <1>1, <1>5
  <2>2. 3 \in DOMAIN s /\ s[3] = Call("fill", f)
    BY <1>0, <2>1, <1>1
  <2> QED
    BY <2>2 DEF Has
<1> QED
  BY <1>2, <1>3, <1>4, <1>5 DEF t

\* The tails of short sequences.
LEMMA TwoTails == \A a, b, c : Tail(<<a, b, c>>) = <<b, c>> /\ Tail(<<a, b>>) = <<b>> /\ Tail(<<a>>) = <<>>
<1> SUFFICES ASSUME NEW a, NEW b, NEW c
             PROVE  Tail(<<a, b, c>>) = <<b, c>> /\ Tail(<<a, b>>) = <<b>> /\ Tail(<<a>>) = <<>>
  OBVIOUS
<1> DEFINE S == {a, b, c}
           x == Tail(<<a, b, c>>)
           y == Tail(<<a, b>>)
           z == Tail(<<a>>)
<1>1. x \in Seq(S) /\ Len(x) = 2 /\ x[1] = b /\ x[2] = c
  OBVIOUS
<1>2. y \in Seq(S) /\ Len(y) = 1 /\ y[1] = b
  OBVIOUS
<1>3. z \in Seq(S) /\ Len(z) = 0
  OBVIOUS
<1> HIDE DEF x, y, z
<1>4. x = <<b, c>> /\ y = <<b>> /\ z = <<>>
  BY <1>1, <1>2, <1>3
<1> QED
  BY <1>4 DEF x, y, z

\* What is left of a writer's plan is a writer's, of pin's pin's, and so on.
LEMMA ShapeTail ==
  ASSUME NEW s \in Seq(Calls), s # <<>>, Ordered(s), Tail(s) # <<>>
  PROVE  /\ Writes(s) => Writes(Tail(s))
         /\ Pins(s) => Pins(Tail(s))
         /\ Restores(s) => Restores(Tail(s))
         /\ Cleans(s) => Cleans(Tail(s))
<1> DEFINE t == Tail(s)
<1>1. /\ Len(s) \in Nat \ {0} /\ DOMAIN s = 1..Len(s) /\ DOMAIN t = 1..Len(t) /\ Len(t) = Len(s) - 1
      /\ \A i \in DOMAIN t : i + 1 \in DOMAIN s /\ t[i] = s[i + 1]
  BY TailOf
<1>2. Writes(s) => Writes(t)
  <2>1. \A f \in Files : t[1] # Call("await", f)
    BY OrderedHead
  <2>2. \A op, f : Has(t, op, f) => Has(s, op, f)
    BY HasTail
  <2> HIDE DEF t
  <2> QED
    BY <2>1, <2>2 DEF Writes
<1>3. Pins(s) => Pins(t)
  <2> SUFFICES ASSUME Pins(s) PROVE Pins(t)
    OBVIOUS
  <2>4. \A f \in Files : ~Has(t, "await", f)
    BY HasTail DEF Pins
  <2> DEFINE Saves(c) == \E f \in Files : c \in {Call("trunc", f), Call("write", f)}
  <2>1. \A i \in DOMAIN s : Saves(s[i]) <=> Len(s) - i < 4
    BY DEF Pins
  <2>2. \A i \in DOMAIN t : Saves(t[i]) <=> Len(t) - i < 4
    <3> HIDE DEF t, Saves
    <3> QED
      BY <1>1, <2>1
  <2>3. ASSUME Len(t) >= 4, NEW f \in Files PROVE Has(t, "trunc", f)
    <3>1. Has(s, "trunc", f) /\ 1 \in DOMAIN s /\ ~(Len(s) - 1 < 4)
      BY <1>1, <2>3 DEF Pins
    <3>2. s[1] # Call("trunc", f)
      BY <2>1, <3>1
    <3> QED
      BY <3>1, <3>2, HasTail
  <2> QED
    BY <2>2, <2>3, <2>4 DEF Pins
<1>4. Restores(s) => Restores(t)
  <2> SUFFICES ASSUME NEW f \in Files,
                      s \in {<<Call("load", f), Call("trunc", f), Call("write", f)>>,
                             <<Call("trunc", f), Call("write", f)>>, <<Call("write", f)>>}
               PROVE  t \in {<<Call("trunc", f), Call("write", f)>>, <<Call("write", f)>>}
    BY DEF Restores
  <2>1. /\ Tail(<<Call("load", f), Call("trunc", f), Call("write", f)>>)
             = <<Call("trunc", f), Call("write", f)>>
        /\ Tail(<<Call("trunc", f), Call("write", f)>>) = <<Call("write", f)>>
        /\ Tail(<<Call("write", f)>>) = <<>>
    BY TwoTails
  <2> QED
    BY <2>1
<1>5. Cleans(s) => Cleans(t)
  BY <1>1 DEF Cleans
<1> QED
  BY <1>2, <1>3, <1>4, <1>5

\* Two short sequences, one after the other.
LEMMA Joined ==
  /\ \A a, b, c, d :
       <<a>> \o <<b, c, d>> = <<a, b, c, d>>
  /\ \A a, b, c, d, e :
       <<a, b, c>> \o <<d, e>> = <<a, b, c, d, e>>
  /\ \A a, b, c, d, e, f :
       <<a, b, c, d>> \o <<e, f>> = <<a, b, c, d, e, f>>
  /\ \A a, b, c, d, e, f :
       <<a, b, c>> \o <<d, e, f>> = <<a, b, c, d, e, f>>
  /\ \A a, b, c, d, e, f, g, h :
       <<a, b, c, d, e, f>> \o <<g, h>> = <<a, b, c, d, e, f, g, h>>
  /\ \A a, b, c, d, e, f, g, h, i :
       <<a, b, c, d, e, f>> \o <<g, h, i>> = <<a, b, c, d, e, f, g, h, i>>
  /\ \A a, b, c, d, e, f, g, h, i, j :
       <<a, b, c, d, e, f, g, h>> \o <<i, j>> = <<a, b, c, d, e, f, g, h, i, j>>
  /\ \A a, b, c, d, e, f, g, h, i, j, k :
       <<a, b, c, d, e, f, g, h, i>> \o <<j, k>> = <<a, b, c, d, e, f, g, h, i, j, k>>
<1>1. ASSUME NEW a, NEW b, NEW c, NEW d
      PROVE  <<a>> \o <<b, c, d>> = <<a, b, c, d>>
  <2> DEFINE S == {a, b, c, d}
             x == <<a>> \o <<b, c, d>>
  <2>1. x \in Seq(S) /\ Len(x) = 4
    OBVIOUS
  <2>2. x[1] = a /\ x[2] = b /\ x[3] = c /\ x[4] = d
    OBVIOUS
  <2> HIDE DEF x
  <2>3. x = <<a, b, c, d>>
    BY <2>1, <2>2
  <2> QED
    BY <2>3 DEF x
<1>2. ASSUME NEW a, NEW b, NEW c, NEW d, NEW e
      PROVE  <<a, b, c>> \o <<d, e>> = <<a, b, c, d, e>>
  <2> DEFINE S == {a, b, c, d, e}
             x == <<a, b, c>> \o <<d, e>>
  <2>1. x \in Seq(S) /\ Len(x) = 5
    OBVIOUS
  <2>2. x[1] = a /\ x[2] = b /\ x[3] = c /\ x[4] = d /\ x[5] = e
    OBVIOUS
  <2> HIDE DEF x
  <2>3. x = <<a, b, c, d, e>>
    BY <2>1, <2>2
  <2> QED
    BY <2>3 DEF x
<1>3. ASSUME NEW a, NEW b, NEW c, NEW d, NEW e, NEW f
      PROVE  <<a, b, c, d>> \o <<e, f>> = <<a, b, c, d, e, f>>
  <2> DEFINE S == {a, b, c, d, e, f}
             x == <<a, b, c, d>> \o <<e, f>>
  <2>1. x \in Seq(S) /\ Len(x) = 6
    OBVIOUS
  <2>2. x[1] = a /\ x[2] = b /\ x[3] = c /\ x[4] = d /\ x[5] = e /\ x[6] = f
    OBVIOUS
  <2> HIDE DEF x
  <2>3. x = <<a, b, c, d, e, f>>
    BY <2>1, <2>2
  <2> QED
    BY <2>3 DEF x
<1>4. ASSUME NEW a, NEW b, NEW c, NEW d, NEW e, NEW f
      PROVE  <<a, b, c>> \o <<d, e, f>> = <<a, b, c, d, e, f>>
  <2> DEFINE S == {a, b, c, d, e, f}
             x == <<a, b, c>> \o <<d, e, f>>
  <2>1. x \in Seq(S) /\ Len(x) = 6
    OBVIOUS
  <2>2. x[1] = a /\ x[2] = b /\ x[3] = c /\ x[4] = d /\ x[5] = e /\ x[6] = f
    OBVIOUS
  <2> HIDE DEF x
  <2>3. x = <<a, b, c, d, e, f>>
    BY <2>1, <2>2
  <2> QED
    BY <2>3 DEF x
<1>5. ASSUME NEW a, NEW b, NEW c, NEW d, NEW e, NEW f, NEW g, NEW h
      PROVE  <<a, b, c, d, e, f>> \o <<g, h>> = <<a, b, c, d, e, f, g, h>>
  <2> DEFINE S == {a, b, c, d, e, f, g, h}
             x == <<a, b, c, d, e, f>> \o <<g, h>>
  <2>1. x \in Seq(S) /\ Len(x) = 8
    OBVIOUS
  <2>2. x[1] = a /\ x[2] = b /\ x[3] = c /\ x[4] = d /\ x[5] = e /\ x[6] = f
        /\ x[7] = g /\ x[8] = h
    OBVIOUS
  <2> HIDE DEF x
  <2>3. x = <<a, b, c, d, e, f, g, h>>
    BY <2>1, <2>2
  <2> QED
    BY <2>3 DEF x
<1>6. ASSUME NEW a, NEW b, NEW c, NEW d, NEW e, NEW f, NEW g, NEW h, NEW i
      PROVE  <<a, b, c, d, e, f>> \o <<g, h, i>> = <<a, b, c, d, e, f, g, h, i>>
  <2> DEFINE S == {a, b, c, d, e, f, g, h, i}
             x == <<a, b, c, d, e, f>> \o <<g, h, i>>
  <2>1. x \in Seq(S) /\ Len(x) = 9
    OBVIOUS
  <2>2. x[1] = a /\ x[2] = b /\ x[3] = c /\ x[4] = d /\ x[5] = e /\ x[6] = f
        /\ x[7] = g /\ x[8] = h /\ x[9] = i
    OBVIOUS
  <2> HIDE DEF x
  <2>3. x = <<a, b, c, d, e, f, g, h, i>>
    BY <2>1, <2>2
  <2> QED
    BY <2>3 DEF x
<1>7. ASSUME NEW a, NEW b, NEW c, NEW d, NEW e, NEW f, NEW g, NEW h, NEW i, NEW j
      PROVE  <<a, b, c, d, e, f, g, h>> \o <<i, j>> = <<a, b, c, d, e, f, g, h, i, j>>
  <2> DEFINE S == {a, b, c, d, e, f, g, h, i, j}
             x == <<a, b, c, d, e, f, g, h>> \o <<i, j>>
  <2>1. x \in Seq(S) /\ Len(x) = 10
    OBVIOUS
  <2>2. x[1] = a /\ x[2] = b /\ x[3] = c /\ x[4] = d /\ x[5] = e /\ x[6] = f
        /\ x[7] = g /\ x[8] = h /\ x[9] = i /\ x[10] = j
    OBVIOUS
  <2> HIDE DEF x
  <2>3. x = <<a, b, c, d, e, f, g, h, i, j>>
    BY <2>1, <2>2
  <2> QED
    BY <2>3 DEF x
<1>8. ASSUME NEW a, NEW b, NEW c, NEW d, NEW e, NEW f, NEW g, NEW h, NEW i, NEW j, NEW k
      PROVE  <<a, b, c, d, e, f, g, h, i>> \o <<j, k>> = <<a, b, c, d, e, f, g, h, i, j, k>>
  <2> DEFINE S == {a, b, c, d, e, f, g, h, i, j, k}
             x == <<a, b, c, d, e, f, g, h, i>> \o <<j, k>>
  <2>1. x \in Seq(S) /\ Len(x) = 11
    OBVIOUS
  <2>2. x[1] = a /\ x[2] = b /\ x[3] = c /\ x[4] = d /\ x[5] = e /\ x[6] = f
        /\ x[7] = g /\ x[8] = h /\ x[9] = i /\ x[10] = j /\ x[11] = k
    OBVIOUS
  <2> HIDE DEF x
  <2>3. x = <<a, b, c, d, e, f, g, h, i, j, k>>
    BY <2>1, <2>2
  <2> QED
    BY <2>3 DEF x
<1> QED
  BY <1>1, <1>2, <1>3, <1>4, <1>5, <1>6, <1>7, <1>8

\* Each writer's plan, call by call.
LEMMA Plans ==
  /\ Writers = {"migrate", "fix-checksums", "pin", "remediate"}
  /\ Plan["migrate"] = <<Call("snap", Lock), Call("open", Lock), Call("fill", Lock),
                         Call("trunc", Lock), Call("write", Lock)>>
  /\ Plan["fix-checksums"] = <<Call("await", Lock), Call("snap", Lock), Call("open", Lock),
                               Call("fill", Lock), Call("trunc", Lock), Call("write", Lock)>>
  /\ Plan["pin"] = <<Call("snap", Package), Call("open", Package), Call("fill", Package),
                     Call("snap", Lock), Call("open", Lock), Call("fill", Lock),
                     Call("trunc", Package), Call("write", Package),
                     Call("trunc", Lock), Call("write", Lock)>>
  /\ Plan["remediate"] = <<Call("await", Lock),
                           Call("snap", Package), Call("open", Package), Call("fill", Package),
                           Call("trunc", Package), Call("write", Package),
                           Call("snap", Lock), Call("open", Lock), Call("fill", Lock),
                           Call("trunc", Lock), Call("write", Lock)>>
<1>1. Writers = {"migrate", "fix-checksums", "pin", "remediate"}
  BY DEF Writers, Plan
<1>2. Plan["migrate"] = MigratePlan /\ Plan["fix-checksums"] = FixPlan
      /\ Plan["pin"] = PinPlan /\ Plan["remediate"] = RemediatePlan
  BY DEF Plan
<1>3. /\ Backup(Lock) = <<Call("snap", Lock), Call("open", Lock), Call("fill", Lock)>>
      /\ Backup(Package) = <<Call("snap", Package), Call("open", Package), Call("fill", Package)>>
      /\ Save(Lock) = <<Call("trunc", Lock), Call("write", Lock)>>
      /\ Save(Package) = <<Call("trunc", Package), Call("write", Package)>>
      /\ Await = <<Call("await", Lock)>>
  BY DEF Backup, Save, Await, Lock
<1>4. MigratePlan = <<Call("snap", Lock), Call("open", Lock), Call("fill", Lock),
                      Call("trunc", Lock), Call("write", Lock)>>
  BY <1>3, Joined DEF MigratePlan
<1>5. FixPlan = <<Call("await", Lock), Call("snap", Lock), Call("open", Lock),
                  Call("fill", Lock), Call("trunc", Lock), Call("write", Lock)>>
  <2>1. <<Call("await", Lock)>>
        \o <<Call("snap", Lock), Call("open", Lock), Call("fill", Lock)>>
      = <<Call("await", Lock), Call("snap", Lock), Call("open", Lock), Call("fill", Lock)>>
    BY Joined
  <2>2. <<Call("await", Lock), Call("snap", Lock), Call("open", Lock), Call("fill", Lock)>>
        \o <<Call("trunc", Lock), Call("write", Lock)>>
      = <<Call("await", Lock), Call("snap", Lock), Call("open", Lock), Call("fill", Lock),
          Call("trunc", Lock), Call("write", Lock)>>
    BY Joined
  <2> QED
    BY <1>3, <2>1, <2>2 DEF FixPlan
<1>6. PinPlan = <<Call("snap", Package), Call("open", Package), Call("fill", Package),
                  Call("snap", Lock), Call("open", Lock), Call("fill", Lock),
                  Call("trunc", Package), Call("write", Package),
                  Call("trunc", Lock), Call("write", Lock)>>
  <2>1. <<Call("snap", Package), Call("open", Package), Call("fill", Package)>>
        \o <<Call("snap", Lock), Call("open", Lock), Call("fill", Lock)>>
      = <<Call("snap", Package), Call("open", Package), Call("fill", Package),
          Call("snap", Lock), Call("open", Lock), Call("fill", Lock)>>
    BY Joined
  <2>2. <<Call("snap", Package), Call("open", Package), Call("fill", Package),
          Call("snap", Lock), Call("open", Lock), Call("fill", Lock)>>
        \o <<Call("trunc", Package), Call("write", Package)>>
      = <<Call("snap", Package), Call("open", Package), Call("fill", Package),
          Call("snap", Lock), Call("open", Lock), Call("fill", Lock), Call("trunc", Package),
          Call("write", Package)>>
    BY Joined
  <2>3. <<Call("snap", Package), Call("open", Package), Call("fill", Package),
          Call("snap", Lock), Call("open", Lock), Call("fill", Lock), Call("trunc", Package),
          Call("write", Package)>>
        \o <<Call("trunc", Lock), Call("write", Lock)>>
      = <<Call("snap", Package), Call("open", Package), Call("fill", Package),
          Call("snap", Lock), Call("open", Lock), Call("fill", Lock), Call("trunc", Package),
          Call("write", Package), Call("trunc", Lock), Call("write", Lock)>>
    BY Joined
  <2> QED
    BY <1>3, <2>1, <2>2, <2>3 DEF PinPlan
<1>7. RemediatePlan = <<Call("await", Lock),
                        Call("snap", Package), Call("open", Package), Call("fill", Package),
                        Call("trunc", Package), Call("write", Package),
                        Call("snap", Lock), Call("open", Lock), Call("fill", Lock),
                        Call("trunc", Lock), Call("write", Lock)>>
  <2>1. <<Call("await", Lock)>>
        \o <<Call("snap", Package), Call("open", Package), Call("fill", Package)>>
      = <<Call("await", Lock), Call("snap", Package), Call("open", Package),
          Call("fill", Package)>>
    BY Joined
  <2>2. <<Call("await", Lock), Call("snap", Package), Call("open", Package),
          Call("fill", Package)>>
        \o <<Call("trunc", Package), Call("write", Package)>>
      = <<Call("await", Lock), Call("snap", Package), Call("open", Package),
          Call("fill", Package), Call("trunc", Package), Call("write", Package)>>
    BY Joined
  <2>3. <<Call("await", Lock), Call("snap", Package), Call("open", Package),
          Call("fill", Package), Call("trunc", Package), Call("write", Package)>>
        \o <<Call("snap", Lock), Call("open", Lock), Call("fill", Lock)>>
      = <<Call("await", Lock), Call("snap", Package), Call("open", Package),
          Call("fill", Package), Call("trunc", Package), Call("write", Package),
          Call("snap", Lock), Call("open", Lock), Call("fill", Lock)>>
    BY Joined
  <2>4. <<Call("await", Lock), Call("snap", Package), Call("open", Package),
          Call("fill", Package), Call("trunc", Package), Call("write", Package),
          Call("snap", Lock), Call("open", Lock), Call("fill", Lock)>>
        \o <<Call("trunc", Lock), Call("write", Lock)>>
      = <<Call("await", Lock), Call("snap", Package), Call("open", Package),
          Call("fill", Package), Call("trunc", Package), Call("write", Package),
          Call("snap", Lock), Call("open", Lock), Call("fill", Lock), Call("trunc", Lock),
          Call("write", Lock)>>
    BY Joined
  <2> QED
    BY <1>3, <2>1, <2>2, <2>3, <2>4 DEF RemediatePlan
<1> QED
  BY <1>1, <1>2, <1>4, <1>5, <1>6, <1>7

\* What a writer is to do when it starts.
NewPlan(s) ==
  /\ s \in Seq(Calls) /\ s # <<>> /\ Ordered(s)
  /\ \A f \in Files : /\ ~Has(s, "load", f) /\ ~Has(s, "unlink", f)
                      /\ Has(s, "trunc", f) => Has(s, "fill", f)
  /\ \E f \in Files : s[1] \in {Call("snap", f), Call("await", f)}

\* Each writer's plan is in order, backs up what it truncates and starts by
\* reading a file or waiting for the network.
LEMMA NewPlans == ASSUME NEW c \in Writers PROVE NewPlan(Plan[c])
<1>1. NewPlan(Plan["migrate"])
  <2> DEFINE s == Plan["migrate"]
  <2>1. /\ s \in Seq(Calls) /\ DOMAIN s = 1..5
        /\ s[1] = Call("snap", Lock) /\ s[2] = Call("open", Lock) /\ s[3] = Call("fill", Lock)
        /\ s[4] = Call("trunc", Lock) /\ s[5] = Call("write", Lock)
    BY Plans, CallType, FileNames DEF Ops
  <2> HIDE DEF s
  <2>2. Ordered(s)
    BY <2>1, CallsDiffer DEF Ordered
  <2>3. \A f \in Files : ~Has(s, "load", f) /\ ~Has(s, "unlink", f)
    BY <2>1, CallsDiffer DEF Has
  <2>4. \A f \in Files : Has(s, "trunc", f) => Has(s, "fill", f)
    BY <2>1, CallsDiffer DEF Has
  <2> QED
    BY <2>1, <2>2, <2>3, <2>4, FileNames DEF NewPlan, s
<1>2. NewPlan(Plan["fix-checksums"])
  <2> DEFINE s == Plan["fix-checksums"]
  <2>1. /\ s \in Seq(Calls) /\ DOMAIN s = 1..6
        /\ s[1] = Call("await", Lock)
        /\ s[2] = Call("snap", Lock) /\ s[3] = Call("open", Lock) /\ s[4] = Call("fill", Lock)
        /\ s[5] = Call("trunc", Lock) /\ s[6] = Call("write", Lock)
    BY Plans, CallType, FileNames DEF Ops
  <2> HIDE DEF s
  <2>2. Ordered(s)
    BY <2>1, CallsDiffer DEF Ordered
  <2>3. \A f \in Files : ~Has(s, "load", f) /\ ~Has(s, "unlink", f)
    BY <2>1, CallsDiffer DEF Has
  <2>4. \A f \in Files : Has(s, "trunc", f) => Has(s, "fill", f)
    BY <2>1, CallsDiffer DEF Has
  <2> QED
    BY <2>1, <2>2, <2>3, <2>4, FileNames DEF NewPlan, s
<1>3. NewPlan(Plan["pin"])
  <2> DEFINE s == Plan["pin"]
  <2>1. /\ s \in Seq(Calls) /\ DOMAIN s = 1..10
        /\ s[1] = Call("snap", Package) /\ s[2] = Call("open", Package) /\ s[3] = Call("fill", Package)
        /\ s[4] = Call("snap", Lock) /\ s[5] = Call("open", Lock) /\ s[6] = Call("fill", Lock)
        /\ s[7] = Call("trunc", Package) /\ s[8] = Call("write", Package)
        /\ s[9] = Call("trunc", Lock) /\ s[10] = Call("write", Lock)
    BY Plans, CallType, FileNames DEF Ops
  <2> HIDE DEF s
  <2>2. Ordered(s)
    BY <2>1, CallsDiffer, FileNames DEF Ordered
  <2>3. \A f \in Files : ~Has(s, "load", f) /\ ~Has(s, "unlink", f)
    BY <2>1, CallsDiffer DEF Has
  <2>4. \A f \in Files : Has(s, "trunc", f) => Has(s, "fill", f)
    BY <2>1, CallsDiffer DEF Has
  <2> QED
    BY <2>1, <2>2, <2>3, <2>4, FileNames DEF NewPlan, s
<1>4. NewPlan(Plan["remediate"])
  <2> DEFINE s == Plan["remediate"]
  <2>1. /\ s \in Seq(Calls) /\ DOMAIN s = 1..11
        /\ s[1] = Call("await", Lock)
        /\ s[2] = Call("snap", Package) /\ s[3] = Call("open", Package) /\ s[4] = Call("fill", Package)
        /\ s[5] = Call("trunc", Package) /\ s[6] = Call("write", Package)
        /\ s[7] = Call("snap", Lock) /\ s[8] = Call("open", Lock) /\ s[9] = Call("fill", Lock)
        /\ s[10] = Call("trunc", Lock) /\ s[11] = Call("write", Lock)
    BY Plans, CallType, FileNames DEF Ops
  <2> HIDE DEF s
  <2>2. Ordered(s)
    BY <2>1, CallsDiffer, FileNames DEF Ordered
  <2>3. \A f \in Files : ~Has(s, "load", f) /\ ~Has(s, "unlink", f)
    BY <2>1, CallsDiffer DEF Has
  <2>4. \A f \in Files : Has(s, "trunc", f) => Has(s, "fill", f)
    BY <2>1, CallsDiffer DEF Has
  <2> QED
    BY <2>1, <2>2, <2>3, <2>4, FileNames DEF NewPlan, s
<1> QED
  BY <1>1, <1>2, <1>3, <1>4, Plans

\* pin writes both files, after it has backed both up.
LEMMA PinPlanned == Pins(Plan["pin"])
<1> DEFINE s == Plan["pin"]
<1>1. /\ s \in Seq(Calls) /\ DOMAIN s = 1..10 /\ Len(s) = 10
      /\ s[1] = Call("snap", Package) /\ s[2] = Call("open", Package) /\ s[3] = Call("fill", Package)
      /\ s[4] = Call("snap", Lock) /\ s[5] = Call("open", Lock) /\ s[6] = Call("fill", Lock)
      /\ s[7] = Call("trunc", Package) /\ s[8] = Call("write", Package)
      /\ s[9] = Call("trunc", Lock) /\ s[10] = Call("write", Lock)
  BY Plans, CallType, FileNames DEF Ops
<1> HIDE DEF s
<1>2. \A i \in DOMAIN s :
        (\E f \in Files : s[i] \in {Call("trunc", f), Call("write", f)}) <=> Len(s) - i < 4
  BY <1>1, CallsDiffer, FileNames
<1>3. \A f \in Files : Has(s, "trunc", f)
  BY <1>1, FileNames DEF Has
<1>4. \A f \in Files : ~Has(s, "await", f)
  BY <1>1, CallsDiffer DEF Has
<1> QED
  BY <1>2, <1>3, <1>4 DEF Pins, s

\* A plan touches the files of its calls.
LEMMA TouchedFiles ==
  ASSUME NEW c \in Writers, NEW op, NEW f, Has(Plan[c], op, f)
  PROVE  f \in Touched(c)
BY DEF Touched, Has, Call
-------------------------------------------------------------------------------
(* Names, dates and the listing *)

\* The fields of a backup, and the clock's reading of them.
LEMMA Clocked ==
  ASSUME TypeOK, NEW f \in Files, NEW b \in backups[f]
  PROVE  /\ b.born \in Nat /\ b.ctr \in Nat /\ b.at \in Nat /\ b.body \in Nat
         /\ setting.grain \in Nat \ {0}
         /\ Stamp(b) \in Int /\ MTime(b) \in Int
         /\ setting.grain = 1 => Stamp(b) = b.born /\ MTime(b) = b.at
<1>1. b \in Copies
  BY DEF TypeOK
<1>2. b.born \in Nat /\ b.ctr \in Nat /\ b.at \in Nat /\ b.body \in Nat
  BY <1>1 DEF Copies
<1>3. setting.grain \in Nat \ {0}
  BY StoreAssumption DEF TypeOK, StoreAssumption
<1>4. \A n \in Nat, g \in Nat \ {0} : n \div g \in Int /\ (g = 1 => n \div g = n)
  OBVIOUS
<1> QED
  BY <1>2, <1>3, <1>4 DEF Stamp, MTime

\* Two backups with one name have one stamp and one counter.
LEMMA SameName == \A b, c : Name(b) = Name(c) <=> Stamp(b) = Stamp(c) /\ b.ctr = c.ctr
BY DEF Name

\* listBackups' comparison is a strict order of a file's backups.
LEMMA ListingOrder ==
  ASSUME TypeOK, Dated, NEW f \in Files
  PROVE  /\ \A b \in backups[f] : ~ListedBefore(b, b)
         /\ \A b, c, d \in backups[f] :
              ListedBefore(b, c) /\ ListedBefore(c, d) => ListedBefore(b, d)
         /\ \A b, c \in backups[f] : b = c \/ ListedBefore(b, c) \/ ListedBefore(c, b)
<1>1. \A b \in backups[f] : b.ctr \in Nat /\ Stamp(b) \in Int /\ MTime(b) \in Int
  BY Clocked
<1>2. \A b, c \in backups[f] : Stamp(b) = Stamp(c) /\ b.ctr = c.ctr => b = c
  BY SameName DEF Dated
<1> QED
  BY <1>1, <1>2 DEF ListedBefore, NameBefore

\* listBackups returns each backup once, in that order.
LEMMA Listing ==
  ASSUME TypeOK, Dated, NEW f \in Files
  PROVE  LET L == ListBackups(f)
             n == Cardinality(backups[f]) IN
         /\ n \in Nat /\ L \in [1..n -> backups[f]] /\ L \in Seq(backups[f]) /\ Len(L) = n
         /\ \A i, j \in 1..n : L[i] = L[j] => i = j
         /\ \A i, j \in 1..n : i < j <=> ListedBefore(L[i], L[j])
<1> DEFINE S == backups[f]
           n == Cardinality(S)
           R == {r \in S \X S : ListedBefore(r[1], r[2])}
           Rank(b) == Cardinality({c \in S : ListedBefore(c, b)})
           L == ListBackups(f)
<1>1. IsFiniteSet(S) /\ n \in Nat
  BY FS_CardinalityType DEF TypeOK
<1>2. \A b, c \in S : <<b, c>> \in R <=> ListedBefore(b, c)
  OBVIOUS
<1>3. \A b \in S : Cardinality({c \in S : <<c, b>> \in R}) = Rank(b)
  <2> SUFFICES ASSUME NEW b \in S
               PROVE  {c \in S : <<c, b>> \in R} = {c \in S : ListedBefore(c, b)}
    BY Zenon
  <2> QED
    BY <1>2, Zenon
<1>4. /\ \A x \in S : <<x, x>> \notin R
      /\ \A x, y, z \in S : <<x, y>> \in R /\ <<y, z>> \in R => <<x, z>> \in R
      /\ \A x, y \in S : x = y \/ <<x, y>> \in R \/ <<y, x>> \in R
  BY <1>2, ListingOrder
<1>5. /\ \A i \in 1..n : \E b \in S : Cardinality({c \in S : <<c, b>> \in R}) = i - 1
      /\ \A b, c \in S : <<b, c>> \in R <=>
           Cardinality({d \in S : <<d, b>> \in R}) < Cardinality({d \in S : <<d, c>> \in R})
  <2> HIDE DEF S, R
  <2> QED
    BY <1>1, <1>4, RankedElement
<1>6. /\ \A i \in 1..n : \E b \in S : Rank(b) = i - 1
      /\ \A b, c \in S : ListedBefore(b, c) <=> Rank(b) < Rank(c)
  <2> HIDE DEF S, R, Rank
  <2> QED
    BY <1>2, <1>3, <1>5
<1>7. L = [i \in 1..n |-> CHOOSE b \in S : Rank(b) = i - 1]
  BY DEF ListBackups
<1> HIDE DEF L, Rank, R, S, n
<1>8. \A i \in 1..n : L[i] \in S /\ Rank(L[i]) = i - 1
  BY <1>6, <1>7
<1>9. L \in [1..n -> S] /\ L \in Seq(S) /\ Len(L) = n
  BY <1>1, <1>7, <1>8
<1>10. \A i, j \in 1..n : L[i] = L[j] => i = j
  BY <1>1, <1>8
<1>11. \A i, j \in 1..n : i < j <=> ListedBefore(L[i], L[j])
  BY <1>1, <1>6, <1>8
<1> QED
  BY <1>1, <1>9, <1>10, <1>11 DEF L, S, n

\* On a fine clock, what is listed before was written after.
LEMMA FineListing ==
  ASSUME TypeOK, Dated, setting.grain = 1, NEW f \in Files
  PROVE  \A b, c \in backups[f] : ListedBefore(b, c) <=> b.at > c.at
<1>1. \A b \in backups[f] : b.ctr \in Nat /\ b.at \in Nat /\ MTime(b) = b.at
  BY Clocked
<1>2. \A b, c \in backups[f] : b.at = c.at => b = c
  BY DEF Dated
<1>3. \A b \in backups[f] : ~ListedBefore(b, b)
  BY ListingOrder
<1> QED
  BY <1>1, <1>2, <1>3 DEF ListedBefore

\* Then the first that is listed is the newest, and the only newest.
LEMMA HeadIsNewest ==
  ASSUME TypeOK, Dated, setting.grain = 1, NEW f \in Files, backups[f] # {}
  PROVE  /\ Head(ListBackups(f)) \in backups[f] /\ Newest(f, Head(ListBackups(f)))
         /\ \A b \in backups[f] : Newest(f, b) => b = Head(ListBackups(f))
<1> DEFINE L == ListBackups(f)
           n == Cardinality(backups[f])
<1>1. n \in Nat \ {0}
  BY FS_CardinalityType, FS_EmptySet DEF TypeOK
<1>2. /\ L \in [1..n -> backups[f]] /\ L \in Seq(backups[f]) /\ Len(L) = n
      /\ \A i, j \in 1..n : i < j <=> ListedBefore(L[i], L[j])
      /\ \A i, j \in 1..n : L[i] = L[j] => i = j
  BY Listing
<1> HIDE DEF L
<1>3. L[1] \in backups[f] /\ Head(L) = L[1]
  BY <1>1, <1>2
<1>4. ASSUME NEW b \in backups[f] PROVE b = L[1] \/ b.at < L[1].at
  <2>1. \A c \in backups[f] : b.at \in Nat /\ c.at \in Nat
    BY Clocked
  <2>2. \E i \in 1..n : L[i] = b
    <3>1. L \in Injection(1..n, backups[f])
      BY <1>2, Fun_IsInj
    <3>2. IsFiniteSet(backups[f]) /\ Cardinality(1..n) = n
      BY <1>1, FS_Interval, SMT DEF TypeOK
    <3>3. L \in Surjection(1..n, backups[f])
      BY <3>1, <3>2, FS_Injection
    <3> QED
      BY <3>3 DEF Surjection
  <2>3. b = L[1] \/ ListedBefore(L[1], b)
    BY <1>1, <1>2, <2>2
  <2> QED
    BY <1>3, <2>1, <2>3, FineListing
<1>5. \A b \in backups[f] : b.at \in Nat
  BY Clocked
<1>6. Newest(f, L[1])
  BY <1>4 DEF Newest
<1>7. ASSUME NEW b \in backups[f], Newest(f, b) PROVE b = L[1]
  BY <1>3, <1>4, <1>5, <1>7 DEF Newest
<1> QED
  BY <1>3, <1>6, <1>7 DEF L

\* What the newest backup holds is what restore would bring back.
LEMMA LatestIsHead ==
  ASSUME TypeOK, Dated, setting.grain = 1, NEW f \in Files, NEW v, Latest(f, v)
  PROVE  backups[f] # {} /\ Head(ListBackups(f)).body = v
BY HeadIsNewest DEF Latest

\* The name that createBackup takes is a number that is not taken.
LEMMA FreeName ==
  ASSUME TypeOK, NEW f \in Files
  PROVE  FreeCtr(f) \in Nat /\ FreeCtr(f) \notin Taken(f)
<1> DEFINE T == Taken(f)
           n == Cardinality(T)
           C == {k \in 0..n : k \notin T}
<1>1. IsFiniteSet(T) /\ n \in Nat
  <2> DEFINE S == {b \in backups[f] : Stamp(b) = now \div setting.grain}
  <2>1. IsFiniteSet(S)
    BY FS_Subset DEF TypeOK
  <2>2. IsFiniteSet({b.ctr : b \in S})
    <3> HIDE DEF S
    <3>1. [b \in S |-> b.ctr] \in Surjection(S, {b.ctr : b \in S})
      BY DEF Surjection
    <3> QED
      BY <2>1, <3>1, FS_Surjection
  <2>3. T = {b.ctr : b \in S}
    BY DEF Taken
  <2> QED
    BY <2>2, <2>3, FS_CardinalityType
<1> HIDE DEF T
<1>2. C # {}
  <2> SUFFICES ASSUME 0..n \subseteq T PROVE FALSE
    OBVIOUS
  <2>1. Cardinality(0..n) <= n
    BY <1>1, FS_Subset
  <2>2. Cardinality(0..n) = n + 1
    BY <1>1, FS_Interval, SMT
  <2> QED
    BY <1>1, <2>1, <2>2
<1>3. PICK k \in C : \A j \in C : k <= j
  <2>1. C \in SUBSET Nat
    BY <1>1
  <2> HIDE DEF C
  <2> QED
    BY <1>2, <2>1, LeastNumber
<1>4. k \in 0..n /\ k \notin T /\ \A j \in 0..(k - 1) : j \in T
  BY <1>1, <1>3
<1>5. FreeCtr(f) = CHOOSE i \in 0..n : i \notin T /\ \A j \in 0..(i - 1) : j \in T
  BY DEF FreeCtr, T
<1>6. FreeCtr(f) \in 0..n /\ FreeCtr(f) \notin T
  BY <1>4, <1>5
<1> QED
  BY <1>1, <1>6 DEF T

-------------------------------------------------------------------------------
(* Steps: types *)

\* What making a call does to the plan.
LEMMA CallMade ==
  ASSUME TypeOK, NEW p \in Procs, NEW op \in Ops, NEW f \in Files, Next1(p, op, f)
  PROVE  /\ plan[p] \in Seq(Calls) /\ plan[p] # <<>> /\ plan[p][1] = Call(op, f)
         /\ plan' = [plan EXCEPT ![p] = Tail(plan[p])] /\ plan' \in [Procs -> Seq(Calls)]
         /\ UNCHANGED <<setting, ver, kind, base, fresh>>
<1>1. plan[p] \in Seq(Calls) /\ plan[p] # <<>>
  BY DEF TypeOK, Next1, Running
<1>2. Tail(plan[p]) \in Seq(Calls) /\ Head(plan[p]) = plan[p][1]
  BY <1>1, TailOf
<1> QED
  BY <1>1, <1>2 DEF TypeOK, Next1

\* A process that takes a step is one of Procs.
LEMMA Member == ASSUME TypeOK, NEW p \in setting.procs PROVE p \in Procs
BY StoreAssumption DEF TypeOK, StoreAssumption

\* The name of a backup.
LEMMA NameType == ASSUME TypeOK, NEW f \in Files, NEW b \in backups[f] PROVE Name(b) \in Int \X Nat
BY Clocked DEF Name

\* restore starts with the name of a backup.
LEMMA RestoreStarts ==
  ASSUME TypeOK, Dated, NEW f \in Files, backups[f] # {}
  PROVE  /\ Head(ListBackups(f)) \in backups[f]
         /\ <<Name(Head(ListBackups(f)))>> \in Seq(Int \X Nat)
         /\ <<Call("load", f)>> \o Save(f) = <<Call("load", f), Call("trunc", f), Call("write", f)>>
         /\ <<Call("load", f), Call("trunc", f), Call("write", f)>> \in Seq(Calls)
<1>1. Head(ListBackups(f)) \in backups[f]
  BY Listing, FS_CardinalityType, FS_EmptySet DEF TypeOK
<1>2. <<Name(Head(ListBackups(f)))>> \in Seq(Int \X Nat)
  BY <1>1, NameType
<1>3. <<Call("load", f)>> \o <<Call("trunc", f), Call("write", f)>>
        = <<Call("load", f), Call("trunc", f), Call("write", f)>>
  <2> DEFINE S == {Call("load", f), Call("trunc", f), Call("write", f)}
             x == <<Call("load", f)>> \o <<Call("trunc", f), Call("write", f)>>
  <2>1. /\ x \in Seq(S) /\ Len(x) = 3
        /\ x[1] = Call("load", f) /\ x[2] = Call("trunc", f) /\ x[3] = Call("write", f)
    OBVIOUS
  <2> HIDE DEF x
  <2>2. x = <<Call("load", f), Call("trunc", f), Call("write", f)>>
    BY <2>1
  <2> QED
    BY <2>2 DEF x
<1>4. Call("load", f) \in Calls /\ Call("trunc", f) \in Calls /\ Call("write", f) \in Calls
  BY CallType DEF Ops
<1> QED
  BY <1>1, <1>2, <1>3, <1>4 DEF Save

\* cleanOldBackups is to unlink what is listed after the first Keep.
LEMMA CleanStarts ==
  ASSUME TypeOK, Dated, NEW f \in Files, Cardinality(backups[f]) > Keep
  PROVE  LET d == Cardinality(backups[f]) - Keep IN
         /\ d \in Nat \ {0} /\ DOMAIN Doomed(f) = 1..d
         /\ \A i \in 1..d : /\ Doomed(f)[i] = ListBackups(f)[Keep + i]
                            /\ Doomed(f)[i] \in backups[f]
         /\ [i \in DOMAIN Doomed(f) |-> Name(Doomed(f)[i])] \in Seq(Int \X Nat)
         /\ [i \in DOMAIN Doomed(f) |-> Call("unlink", f)] \in Seq(Calls)
         /\ [i \in DOMAIN Doomed(f) |-> Call("unlink", f)] # <<>>
<1> DEFINE L == ListBackups(f)
           n == Cardinality(backups[f])
           d == n - Keep
           D == Doomed(f)
           N == [i \in 1..d |-> Name(D[i])]
           U == [i \in 1..d |-> Call("unlink", f)]
<1>1. Keep \in Nat \ {0} /\ n \in Nat /\ L \in Seq(backups[f]) /\ Len(L) = n
  BY Listing, StoreAssumption DEF StoreAssumption
<1>2. D = SubSeq(L, Keep + 1, n)
  BY DEF Doomed
<1> HIDE DEF L, n, D
<1>3. /\ d \in Nat \ {0} /\ D \in Seq(backups[f]) /\ DOMAIN D = 1..d
      /\ \A i \in 1..d : D[i] = L[Keep + i] /\ D[i] \in backups[f]
  <2>1. d \in Nat \ {0}
    BY <1>1 DEF n
  <2>2. D \in Seq(backups[f]) /\ Len(D) = d
    <3>1. Keep + 1 \in 1..n /\ n - (Keep + 1) + 1 = d /\ n \in 1..n
      BY <1>1, <2>1
    <3>2. \A i \in (Keep + 1)..n : L[i] \in backups[f]
      BY <1>1, <3>1
    <3> HIDE DEF d
    <3>3. Len(D) = d
      BY <1>1, <1>2, <3>1
    <3>4. D \in Seq(backups[f])
      <4> DEFINE S == backups[f]
                 k == Keep + 1
      <4>1. k \in Int /\ n \in Int /\ \A i \in k..n : L[i] \in S
        BY <1>1, <3>2
      <4> HIDE DEF S, k
      <4>2. SubSeq(L, k, n) \in Seq(S)
        BY <4>1, SubSeqProperties
      <4> QED
        BY <1>2, <4>2 DEF S, k
    <3> QED
      BY <3>3, <3>4
  <2>3. \A i \in 1..d : D[i] = L[Keep + i]
    BY <1>1, <1>2, <2>1
  <2> QED
    BY <2>1, <2>2, <2>3
<1> HIDE DEF d
<1>4. N \in Seq(Int \X Nat)
  <2>1. \A i \in 1..d : Name(D[i]) \in Int \X Nat
    BY <1>3, NameType
  <2> QED
    BY <1>3, <2>1
<1>5. U \in Seq(Calls) /\ U # <<>>
  <2>1. Call("unlink", f) \in Calls
    BY CallType DEF Ops
  <2>2. U \in Seq(Calls) /\ Len(U) = d
    BY <1>3, <2>1
  <2> QED
    BY <1>3, <2>2
<1> QED
  BY <1>3, <1>4, <1>5 DEF D, L, d, n

\* A step that starts or ends a command keeps the types.
LEMMA CommandType ==
  ASSUME TypeOK, Dated, NEW p \in setting.procs,
         \/ \E c \in setting.commands : StartWriter(p, c)
         \/ \E f \in Files : StartRestore(p, f) \/ StartClean(p, f)
         \/ Crash(p)
  PROVE  TypeOK'
<1>0. p \in Procs
  BY Member
<1>1. ASSUME NEW c \in setting.commands, StartWriter(p, c) PROVE TypeOK'
  <2>1. Plan[c] \in Seq(Calls) /\ c \in Kinds
    BY <1>1, NewPlans DEF NewPlan, StartWriter, Kinds
  <2> QED
    BY <1>0, <1>1, <2>1 DEF TypeOK, StartWriter
<1>2. ASSUME NEW f \in Files, StartRestore(p, f) PROVE TypeOK'
  <2>1. /\ plan' \in [Procs -> Seq(Calls)] /\ kind' \in [Procs -> Kinds]
        /\ names' \in [Procs -> Seq(Int \X Nat)]
    BY <1>0, <1>2, RestoreStarts DEF TypeOK, StartRestore, Kinds
  <2> QED
    BY <1>2, <2>1 DEF TypeOK, StartRestore
<1>3. ASSUME NEW f \in Files, StartClean(p, f) PROVE TypeOK'
  <2>1. /\ plan' \in [Procs -> Seq(Calls)] /\ kind' \in [Procs -> Kinds]
        /\ names' \in [Procs -> Seq(Int \X Nat)]
    BY <1>0, <1>3, CleanStarts DEF TypeOK, StartClean, Kinds
  <2> QED
    BY <1>3, <2>1 DEF TypeOK, StartClean
<1>4. ASSUME Crash(p) PROVE TypeOK'
  BY <1>0, <1>4 DEF TypeOK, Crash
<1> QED
  BY <1>1, <1>2, <1>3, <1>4

\* So does a call.
LEMMA CallTypes ==
  ASSUME TypeOK, Dated, NEW p \in setting.procs, NEW f \in Files,
         \/ Answered(p, f) \/ Snap(p, f) \/ OpenBackup(p, f) \/ FillBackup(p, f)
         \/ Truncate(p, f) \/ WriteFile(p, f) \/ LoadBackup(p, f)
         \/ Unlink(p, f) /\ names[p] # <<>>
  PROVE  TypeOK'
<1>0. p \in Procs
  BY Member
<1>1. ASSUME Answered(p, f) PROVE TypeOK'
  BY <1>0, <1>1, CallMade DEF TypeOK, Answered, Ops
<1>2. ASSUME Snap(p, f) PROVE TypeOK'
  <2>1. /\ buf' \in [Procs -> Nat] /\ raced' \in [Files -> SUBSET Nat]
        /\ UNCHANGED <<file, due, backups, now, slot, names>>
    BY <1>0, <1>2 DEF TypeOK, Snap
  <2> QED
    BY <1>0, <1>2, <2>1, CallMade DEF TypeOK, Snap, Ops
<1>3. ASSUME OpenBackup(p, f) PROVE TypeOK'
  <2> DEFINE new == [born |-> now, ctr |-> FreeCtr(f), at |-> now, body |-> Torn]
  <2>1. new \in Copies
    BY FreeName DEF TypeOK, Copies, Torn
  <2>2. backups' = [backups EXCEPT ![f] = backups[f] \cup {new}]
    BY <1>3 DEF OpenBackup
  <2> HIDE DEF new
  <2>3. backups' \in [Files -> SUBSET Copies]
    BY <2>1, <2>2 DEF TypeOK
  <2>4. \A g \in Files : IsFiniteSet(backups'[g])
    BY <2>2, FS_AddElement DEF TypeOK
  <2>5. now' \in Nat /\ slot' \in [Procs -> Nat] /\ UNCHANGED <<file, due, raced, buf, names>>
    BY <1>0, <1>3 DEF TypeOK, OpenBackup
  <2> QED
    BY <1>0, <1>3, <2>3, <2>4, <2>5, CallMade DEF TypeOK, OpenBackup, Ops
<1>4. ASSUME FillBackup(p, f) PROVE TypeOK'
  <2> DEFINE filled(b) == IF b.born = slot[p] THEN [b EXCEPT !.at = now, !.body = buf[p]] ELSE b
  <2>1. \A b \in Copies : filled(b) \in Copies
    BY <1>0 DEF TypeOK, Copies
  <2>2. backups' = [backups EXCEPT ![f] = {filled(b) : b \in backups[f]}]
    BY <1>4 DEF FillBackup
  <2>3. IsFiniteSet({filled(b) : b \in backups[f]})
    <3> HIDE DEF filled
    <3>1. [b \in backups[f] |-> filled(b)] \in Surjection(backups[f], {filled(b) : b \in backups[f]})
      BY DEF Surjection
    <3> QED
      BY <3>1, FS_Surjection DEF TypeOK
  <2> HIDE DEF filled
  <2>4. backups' \in [Files -> SUBSET Copies]
    BY <2>1, <2>2 DEF TypeOK
  <2>5. \A g \in Files : IsFiniteSet(backups'[g])
    BY <2>2, <2>3 DEF TypeOK
  <2>6. now' = now + 1 /\ UNCHANGED <<file, due, raced, buf, slot, names>>
    BY <1>4 DEF FillBackup
  <2>7. now' \in Nat
    BY <2>6 DEF TypeOK
  <2> QED
    BY <1>0, <1>4, <2>4, <2>5, <2>6, <2>7, CallMade DEF TypeOK, FillBackup, Ops
<1>5. ASSUME Truncate(p, f) PROVE TypeOK'
  <2>1. file' \in [Files -> Nat] /\ due' \in [Files -> Nat] /\ UNCHANGED <<raced, backups, now, buf, slot, names>>
    BY <1>0, <1>5 DEF TypeOK, Truncate, Torn
  <2> QED
    BY <1>0, <1>5, <2>1, CallMade DEF TypeOK, Truncate, Ops
<1>6. ASSUME WriteFile(p, f) PROVE TypeOK'
  <2>1. file' \in [Files -> Nat] /\ UNCHANGED <<due, raced, backups, now, buf, slot, names>>
    BY <1>0, <1>6 DEF TypeOK, WriteFile, Torn
  <2> QED
    BY <1>0, <1>6, <2>1, CallMade DEF TypeOK, WriteFile, Ops
<1>7. ASSUME LoadBackup(p, f) PROVE TypeOK'
  <2>1. plan[p] \in Seq(Calls) /\ plan[p] # <<>>
    BY <1>0, <1>7 DEF TypeOK, LoadBackup, Running
  <2>2. Tail(plan[p]) \in Seq(Calls)
    BY <2>1
  <2> DEFINE found == {b \in backups[f] : Name(b) = Head(names[p])}
  <2>3. \/ plan' = [plan EXCEPT ![p] = <<>>] /\ UNCHANGED buf
        \/ /\ plan' = [plan EXCEPT ![p] = Tail(plan[p])]
           /\ \E b \in found : buf' = [buf EXCEPT ![p] = b.body]
    BY <1>7 DEF LoadBackup
  <2>4. plan' \in [Procs -> Seq(Calls)]
    <3>1. plan \in [Procs -> Seq(Calls)] /\ <<>> \in Seq(Calls)
      BY DEF TypeOK
    <3>2. plan' = [plan EXCEPT ![p] = <<>>] \/ plan' = [plan EXCEPT ![p] = Tail(plan[p])]
      BY <2>3
    <3> QED
      BY <1>0, <2>2, <3>1, <3>2
  <2>5. buf' \in [Procs -> Nat]
    BY <1>0, <2>3, Clocked DEF TypeOK
  <2> QED
    BY <1>7, <2>4, <2>5 DEF TypeOK, LoadBackup
<1>8. ASSUME Unlink(p, f), names[p] # <<>> PROVE TypeOK'
  <2>1. plan[p] \in Seq(Calls) /\ plan[p] # <<>> /\ names[p] \in Seq(Int \X Nat)
    BY <1>0, <1>8 DEF TypeOK, Unlink, Running
  <2>2. Tail(plan[p]) \in Seq(Calls) /\ Tail(names[p]) \in Seq(Int \X Nat)
    BY <1>8, <2>1
  <2>3. plan' \in [Procs -> Seq(Calls)] /\ names' \in [Procs -> Seq(Int \X Nat)]
    BY <1>0, <1>8, <2>2 DEF TypeOK, Unlink
  <2>4. backups' \in [Files -> SUBSET Copies] /\ \A g \in Files : backups'[g] \subseteq backups[g]
    BY <1>8 DEF TypeOK, Unlink
  <2>5. \A g \in Files : IsFiniteSet(backups'[g])
    BY <2>4, FS_Subset DEF TypeOK
  <2> QED
    BY <1>8, <2>3, <2>4, <2>5 DEF TypeOK, Unlink
<1> QED
  BY <1>1, <1>2, <1>3, <1>4, <1>5, <1>6, <1>7, <1>8

\* And an edit.
LEMMA EditType == ASSUME TypeOK, NEW f \in Files, Edit(f) PROVE TypeOK'
<1>1. raced' \in [Files -> SUBSET Nat]
  BY DEF TypeOK, Edit
<1> QED
  BY <1>1 DEF TypeOK, Edit, procVars
-------------------------------------------------------------------------------
(* Steps: backups *)

\* A setting never changes, so neither does the name of a backup.
LEMMA NamesKept ==
  ASSUME UNCHANGED setting
  PROVE  \A b : Name(b)' = Name(b) /\ Stamp(b)' = Stamp(b)
BY DEF Name, Stamp

\* open(wx) adds an empty backup of a new name, dated now.
Added(f, new) ==
  /\ new.born = now /\ new.at = now /\ new.body = Torn
  /\ \A b \in backups[f] : Name(b) # Name(new)
  /\ backups'[f] = backups[f] \cup {new}
  /\ \A g \in Files : g # f => backups'[g] = backups[g]

\* createBackup's exclusive open does so.
LEMMA Opened ==
  ASSUME TypeOK, NEW p \in Procs, NEW f \in Files, OpenBackup(p, f)
  PROVE  /\ \E new : Added(f, new)
         /\ now' = now + 1 /\ slot' = [slot EXCEPT ![p] = now]
<1> DEFINE new == [born |-> now, ctr |-> FreeCtr(f), at |-> now, body |-> Torn]
<1>1. /\ now' = now + 1 /\ slot' = [slot EXCEPT ![p] = now]
      /\ backups' = [backups EXCEPT ![f] = backups[f] \cup {new}]
  BY DEF OpenBackup
<1>2. new.born = now /\ new.at = now /\ new.body = Torn /\ new.ctr = FreeCtr(f)
  OBVIOUS
<1> HIDE DEF new
<1>3. ASSUME NEW b \in backups[f] PROVE Name(b) # Name(new)
  <2> SUFFICES ASSUME Name(b) = Name(new) PROVE FALSE
    OBVIOUS
  <2>1. Stamp(b) = now \div setting.grain /\ b.ctr = FreeCtr(f)
    BY <1>2, SameName DEF Stamp
  <2>2. FreeCtr(f) \in Taken(f)
    BY <2>1, Zenon DEF Taken
  <2> QED
    BY <2>2, FreeName
<1>4. backups'[f] = backups[f] \cup {new} /\ \A g \in Files : g # f => backups'[g] = backups[g]
  BY <1>1 DEF TypeOK
<1> QED
  BY <1>1, <1>2, <1>3, <1>4 DEF Added

\* The write to the open backup fills it, dates it now and leaves the others alone.
Filled(p, f, h) ==
  /\ backups'[f] = {h[b] : b \in backups[f]}
  /\ \A b \in backups[f] :
       /\ h[b].born = b.born /\ Name(h[b]) = Name(b)
       /\ IF b.born = slot[p] THEN h[b].at = now /\ h[b].body = buf[p] ELSE h[b] = b
  /\ \A g \in Files : g # f => backups'[g] = backups[g]

\* createBackup's write does so.
LEMMA Written ==
  ASSUME TypeOK, NEW p \in Procs, NEW f \in Files, FillBackup(p, f)
  PROVE  (\E h : Filled(p, f, h)) /\ now' = now + 1 /\ UNCHANGED slot
<1> DEFINE filled(b) == IF b.born = slot[p] THEN [b EXCEPT !.at = now, !.body = buf[p]] ELSE b
<1>1. /\ now' = now + 1 /\ UNCHANGED slot
      /\ backups' = [backups EXCEPT ![f] = {filled(b) : b \in backups[f]}]
  BY DEF FillBackup
<1>2. /\ backups'[f] = {filled(b) : b \in backups[f]}
      /\ \A g \in Files : g # f => backups'[g] = backups[g]
  BY <1>1 DEF TypeOK
<1>3. ASSUME NEW b \in backups[f]
      PROVE  /\ filled(b).born = b.born /\ Name(filled(b)) = Name(b)
             /\ IF b.born = slot[p] THEN filled(b).at = now /\ filled(b).body = buf[p]
                ELSE filled(b) = b
  <2>1. b \in Copies
    BY DEF TypeOK
  <2>2. /\ filled(b).born = b.born /\ filled(b).ctr = b.ctr
        /\ IF b.born = slot[p] THEN filled(b).at = now /\ filled(b).body = buf[p]
           ELSE filled(b) = b
    BY <2>1 DEF Copies
  <2> QED
    BY <2>2 DEF Name, Stamp
<1> DEFINE h == [b \in backups[f] |-> filled(b)]
<1>4. \A b \in backups[f] : h[b] = filled(b)
  OBVIOUS
<1>5. backups'[f] = {h[b] : b \in backups[f]}
  BY <1>2
<1> HIDE DEF filled, h
<1>6. Filled(p, f, h)
  BY <1>2, <1>3, <1>4, <1>5 DEF Filled
<1> QED
  BY <1>1, <1>6

\* unlink removes the backup of that name.
LEMMA Removed ==
  ASSUME TypeOK, NEW p \in Procs, NEW f \in Files, Unlink(p, f)
  PROVE  /\ backups'[f] = {b \in backups[f] : Name(b) # Head(names[p])}
         /\ \A g \in Files : g # f => backups'[g] = backups[g]
         /\ names' = [names EXCEPT ![p] = Tail(names[p])]
         /\ plan' = [plan EXCEPT ![p] = <<>>] \/ plan' = [plan EXCEPT ![p] = Tail(plan[p])]
         /\ UNCHANGED <<setting, file, due, raced, now, ver, kind, base, fresh, buf, slot>>
<1> DEFINE found == {b \in backups[f] : Name(b) = Head(names[p])}
<1>1. /\ backups' = [backups EXCEPT ![f] = backups[f] \ found]
      /\ names' = [names EXCEPT ![p] = Tail(names[p])]
      /\ plan' = [plan EXCEPT ![p] = IF found = {} THEN <<>> ELSE Tail(plan[p])]
      /\ UNCHANGED <<setting, file, due, raced, now, ver, kind, base, fresh, buf, slot>>
  BY DEF Unlink
<1>2. /\ backups'[f] = backups[f] \ found
      /\ \A g \in Files : g # f => backups'[g] = backups[g]
  BY <1>1 DEF TypeOK
<1>3. backups[f] \ found = {b \in backups[f] : Name(b) # Head(names[p])}
  OBVIOUS
<1> QED
  BY <1>1, <1>2, <1>3

\* restore's read finds the backup it named, or ends the command.
LEMMA Loaded ==
  ASSUME NEW p, NEW f, LoadBackup(p, f)
  PROVE  /\ \/ plan' = [plan EXCEPT ![p] = <<>>] /\ UNCHANGED buf
            \/ /\ plan' = [plan EXCEPT ![p] = Tail(plan[p])]
               /\ \E b \in backups[f] : /\ Name(b) = Head(names[p])
                                        /\ buf' = [buf EXCEPT ![p] = b.body]
         /\ UNCHANGED <<setting, file, due, raced, backups, now, ver, kind, base, fresh, slot, names>>
<1> DEFINE found == {b \in backups[f] : Name(b) = Head(names[p])}
<1>1. \/ plan' = [plan EXCEPT ![p] = <<>>] /\ UNCHANGED buf
      \/ /\ plan' = [plan EXCEPT ![p] = Tail(plan[p])]
         /\ \E b \in found : buf' = [buf EXCEPT ![p] = b.body]
  BY DEF LoadBackup
<1>2. UNCHANGED <<setting, file, due, raced, backups, now, ver, kind, base, fresh, slot, names>>
  BY DEF LoadBackup
<1> QED
  BY <1>1, <1>2

\* The steps that leave the backups and the time as they are.
LEMMA BackupsKept ==
  ASSUME NEW p \in setting.procs, NEW f \in Files,
         \/ \E c \in setting.commands : StartWriter(p, c)
         \/ Crash(p) \/ StartRestore(p, f) \/ StartClean(p, f)
         \/ Answered(p, f) \/ Snap(p, f) \/ Truncate(p, f) \/ WriteFile(p, f)
         \/ LoadBackup(p, f) \/ Edit(f)
  PROVE  UNCHANGED <<setting, backups, now, slot>>
BY DEF StartWriter, Crash, StartRestore, StartClean, Answered, Snap, Truncate, WriteFile,
       LoadBackup, Edit, Next1, procVars

\* Births, dates and names stay apart.
LEMMA OpenDated ==
  ASSUME TypeOK, Dated, NEW p \in Procs, NEW f \in Files, OpenBackup(p, f)
  PROVE  Dated'
<1>1. PICK new : Added(f, new)
  BY Opened
<1>2. now' = now + 1 /\ now \in Nat /\ UNCHANGED setting
  BY Opened DEF TypeOK, OpenBackup, Next1
<1>3. \A g \in Files : \A b \in backups[g] : b.born \in Nat /\ b.at \in Nat
  BY Clocked
<1>4. \A b : Name(b)' = Name(b)
  BY <1>2, NamesKept
<1> SUFFICES ASSUME NEW g \in Files, NEW b \in backups'[g]
             PROVE  /\ b.born < now' /\ b.at < now'
                    /\ \A c \in backups'[g] :
                         b.born = c.born \/ b.at = c.at \/ Name(b) = Name(c) => b = c
  BY <1>4 DEF Dated
<1>5. b \in backups[g] => b.born < now /\ b.at < now
  BY DEF Dated
<1>6. CASE b \notin backups[g]
  <2>1. g = f /\ b = new
    BY <1>1, <1>6 DEF Added
  <2> QED
    BY <1>1, <1>2, <1>3, <2>1 DEF Added, Dated
<1>7. CASE b \in backups[g]
  <2> SUFFICES ASSUME NEW c \in backups'[g], b.born = c.born \/ b.at = c.at \/ Name(b) = Name(c)
               PROVE  b = c
    BY <1>2, <1>3, <1>5, <1>7
  <2>1. CASE c \in backups[g]
    BY <1>7, <2>1 DEF Dated
  <2>2. CASE c \notin backups[g]
    BY <1>1, <1>2, <1>3, <1>5, <1>7, <2>2 DEF Added
  <2> QED
    BY <2>1, <2>2
<1> QED
  BY <1>6, <1>7

\* A backup that is filled keeps its name and gets a date of its own.
LEMMA FillDated ==
  ASSUME TypeOK, Dated, NEW p \in Procs, NEW f \in Files, FillBackup(p, f)
  PROVE  Dated'
<1>0. PICK h : Filled(p, f, h)
  BY Written
<1>1. now' = now + 1 /\ now \in Nat /\ UNCHANGED setting
  BY Written DEF TypeOK, FillBackup, Next1
<1>2. \A g \in Files : \A b \in backups[g] : b.born \in Nat /\ b.at \in Nat
  BY Clocked
<1>3. \A b : Name(b)' = Name(b)
  BY <1>1, NamesKept
<1> SUFFICES ASSUME NEW g \in Files, NEW b \in backups'[g]
             PROVE  /\ b.born < now' /\ b.at < now'
                    /\ \A c \in backups'[g] :
                         b.born = c.born \/ b.at = c.at \/ Name(b) = Name(c) => b = c
  BY <1>3 DEF Dated
<1>4. CASE g # f
  <2>1. backups'[g] = backups[g]
    BY <1>0, <1>4 DEF Filled
  <2> QED
    BY <1>1, <1>2, <2>1 DEF Dated
<1>5. CASE g = f
  <2>1. \A b0 \in backups[f] :
          /\ h[b0].born = b0.born /\ Name(h[b0]) = Name(b0)
          /\ IF b0.born = slot[p] THEN h[b0].at = now ELSE h[b0] = b0
    BY <1>0 DEF Filled
  <2>2. PICK b0 \in backups[f] : b = h[b0]
    BY <1>0, <1>5 DEF Filled
  <2>3. b0.born < now /\ b0.at < now
    BY DEF Dated
  <2>4. b.born < now' /\ b.at < now'
    BY <1>1, <1>2, <2>1, <2>2, <2>3
  <2>5. ASSUME NEW c \in backups'[f], b.born = c.born \/ b.at = c.at \/ Name(b) = Name(c)
        PROVE  b = c
    <3>1. PICK c0 \in backups[f] : c = h[c0]
      BY <1>0 DEF Filled
    <3>2. c0.born < now /\ c0.at < now
      BY DEF Dated
    <3>3. b0.born = c0.born \/ b0.at = c0.at \/ Name(b0) = Name(c0)
      BY <1>1, <1>2, <2>1, <2>2, <2>3, <2>5, <3>1, <3>2
    <3>4. b0 = c0
      BY <3>3 DEF Dated
    <3> QED
      BY <2>2, <3>1, <3>4
  <2> QED
    BY <1>5, <2>4, <2>5
<1> QED
  BY <1>4, <1>5

\* Those that an unlink leaves differ as before.
LEMMA UnlinkDated ==
  ASSUME TypeOK, Dated, NEW p \in Procs, NEW f \in Files, Unlink(p, f)
  PROVE  Dated'
<1>1. /\ \A g \in Files : backups'[g] \subseteq backups[g]
      /\ UNCHANGED <<setting, now>>
  BY Removed
<1>2. \A b : Name(b)' = Name(b)
  BY <1>1, NamesKept
<1> QED
  BY <1>1, <1>2 DEF Dated

\* So do those that no step has touched.
LEMMA KeepDated == ASSUME Dated, UNCHANGED <<setting, backups, now>> PROVE Dated'
BY NamesKept DEF Dated
-------------------------------------------------------------------------------
(* Steps: plans *)

\* Which command makes a call.
LEMMA WhoseCall ==
  ASSUME TypeOK, NEW p \in Procs, ShapedAt(p), Running(p),
         NEW op \in Ops, NEW f \in Files, plan[p][1] = Call(op, f)
  PROVE  /\ op = "unlink" <=> kind[p] = "clean-backups"
         /\ op = "load" => kind[p] = "restore"
         /\ op \in {"await", "snap", "open", "fill"} => kind[p] \in Writers
         /\ op \in {"trunc", "write"} => kind[p] \in Writers \cup {"restore"}
<1>1. plan[p] \in Seq(Calls) /\ plan[p] # <<>> /\ 1 \in DOMAIN plan[p] /\ kind[p] \in Kinds
  BY TailOf DEF TypeOK, Running
<1>2. Has(plan[p], op, f)
  BY <1>1 DEF Has
<1>3. kind[p] \in Writers => op \notin {"load", "unlink"}
  BY <1>2 DEF ShapedAt, Writes
<1>4. kind[p] = "restore" => op \in {"load", "trunc", "write"}
  BY <1>1, CallsDiffer DEF ShapedAt, Restores
<1>5. kind[p] = "clean-backups" => op = "unlink"
  BY <1>1, CallsDiffer DEF ShapedAt, Cleans
<1>6. kind[p] \in Writers \cup {"restore", "clean-backups"}
  BY <1>1 DEF ShapedAt, Kinds
<1> QED
  BY <1>3, <1>4, <1>5, <1>6, Plans DEF Ops

\* A process that takes no step keeps its shape.
LEMMA ShapeKept ==
  ASSUME NEW q, ShapedAt(q), UNCHANGED setting,
         plan'[q] = plan[q], kind'[q] = kind[q], fresh'[q] = fresh[q], names'[q] = names[q]
  PROVE  ShapedAt(q)'
BY DEF ShapedAt, Running

\* One that has made a call and is left with more, too.
LEMMA ShapeAfter ==
  ASSUME TypeOK, NEW p \in Procs, ShapedAt(p), Running(p), UNCHANGED setting,
         plan'[p] = Tail(plan[p]), kind'[p] = kind[p], fresh'[p] = fresh[p],
         kind[p] = "clean-backups" => names'[p] = Tail(names[p])
  PROVE  ShapedAt(p)'
<1> SUFFICES ASSUME Running(p)'
             PROVE  /\ p \in setting'.procs
                    /\ Ordered(plan'[p])
                    /\ kind'[p] \in Writers => Writes(plan'[p]) /\ fresh'[p] # Torn
                    /\ kind'[p] = "pin" => Pins(plan'[p])
                    /\ kind'[p] = "restore" => Restores(plan'[p])
                    /\ kind'[p] = "clean-backups" =>
                         p \in setting'.cleaners /\ Cleans(plan'[p]) /\ Len(names'[p]) = Len(plan'[p])
                    /\ kind'[p] # "none"
  BY DEF ShapedAt
<1> DEFINE s == plan[p]
<1>1. s \in Seq(Calls) /\ s # <<>> /\ Tail(s) # <<>> /\ plan'[p] = Tail(s)
  BY DEF TypeOK, Running
<1>2. names[p] \in Seq(Int \X Nat)
  BY DEF TypeOK
<1>3. /\ p \in setting.procs /\ Ordered(s)
      /\ kind[p] \in Writers => Writes(s) /\ fresh[p] # Torn
      /\ kind[p] = "pin" => Pins(s)
      /\ kind[p] = "restore" => Restores(s)
      /\ kind[p] = "clean-backups" => p \in setting.cleaners /\ Cleans(s) /\ Len(names[p]) = Len(s)
      /\ kind[p] # "none"
  BY DEF ShapedAt
<1> HIDE DEF s
<1>4. Ordered(Tail(s))
  BY <1>1, <1>3, OrderedTail
<1>5. /\ Writes(s) => Writes(Tail(s))
      /\ Pins(s) => Pins(Tail(s))
      /\ Restores(s) => Restores(Tail(s))
      /\ Cleans(s) => Cleans(Tail(s))
  BY <1>1, <1>3, ShapeTail
<1>6. kind[p] = "clean-backups" => Len(names'[p]) = Len(Tail(s))
  <2> SUFFICES ASSUME kind[p] = "clean-backups" PROVE Len(Tail(names[p])) = Len(Tail(s))
    OBVIOUS
  <2>1. Len(s) \in Nat \ {0} /\ Len(Tail(s)) = Len(s) - 1
    BY <1>1, TailOf
  <2>2. names[p] # <<>>
    BY <1>3, <2>1
  <2> QED
    BY <1>2, <1>3, <2>1, <2>2
<1> QED
  BY <1>1, <1>3, <1>4, <1>5, <1>6

\* A process that ends its command has no plan to be in order.
LEMMA NoShape == ASSUME NEW p, plan'[p] = <<>> PROVE ShapedAt(p)'
BY DEF ShapedAt, Running

\* A command that starts has a plan of its shape.
LEMMA WriterShaped ==
  ASSUME GeneralInv, NEW p \in setting.procs, NEW c, StartWriter(p, c)
  PROVE  Shaped'
<1>1. TypeOK /\ Shaped /\ p \in Procs /\ c \in Writers
  BY Member DEF GeneralInv, StartWriter
<1>2. /\ plan'[p] = Plan[c] /\ kind'[p] = c /\ fresh'[p] = ver + 1 /\ UNCHANGED <<setting, names>>
      /\ \A q \in Procs : q # p => plan'[q] = plan[q] /\ kind'[q] = kind[q] /\ fresh'[q] = fresh[q]
  BY <1>1 DEF TypeOK, StartWriter
<1>3. ShapedAt(p)'
  <2>1. NewPlan(Plan[c]) /\ (c = "pin" => Pins(Plan[c]))
    BY <1>1, NewPlans, PinPlanned
  <2>2. Writes(Plan[c])
    BY <2>1 DEF NewPlan, Writes
  <2>3. fresh'[p] # Torn
    BY <1>1, <1>2 DEF TypeOK, Torn
  <2>4. c \notin {"restore", "clean-backups", "none"}
    BY <1>1, Plans
  <2> QED
    BY <1>1, <1>2, <2>1, <2>2, <2>3, <2>4 DEF ShapedAt, NewPlan
<1> QED
  BY <1>1, <1>2, <1>3, ShapeKept DEF Shaped

\* restore starts with the calls that it is to make.
LEMMA RestoreShaped ==
  ASSUME GeneralInv, NEW p \in setting.procs, NEW f \in Files, StartRestore(p, f)
  PROVE  Shaped'
<1>1. TypeOK /\ Dated /\ Shaped /\ p \in Procs /\ backups[f] # {}
  BY Member DEF GeneralInv, StartRestore
<1> DEFINE s == <<Call("load", f), Call("trunc", f), Call("write", f)>>
<1>2. /\ plan'[p] = s /\ kind'[p] = "restore" /\ UNCHANGED <<setting, fresh>>
      /\ \A q \in Procs : q # p => plan'[q] = plan[q] /\ kind'[q] = kind[q] /\ names'[q] = names[q]
  BY <1>1, RestoreStarts DEF TypeOK, StartRestore
<1>3. ShapedAt(p)'
  <2>1. DOMAIN s = 1..3 /\ s[1] = Call("load", f) /\ s[2] = Call("trunc", f) /\ s[3] = Call("write", f)
    OBVIOUS
  <2>2. Restores(s)
    BY DEF Restores
  <2> HIDE DEF s
  <2>3. Ordered(s)
    BY <2>1, CallsDiffer DEF Ordered
  <2>4. "restore" \notin Writers
    BY Plans
  <2> QED
    BY <1>2, <2>2, <2>3, <2>4 DEF ShapedAt
<1> QED
  BY <1>1, <1>2, <1>3, ShapeKept DEF Shaped

\* clean-backups starts with one unlink for each of its names.
LEMMA CleanShaped ==
  ASSUME GeneralInv, NEW p \in setting.procs, NEW f \in Files, StartClean(p, f)
  PROVE  Shaped'
<1>1. /\ TypeOK /\ Dated /\ Shaped /\ p \in Procs /\ Cardinality(backups[f]) > Keep
      /\ p \in setting.cleaners
  BY Member DEF GeneralInv, StartClean
<1> DEFINE s == [i \in DOMAIN Doomed(f) |-> Call("unlink", f)]
           n == [i \in DOMAIN Doomed(f) |-> Name(Doomed(f)[i])]
<1>2. /\ plan'[p] = s /\ kind'[p] = "clean-backups" /\ names'[p] = n /\ UNCHANGED <<setting, fresh>>
      /\ \A q \in Procs : q # p => plan'[q] = plan[q] /\ kind'[q] = kind[q] /\ names'[q] = names[q]
  BY <1>1 DEF TypeOK, StartClean
<1>3. ShapedAt(p)'
  <2>1. /\ \A i \in DOMAIN s : s[i] = Call("unlink", f)
        /\ s \in Seq(Calls) /\ n \in Seq(Int \X Nat) /\ DOMAIN s = DOMAIN n
    BY <1>1, CleanStarts
  <2> HIDE DEF s, n
  <2>2. Len(n) = Len(s)
    BY <2>1
  <2>3. Ordered(s)
    BY <2>1, CallsDiffer DEF Ordered
  <2>4. Cleans(s)
    BY <2>1 DEF Cleans
  <2>5. "clean-backups" \notin Writers
    BY Plans
  <2> QED
    BY <1>1, <1>2, <2>2, <2>3, <2>4, <2>5 DEF ShapedAt
<1> QED
  BY <1>1, <1>2, <1>3, ShapeKept DEF Shaped

\* A call leaves a plan of the same shape.
LEMMA CallShaped ==
  ASSUME GeneralInv, NEW p \in setting.procs, NEW f \in Files,
         NEW op \in Ops \ {"unlink"}, Next1(p, op, f), UNCHANGED names
  PROVE  Shaped'
<1>1. TypeOK /\ Shaped /\ p \in Procs /\ Running(p)
  BY Member DEF GeneralInv, Next1
<1>2. /\ plan[p][1] = Call(op, f) /\ plan'[p] = Tail(plan[p]) /\ UNCHANGED <<setting, kind, fresh>>
      /\ \A q \in Procs : q # p => plan'[q] = plan[q]
  BY <1>1, CallMade DEF TypeOK
<1>3. kind[p] # "clean-backups"
  BY <1>1, <1>2, WhoseCall DEF Shaped
<1>4. ShapedAt(p)'
  BY <1>1, <1>2, <1>3, ShapeAfter DEF Shaped
<1> QED
  BY <1>1, <1>2, <1>4, ShapeKept DEF Shaped

\* restore goes on after a read, or gives up.
LEMMA LoadShaped ==
  ASSUME GeneralInv, NEW p \in setting.procs, NEW f \in Files, LoadBackup(p, f)
  PROVE  Shaped'
<1>1. TypeOK /\ Shaped /\ p \in Procs /\ Running(p) /\ Head(plan[p]) = Call("load", f)
  BY Member DEF GeneralInv, LoadBackup
<1>2. /\ plan'[p] = <<>> \/ plan'[p] = Tail(plan[p])
      /\ UNCHANGED <<setting, kind, fresh, names>>
      /\ \A q \in Procs : q # p => plan'[q] = plan[q]
  <2>1. /\ plan' = [plan EXCEPT ![p] = <<>>] \/ plan' = [plan EXCEPT ![p] = Tail(plan[p])]
        /\ UNCHANGED <<setting, kind, fresh, names>>
    BY Loaded
  <2>2. plan \in [Procs -> Seq(Calls)] /\ p \in Procs
    BY <1>1 DEF TypeOK
  <2>3. /\ plan'[p] = <<>> \/ plan'[p] = Tail(plan[p])
        /\ \A q \in Procs : q # p => plan'[q] = plan[q]
    BY <2>1, <2>2
  <2> QED
    BY <2>1, <2>3
<1>3. plan[p] \in Seq(Calls) /\ plan[p] # <<>> /\ plan[p][1] = Call("load", f)
  BY <1>1, TailOf DEF TypeOK, Running
<1>4. kind[p] # "clean-backups"
  BY <1>1, <1>3, WhoseCall DEF Shaped, Ops
<1>5. ShapedAt(p)'
  BY <1>1, <1>2, <1>4, ShapeAfter, NoShape DEF Shaped
<1> QED
  BY <1>1, <1>2, <1>5, ShapeKept DEF Shaped

\* clean-backups has a name for each unlink, and goes on or gives up.
LEMMA UnlinkShaped ==
  ASSUME GeneralInv, NEW p \in setting.procs, NEW f \in Files, Unlink(p, f)
  PROVE  Shaped' /\ names[p] # <<>> /\ kind[p] = "clean-backups"
<1>1. TypeOK /\ Shaped /\ p \in Procs /\ Running(p) /\ Head(plan[p]) = Call("unlink", f)
  BY Member DEF GeneralInv, Unlink
<1>2. /\ plan'[p] = <<>> \/ plan'[p] = Tail(plan[p])
      /\ names'[p] = Tail(names[p]) /\ UNCHANGED <<setting, kind, fresh>>
      /\ \A q \in Procs : q # p => plan'[q] = plan[q] /\ names'[q] = names[q]
  <2>1. /\ plan' = [plan EXCEPT ![p] = <<>>] \/ plan' = [plan EXCEPT ![p] = Tail(plan[p])]
        /\ names' = [names EXCEPT ![p] = Tail(names[p])]
        /\ UNCHANGED <<setting, kind, fresh>>
    BY <1>1, Removed
  <2>2. plan \in [Procs -> Seq(Calls)] /\ names \in [Procs -> Seq(Int \X Nat)] /\ p \in Procs
    BY <1>1 DEF TypeOK
  <2>3. /\ plan'[p] = <<>> \/ plan'[p] = Tail(plan[p])
        /\ names'[p] = Tail(names[p])
        /\ \A q \in Procs : q # p => plan'[q] = plan[q] /\ names'[q] = names[q]
    BY <2>1, <2>2
  <2> QED
    BY <2>1, <2>3
<1>3. plan[p] \in Seq(Calls) /\ plan[p] # <<>> /\ plan[p][1] = Call("unlink", f) /\ Len(plan[p]) # 0
  BY <1>1, TailOf DEF TypeOK, Running
<1>4. kind[p] = "clean-backups"
  BY <1>1, <1>3, WhoseCall DEF Shaped, Ops
<1>5. names[p] # <<>>
  BY <1>1, <1>3, <1>4 DEF Shaped, ShapedAt
<1>6. ShapedAt(p)'
  BY <1>1, <1>2, ShapeAfter, NoShape DEF Shaped
<1> QED
  BY <1>1, <1>2, <1>4, <1>5, <1>6, ShapeKept DEF Shaped

\* A process that has died has nothing left to do.
LEMMA CrashShaped ==
  ASSUME GeneralInv, NEW p \in setting.procs, Crash(p)
  PROVE  Shaped'
<1>1. TypeOK /\ Shaped /\ p \in Procs
  BY Member DEF GeneralInv
<1>2. /\ plan'[p] = <<>> /\ UNCHANGED <<setting, kind, fresh, names>>
      /\ \A q \in Procs : q # p => plan'[q] = plan[q]
  BY <1>1 DEF TypeOK, Crash
<1> QED
  BY <1>1, <1>2, ShapeKept, NoShape DEF Shaped
-------------------------------------------------------------------------------
(* Steps: backups to be filled, and names that are spared *)

\* A process comes to fill a backup by opening it.
LEMMA FillFollowsOpen ==
  ASSUME TypeOK, NEW p \in Procs, ShapedAt(p), Running(p),
         plan'[p] \in {<<>>, Tail(plan[p])}, NEW g \in Files, Fills(p, g)'
  PROVE  plan[p][1] = Call("open", g)
<1>1. plan[p] \in Seq(Calls) /\ plan[p] # <<>> /\ Ordered(plan[p])
  BY DEF TypeOK, ShapedAt, Running
<1>2. plan'[p] = Tail(plan[p]) /\ Tail(plan[p]) # <<>> /\ Head(Tail(plan[p])) = Call("fill", g)
  BY DEF Fills, Running
<1>3. Tail(plan[p]) \in Seq(Calls)
  BY <1>1, TailOf
<1>4. Tail(plan[p])[1] = Call("fill", g)
  BY <1>2, <1>3, TailOf
<1> QED
  BY <1>1, <1>2, <1>4, OrderedHead

\* Where nothing is opened, filled or removed, what is to be filled was so before.
LEMMA KeepFilling ==
  ASSUME Filling, UNCHANGED <<backups, now, slot>>,
         \A q \in Procs, g \in Files : Fills(q, g)' => Fills(q, g)
  PROVE  Filling'
BY DEF Filling

\* The steps of which that is true.
LEMMA QuietFilling ==
  ASSUME GeneralInv, NEW p \in setting.procs, NEW f \in Files,
         \/ \E c \in setting.commands : StartWriter(p, c)
         \/ Crash(p) \/ StartRestore(p, f) \/ StartClean(p, f)
         \/ Answered(p, f) \/ Snap(p, f) \/ Truncate(p, f) \/ WriteFile(p, f)
         \/ LoadBackup(p, f)
  PROVE  Filling'
<1>1. TypeOK /\ Dated /\ Shaped /\ Filling /\ p \in Procs
  BY Member DEF GeneralInv
<1>2. UNCHANGED <<backups, now, slot>>
  BY BackupsKept
<1>3. ASSUME \A q \in Procs : q # p => plan'[q] = plan[q],
             \A g \in Files : Fills(p, g)' => Fills(p, g)
      PROVE  Filling'
  <2>1. \A q \in Procs, g \in Files : Fills(q, g)' => Fills(q, g)
    BY <1>3 DEF Fills, Running
  <2> QED
    BY <1>1, <1>2, <2>1, KeepFilling
<1>4. ASSUME NEW c \in setting.commands, StartWriter(p, c) PROVE Filling'
  <2>1. plan'[p] = Plan[c] /\ c \in Writers /\ \A q \in Procs : q # p => plan'[q] = plan[q]
    BY <1>1, <1>4 DEF TypeOK, StartWriter
  <2>2. NewPlan(Plan[c])
    BY <2>1, NewPlans
  <2>3. \A g \in Files : Head(Plan[c]) # Call("fill", g)
    BY <2>2, TailOf, CallsDiffer DEF NewPlan
  <2> QED
    BY <1>3, <2>1, <2>3 DEF Fills
<1>5. ASSUME StartRestore(p, f) PROVE Filling'
  <2>1. /\ plan'[p] = <<Call("load", f), Call("trunc", f), Call("write", f)>>
        /\ \A q \in Procs : q # p => plan'[q] = plan[q]
    BY <1>1, <1>5, RestoreStarts DEF TypeOK, StartRestore
  <2>2. \A g \in Files : Head(plan'[p]) # Call("fill", g)
    BY <2>1, CallsDiffer
  <2> QED
    BY <1>3, <2>1, <2>2 DEF Fills
<1>6. ASSUME StartClean(p, f) PROVE Filling'
  <2>1. /\ plan'[p] = [i \in DOMAIN Doomed(f) |-> Call("unlink", f)]
        /\ \A q \in Procs : q # p => plan'[q] = plan[q]
    BY <1>1, <1>6 DEF TypeOK, StartClean
  <2>2. /\ plan'[p] \in Seq(Calls) /\ plan'[p] # <<>>
        /\ \A i \in DOMAIN plan'[p] : plan'[p][i] = Call("unlink", f)
    BY <1>1, <1>6, <2>1, CleanStarts DEF StartClean
  <2>3. Head(plan'[p]) = plan'[p][1] /\ 1 \in DOMAIN plan'[p]
    BY <2>2, TailOf
  <2>4. \A g \in Files : Head(plan'[p]) # Call("fill", g)
    BY <2>2, <2>3, CallsDiffer
  <2> QED
    BY <1>3, <2>1, <2>4 DEF Fills
<1>7. ASSUME NEW op \in Ops \ {"open"}, Running(p), Head(plan[p]) = Call(op, f),
             \A q \in Procs : q # p => plan'[q] = plan[q], plan'[p] \in {<<>>, Tail(plan[p])}
      PROVE  Filling'
  <2>1. plan[p][1] = Call(op, f)
    BY <1>1, <1>7, TailOf DEF TypeOK, Running
  <2>2. \A g \in Files : ~Fills(p, g)'
    BY <1>1, <1>7, <2>1, FillFollowsOpen, CallsDiffer DEF Shaped
  <2> QED
    BY <1>3, <1>7, <2>2
<1>8. ASSUME NEW op \in Ops \ {"open"}, Next1(p, op, f) PROVE Filling'
  <2>1. /\ Running(p) /\ Head(plan[p]) = Call(op, f) /\ plan'[p] = Tail(plan[p])
        /\ \A q \in Procs : q # p => plan'[q] = plan[q]
    BY <1>1, <1>8 DEF TypeOK, Next1
  <2> QED
    BY <1>7, <2>1
<1>9. ASSUME LoadBackup(p, f) PROVE Filling'
  <2>1. /\ Running(p) /\ Head(plan[p]) = Call("load", f) /\ "load" \in Ops \ {"open"}
        /\ plan'[p] \in {<<>>, Tail(plan[p])}
        /\ \A q \in Procs : q # p => plan'[q] = plan[q]
    <3>1. Running(p) /\ Head(plan[p]) = Call("load", f) /\ "load" \in Ops \ {"open"}
      BY <1>9 DEF LoadBackup, Ops
    <3>2. plan' = [plan EXCEPT ![p] = <<>>] \/ plan' = [plan EXCEPT ![p] = Tail(plan[p])]
      BY <1>9, Loaded
    <3> QED
      BY <1>1, <3>1, <3>2 DEF TypeOK
  <2> QED
    BY <1>7, <2>1
<1>10. ASSUME Crash(p) PROVE Filling'
  <2>1. plan'[p] = <<>> /\ \A q \in Procs : q # p => plan'[q] = plan[q]
    BY <1>1, <1>10 DEF TypeOK, Crash
  <2> QED
    BY <1>3, <2>1 DEF Fills, Running
<1>11. Answered(p, f) \/ Snap(p, f) \/ Truncate(p, f) \/ WriteFile(p, f) => Filling'
  BY <1>8 DEF Answered, Snap, Truncate, WriteFile, Ops
<1> QED
  BY <1>4, <1>5, <1>6, <1>9, <1>10, <1>11

\* The backup that p opens is its own.
LEMMA OpenFilling ==
  ASSUME GeneralInv, NEW p \in setting.procs, NEW f \in Files, OpenBackup(p, f)
  PROVE  Filling'
<1>1. TypeOK /\ Dated /\ Shaped /\ Filling /\ p \in Procs
  BY Member DEF GeneralInv
<1>2. PICK new : Added(f, new)
  BY <1>1, Opened
<1>3. /\ now \in Nat /\ now' = now + 1 /\ slot'[p] = now
      /\ \A q \in Procs : slot[q] \in Nat /\ (q # p => slot'[q] = slot[q] /\ plan'[q] = plan[q])
  BY <1>1, Opened DEF TypeOK, OpenBackup, Next1
<1>4. \A q \in Procs, g \in Files : q # p => (Fills(q, g)' <=> Fills(q, g))
  BY <1>3 DEF Fills, Running
<1>5. \A g \in Files : \A b \in backups[g] : b.born < now /\ b.born \in Nat
  BY <1>1, Clocked DEF Dated
<1>6. \A q \in Procs, g \in Files : Fills(q, g) => slot[q] < now
  BY <1>1 DEF Filling
<1> SUFFICES ASSUME NEW q \in Procs, NEW g \in Files, Fills(q, g)'
             PROVE  /\ slot'[q] < now'
                    /\ \A h \in Files : \A b \in backups'[h] : b.born = slot'[q] => b.body = Torn
                    /\ \A r \in Procs, h \in Files : r # q /\ Fills(r, h)' => slot'[r] # slot'[q]
  BY DEF Filling
<1>7. CASE q = p
  <2>1. \A h \in Files : \A b \in backups'[h] : b.born = now => b.body = Torn
    BY <1>2, <1>3, <1>5 DEF Added
  <2>2. \A r \in Procs, h \in Files : r # p /\ Fills(r, h)' => slot'[r] # now
    BY <1>3, <1>4, <1>6
  <2> QED
    BY <1>3, <1>7, <2>1, <2>2
<1>8. CASE q # p
  <2>1. Fills(q, g) /\ slot'[q] = slot[q] /\ slot[q] < now
    BY <1>3, <1>4, <1>6, <1>8
  <2>2. \A h \in Files : \A b \in backups[h] : b.born = slot[q] => b.body = Torn
    BY <1>1, <2>1 DEF Filling
  <2>3. \A h \in Files : \A b \in backups'[h] : b.born = slot[q] => b.body = Torn
    BY <1>2, <1>3, <2>1, <2>2 DEF Added
  <2>4. \A r \in Procs, h \in Files : r # q /\ Fills(r, h)' => slot'[r] # slot[q]
    BY <1>1, <1>3, <1>4, <2>1 DEF Filling
  <2> QED
    BY <1>3, <2>1, <2>3, <2>4
<1> QED
  BY <1>7, <1>8

\* Filling it touches no other.
LEMMA FillFilling ==
  ASSUME GeneralInv, NEW p \in setting.procs, NEW f \in Files, FillBackup(p, f)
  PROVE  Filling'
<1>1. TypeOK /\ Dated /\ Shaped /\ Filling /\ p \in Procs
  BY Member DEF GeneralInv
<1>2. PICK h : Filled(p, f, h)
  BY <1>1, Written
<1>3. /\ now \in Nat /\ now' = now + 1 /\ UNCHANGED slot /\ Running(p)
      /\ Head(plan[p]) = Call("fill", f) /\ plan'[p] = Tail(plan[p])
      /\ \A q \in Procs : slot[q] \in Nat /\ (q # p => plan'[q] = plan[q])
  BY <1>1, Written DEF TypeOK, FillBackup, Next1
<1>4. \A q \in Procs, g \in Files : Fills(q, g)' => q # p /\ Fills(q, g)
  <2>1. \A g \in Files : ~Fills(p, g)'
    <3>1. plan[p][1] = Call("fill", f)
      BY <1>1, <1>3, TailOf DEF TypeOK, Running
    <3>2. plan'[p] \in {<<>>, Tail(plan[p])} /\ ShapedAt(p)
      BY <1>1, <1>3 DEF Shaped
    <3>3. \A g \in Files : Call("fill", f) # Call("open", g)
      BY CallsDiffer
    <3> QED
      BY <1>1, <1>3, <3>1, <3>2, <3>3, FillFollowsOpen
  <2> QED
    BY <1>3, <2>1 DEF Fills, Running
<1> SUFFICES ASSUME NEW q \in Procs, NEW g \in Files, Fills(q, g)'
             PROVE  /\ slot'[q] < now'
                    /\ \A k \in Files : \A b \in backups'[k] : b.born = slot'[q] => b.body = Torn
                    /\ \A r \in Procs, k \in Files : r # q /\ Fills(r, k)' => slot'[r] # slot'[q]
  BY DEF Filling
<1>5. q # p /\ Fills(q, g) /\ Fills(p, f)
  BY <1>3, <1>4 DEF Fills
<1>6. /\ slot[q] < now /\ slot[p] # slot[q]
      /\ \A k \in Files : \A b \in backups[k] : b.born = slot[q] => b.body = Torn
      /\ \A r \in Procs, k \in Files : r # q /\ Fills(r, k) => slot[r] # slot[q]
  BY <1>1, <1>5 DEF Filling
<1>7. ASSUME NEW k \in Files, NEW b \in backups'[k], b.born = slot[q] PROVE b.body = Torn
  BY <1>2, <1>6, <1>7 DEF Filled
<1> QED
  BY <1>3, <1>4, <1>6, <1>7

\* Unlinking takes backups away.
LEMMA UnlinkFilling ==
  ASSUME GeneralInv, NEW p \in setting.procs, NEW f \in Files, Unlink(p, f)
  PROVE  Filling'
<1>1. TypeOK /\ Dated /\ Shaped /\ Filling /\ p \in Procs
  BY Member DEF GeneralInv
<1>2. /\ \A g \in Files : backups'[g] \subseteq backups[g]
      /\ UNCHANGED <<now, slot>>
      /\ Running(p) /\ Head(plan[p]) = Call("unlink", f) /\ plan'[p] \in {<<>>, Tail(plan[p])}
      /\ \A q \in Procs : q # p => plan'[q] = plan[q]
  BY <1>1, Removed DEF TypeOK, Unlink
<1>3. plan[p][1] = Call("unlink", f)
  BY <1>1, <1>2, TailOf DEF TypeOK, Running
<1>4. \A g \in Files : ~Fills(p, g)'
  BY <1>1, <1>2, <1>3, FillFollowsOpen, CallsDiffer DEF Shaped
<1>5. \A q \in Procs, g \in Files : Fills(q, g)' => Fills(q, g)
  BY <1>2, <1>4 DEF Fills, Running
<1> QED
  BY <1>1, <1>2, <1>5 DEF Filling

\* A lone cleaner is the only one that cleans.
LEMMA LoneCleaner ==
  ASSUME TypeOK, Shaped, Cardinality(setting.cleaners) = 1,
         NEW p \in Procs, NEW q \in Procs, Running(p), Running(q),
         kind[p] = "clean-backups", kind[q] = "clean-backups"
  PROVE  p = q
<1>1. p \in setting.cleaners /\ q \in setting.cleaners
  BY DEF Shaped, ShapedAt
<1>2. IsFiniteSet(setting.cleaners)
  BY StoreAssumption, FS_Subset DEF TypeOK, StoreAssumption
<1>3. \E x : setting.cleaners = {x}
  BY <1>2, FS_Singleton
<1> QED
  BY <1>1, <1>3

\* Backups have no more names than there are of them.
LEMMA FewerNames ==
  ASSUME NEW S, IsFiniteSet(S)
  PROVE  /\ IsFiniteSet({Name(b) : b \in S}) /\ Cardinality({Name(b) : b \in S}) <= Cardinality(S)
         /\ Cardinality({Name(b) : b \in S}) \in Nat /\ Cardinality(S) \in Nat
<1>1. [b \in S |-> Name(b)] \in Surjection(S, {Name(b) : b \in S})
  BY DEF Surjection
<1> QED
  BY <1>1, FS_Surjection, FS_CardinalityType

\* As long as the names to spare do not get fewer, a lone cleaner spares Keep.
LEMMA SparedKept ==
  ASSUME TypeOK', Spares, UNCHANGED setting,
         Cardinality(setting.cleaners) = 1 =>
           \A q \in Procs, g \in Files : Cleaning(q, g)' =>
             Cleaning(q, g) /\ Listed(g) \ Due(q) \subseteq Listed(g)' \ Due(q)'
  PROVE  Spares'
<1> SUFFICES ASSUME Cardinality(setting.cleaners) = 1, NEW q \in Procs, NEW g \in Files,
                    Cleaning(q, g)'
             PROVE  Cardinality(Listed(g)' \ Due(q)') >= Keep
  BY DEF Spares
<1> DEFINE A == Listed(g) \ Due(q)
           B == Listed(g)' \ Due(q)'
<1>1. A \subseteq B /\ Cardinality(A) >= Keep
  BY DEF Spares
<1>2. Listed(g)' = {Name(b) : b \in backups'[g]}
  BY NamesKept DEF Listed
<1>3. IsFiniteSet(backups'[g])
  BY DEF TypeOK
<1>4. IsFiniteSet(Listed(g)')
  BY <1>2, <1>3, FewerNames
<1>5. IsFiniteSet(B)
  BY <1>4, FS_Subset
<1> HIDE DEF A, B
<1>6. Cardinality(A) <= Cardinality(B) /\ Cardinality(A) \in Nat /\ Cardinality(B) \in Nat
  BY <1>1, <1>5, FS_Subset, FS_CardinalityType
<1>7. Keep \in Nat
  BY StoreAssumption DEF StoreAssumption
<1> QED
  BY <1>1, <1>6, <1>7 DEF B

\* A process that does not clean, or takes no step, is no cleaner to spare names;
\* and what another adds or fills only adds to the names.
LEMMA OthersSpare ==
  ASSUME TypeOK', Spares, UNCHANGED setting, NEW p \in Procs,
         ~Running(p)' \/ kind'[p] # "clean-backups",
         \A q \in Procs : q # p => plan'[q] = plan[q] /\ kind'[q] = kind[q] /\ names'[q] = names[q],
         \A g \in Files : \A b \in backups[g] : \E c \in backups'[g] : Name(c) = Name(b)
  PROVE  Spares'
<1>1. ASSUME NEW q \in Procs, NEW g \in Files, Cleaning(q, g)'
      PROVE  Cleaning(q, g) /\ Listed(g) \ Due(q) \subseteq Listed(g)' \ Due(q)'
  <2>1. q # p
    BY <1>1 DEF Cleaning, Running
  <2>2. Cleaning(q, g) /\ Due(q)' = Due(q)
    BY <1>1, <2>1 DEF Cleaning, Due, Running
  <2>3. Listed(g)' = {Name(b) : b \in backups'[g]}
    BY NamesKept DEF Listed
  <2>4. Listed(g) \subseteq Listed(g)'
    BY <2>3 DEF Listed
  <2> QED
    BY <2>2, <2>4
<1> QED
  BY <1>1, SparedKept

\* The steps that unlink nothing and start no cleaning spare what was spared.
LEMMA QuietSpares ==
  ASSUME GeneralInv, NEW p \in setting.procs, NEW f \in Files, TypeOK',
         \/ \E c \in setting.commands : StartWriter(p, c)
         \/ Crash(p) \/ StartRestore(p, f)
         \/ Answered(p, f) \/ Snap(p, f) \/ Truncate(p, f) \/ WriteFile(p, f)
         \/ LoadBackup(p, f) \/ OpenBackup(p, f) \/ FillBackup(p, f)
  PROVE  Spares'
<1>1. TypeOK /\ Dated /\ Shaped /\ Spares /\ p \in Procs
  BY Member DEF GeneralInv
<1>2. ASSUME UNCHANGED <<setting, backups>>, ~Running(p)' \/ kind'[p] # "clean-backups",
             \A q \in Procs : q # p =>
               plan'[q] = plan[q] /\ kind'[q] = kind[q] /\ names'[q] = names[q]
      PROVE  Spares'
  BY <1>1, <1>2, OthersSpare
<1>3. ASSUME NEW op \in Ops \ {"unlink"}, Running(p), Head(plan[p]) = Call(op, f)
      PROVE  kind[p] # "clean-backups"
  <2>1. plan[p][1] = Call(op, f)
    BY <1>1, <1>3, TailOf DEF TypeOK, Running
  <2> QED
    BY <1>1, <1>3, <2>1, WhoseCall DEF Shaped
<1>4. ASSUME NEW op \in Ops \ {"unlink"}, Next1(p, op, f), UNCHANGED names
      PROVE  /\ UNCHANGED setting /\ kind'[p] # "clean-backups"
             /\ \A q \in Procs : q # p =>
                  plan'[q] = plan[q] /\ kind'[q] = kind[q] /\ names'[q] = names[q]
  BY <1>1, <1>3, <1>4 DEF TypeOK, Next1
<1>5. ASSUME NEW c \in setting.commands, StartWriter(p, c) PROVE Spares'
  <2>1. /\ kind'[p] # "clean-backups" /\ UNCHANGED <<setting, backups>>
        /\ \A q \in Procs : q # p => plan'[q] = plan[q] /\ kind'[q] = kind[q] /\ names'[q] = names[q]
    BY <1>1, <1>5, Plans DEF TypeOK, StartWriter
  <2> QED
    BY <1>2, <2>1
<1>6. ASSUME StartRestore(p, f) PROVE Spares'
  <2>1. /\ kind'[p] # "clean-backups" /\ UNCHANGED <<setting, backups>>
        /\ \A q \in Procs : q # p => plan'[q] = plan[q] /\ kind'[q] = kind[q] /\ names'[q] = names[q]
    BY <1>1, <1>6 DEF TypeOK, StartRestore
  <2> QED
    BY <1>2, <2>1
<1>7. ASSUME Crash(p) PROVE Spares'
  <2>1. /\ ~Running(p)' /\ UNCHANGED <<setting, backups>>
        /\ \A q \in Procs : q # p => plan'[q] = plan[q] /\ kind'[q] = kind[q] /\ names'[q] = names[q]
    BY <1>1, <1>7 DEF TypeOK, Crash, Running
  <2> QED
    BY <1>2, <2>1
<1>8. Answered(p, f) \/ Snap(p, f) \/ Truncate(p, f) \/ WriteFile(p, f) => Spares'
  <2>1. Answered(p, f) \/ Snap(p, f) \/ Truncate(p, f) \/ WriteFile(p, f) =>
          /\ \E op \in Ops \ {"unlink"} : Next1(p, op, f)
          /\ UNCHANGED <<names, backups>>
    BY DEF Answered, Snap, Truncate, WriteFile, Ops
  <2> QED
    BY <1>2, <1>4, <2>1
<1>9. ASSUME LoadBackup(p, f) PROVE Spares'
  <2>1. Running(p) /\ Head(plan[p]) = Call("load", f) /\ "load" \in Ops \ {"unlink"}
    BY <1>9 DEF LoadBackup, Ops
  <2>2. /\ plan' = [plan EXCEPT ![p] = <<>>] \/ plan' = [plan EXCEPT ![p] = Tail(plan[p])]
        /\ UNCHANGED <<setting, backups, kind, names>>
    BY <1>9, Loaded
  <2>3. kind[p] # "clean-backups"
    BY <1>3, <2>1
  <2>4. \A q \in Procs : q # p => plan'[q] = plan[q]
    BY <1>1, <2>2 DEF TypeOK
  <2> QED
    BY <1>2, <2>2, <2>3, <2>4
<1>10. ASSUME OpenBackup(p, f) PROVE Spares'
  <2>1. Next1(p, "open", f) /\ UNCHANGED names /\ "open" \in Ops \ {"unlink"}
    BY <1>10 DEF OpenBackup, Ops
  <2>2. PICK new : Added(f, new)
    BY <1>1, <1>10, Opened
  <2>3. \A g \in Files : \A b \in backups[g] : \E c \in backups'[g] : Name(c) = Name(b)
    BY <2>2 DEF Added
  <2> QED
    BY <1>1, <1>4, <2>1, <2>3, OthersSpare
<1>11. ASSUME FillBackup(p, f) PROVE Spares'
  <2>1. Next1(p, "fill", f) /\ UNCHANGED names /\ "fill" \in Ops \ {"unlink"}
    BY <1>11 DEF FillBackup, Ops
  <2>2. PICK h : Filled(p, f, h)
    BY <1>1, <1>11, Written
  <2>3. \A g \in Files : \A b \in backups[g] : \E c \in backups'[g] : Name(c) = Name(b)
    BY <2>2 DEF Filled
  <2> QED
    BY <1>1, <1>4, <2>1, <2>3, OthersSpare
<1> QED
  BY <1>5, <1>6, <1>7, <1>8, <1>9, <1>10, <1>11

\* Where the calls of a cleaner are, all in one file.
LEMMA OneFile ==
  ASSUME TypeOK, NEW p \in Procs, ShapedAt(p), Running(p), kind[p] = "clean-backups",
         NEW f \in Files, plan[p][1] = Call("unlink", f)
  PROVE  \A i \in DOMAIN plan[p] : plan[p][i] = Call("unlink", f)
<1>1. plan[p] \in Seq(Calls) /\ plan[p] # <<>> /\ 1 \in DOMAIN plan[p]
  BY TailOf DEF TypeOK, Running
<1> QED
  BY <1>1, CallsDiffer DEF ShapedAt, Cleans

\* The names that are left are among those that were to be unlinked.
LEMMA DueAfter ==
  ASSUME TypeOK, NEW p \in Procs, names[p] # <<>>, names'[p] = Tail(names[p])
  PROVE  Due(p)' \subseteq Due(p) /\ Head(names[p]) \in Due(p)
<1> DEFINE s == names[p]
<1>1. s \in Seq(Int \X Nat) /\ s # <<>>
  BY DEF TypeOK
<1>2. /\ DOMAIN Tail(s) = 1..(Len(s) - 1) /\ DOMAIN s = 1..Len(s) /\ Len(s) \in Nat \ {0}
      /\ Head(s) = s[1] /\ \A i \in DOMAIN Tail(s) : i + 1 \in DOMAIN s /\ Tail(s)[i] = s[i + 1]
  BY <1>1
<1>3. Due(p)' = {Tail(s)[i] : i \in DOMAIN Tail(s)} /\ Due(p) = {s[i] : i \in DOMAIN s}
  BY DEF Due
<1> HIDE DEF s
<1>4. Head(s) \in {s[i] : i \in DOMAIN s}
  BY <1>2
<1>5. {Tail(s)[i] : i \in DOMAIN Tail(s)} \subseteq {s[i] : i \in DOMAIN s}
  BY <1>2
<1> QED
  BY <1>3, <1>4, <1>5 DEF s

\* An unlink removes a name that was not spared.
LEMMA UnlinkSpares ==
  ASSUME GeneralInv, NEW p \in setting.procs, NEW f \in Files, TypeOK', Unlink(p, f)
  PROVE  Spares'
<1>1. TypeOK /\ Dated /\ Shaped /\ Shaped' /\ Spares /\ p \in Procs /\ names[p] # <<>>
      /\ kind[p] = "clean-backups"
  BY Member, UnlinkShaped DEF GeneralInv
<1>2. /\ backups'[f] = {b \in backups[f] : Name(b) # Head(names[p])}
      /\ \A g \in Files : g # f => backups'[g] = backups[g]
      /\ names'[p] = Tail(names[p]) /\ plan'[p] \in {<<>>, Tail(plan[p])}
      /\ \A q \in Procs : q # p => plan'[q] = plan[q]
      /\ UNCHANGED <<setting, kind>>
      /\ Running(p) /\ Head(plan[p]) = Call("unlink", f)
  BY <1>1, Removed DEF TypeOK, Unlink
<1>3. plan[p] \in Seq(Calls) /\ plan[p] # <<>> /\ plan[p][1] = Call("unlink", f)
  BY <1>1, <1>2, TailOf DEF TypeOK, Running
<1> SUFFICES ASSUME Cardinality(setting.cleaners) = 1, NEW q \in Procs, NEW g \in Files,
                    Cleaning(q, g)'
             PROVE  Cleaning(q, g) /\ Listed(g) \ Due(q) \subseteq Listed(g)' \ Due(q)'
  BY <1>1, <1>2, SparedKept
<1>4. q = p
  <2> SUFFICES ASSUME q # p PROVE FALSE
    OBVIOUS
  <2>1. Running(q) /\ kind[q] = "clean-backups"
    BY <1>2 DEF Cleaning, Running
  <2> QED
    BY <1>1, <1>2, <2>1, LoneCleaner
<1>5. g = f
  <2>1. \A i \in DOMAIN plan[p] : plan[p][i] = Call("unlink", f)
    BY <1>1, <1>2, <1>3, OneFile DEF Shaped
  <2>2. Tail(plan[p]) # <<>> /\ Head(Tail(plan[p])) = Call("unlink", g)
    BY <1>2, <1>4 DEF Cleaning, Running
  <2>3. Tail(plan[p]) \in Seq(Calls)
    BY <1>3, TailOf
  <2>4. 1 \in DOMAIN Tail(plan[p]) /\ Tail(plan[p])[1] = Call("unlink", g)
    BY <2>2, <2>3, TailOf
  <2>5. plan[p][1 + 1] = Call("unlink", g) /\ 1 + 1 \in DOMAIN plan[p]
    BY <1>3, <2>4, TailOf
  <2> QED
    BY <2>1, <2>5, CallsDiffer
<1>6. Cleaning(p, f)
  BY <1>1, <1>2 DEF Cleaning
<1>7. Due(p)' \subseteq Due(p) /\ Head(names[p]) \in Due(p)
  BY <1>1, <1>2, DueAfter
<1>8. Listed(f)' = {Name(b) : b \in backups'[f]}
  BY <1>2, NamesKept DEF Listed
<1>9. Listed(f) \ Due(p) \subseteq Listed(f)'
  BY <1>2, <1>7, <1>8 DEF Listed
<1> QED
  BY <1>4, <1>5, <1>6, <1>7, <1>9

\* The names of the first Keep backups that are listed are spared.
LEMMA FirstSpared ==
  ASSUME TypeOK, Dated, NEW f \in Files, Cardinality(backups[f]) > Keep, NEW p \in Procs,
         names'[p] = [i \in DOMAIN Doomed(f) |-> Name(Doomed(f)[i])]
  PROVE  LET L == ListBackups(f) IN
         /\ Keep \in Nat
         /\ \A i \in 1..Keep : L[i] \in backups[f] /\ Name(L[i]) \notin Due(p)'
         /\ \A i, j \in 1..Keep : L[i] = L[j] => i = j
         /\ \A b \in backups[f] : Name(b) \in Due(p)' =>
              \A i \in 1..Keep : ListedBefore(L[i], b)
<1> DEFINE L == ListBackups(f)
           n == Cardinality(backups[f])
           d == n - Keep
<1>1. /\ d \in Nat \ {0} /\ DOMAIN Doomed(f) = 1..d
      /\ \A i \in 1..d : Doomed(f)[i] = L[Keep + i]
  BY CleanStarts
<1>2. /\ n \in Nat /\ L \in [1..n -> backups[f]]
      /\ \A i, j \in 1..n : L[i] = L[j] => i = j
      /\ \A i, j \in 1..n : i < j <=> ListedBefore(L[i], L[j])
  BY Listing
<1>3. Keep \in Nat \ {0}
  BY StoreAssumption DEF StoreAssumption
<1>4. Due(p)' = {Name(L[Keep + i]) : i \in 1..d}
  <2>1. Due(p)' = {Name(Doomed(f)[i]) : i \in 1..d}
    BY <1>1 DEF Due
  <2> QED
    BY <1>1, <2>1
<1>5. \A b, c \in backups[f] : Name(b) = Name(c) => b = c
  BY DEF Dated
<1> HIDE DEF L, n
<1>6. \A i \in 1..Keep, j \in 1..d : i \in 1..n /\ Keep + j \in 1..n /\ i < Keep + j
  BY <1>1, <1>2, <1>3
<1>7. ASSUME NEW i \in 1..Keep PROVE L[i] \in backups[f] /\ Name(L[i]) \notin Due(p)'
  <2>1. ASSUME NEW j \in 1..d PROVE Name(L[i]) # Name(L[Keep + j])
    <3>1. i \in 1..n /\ Keep + j \in 1..n /\ i # Keep + j
      BY <1>3, <1>6
    <3> QED
      BY <1>2, <1>5, <3>1
  <2>2. i \in 1..n
    BY <1>1, <1>2, <1>3
  <2> QED
    BY <1>2, <1>4, <2>1, <2>2
<1>8. \A i, j \in 1..Keep : L[i] = L[j] => i = j
  BY <1>1, <1>2, <1>3
<1>9. ASSUME NEW b \in backups[f], Name(b) \in Due(p)', NEW i \in 1..Keep
      PROVE  ListedBefore(L[i], b)
  <2>1. PICK j \in 1..d : Name(b) = Name(L[Keep + j])
    BY <1>4, <1>9
  <2>2. i \in 1..n /\ Keep + j \in 1..n /\ i < Keep + j
    BY <1>6
  <2>3. b = L[Keep + j]
    BY <1>2, <1>5, <2>1, <2>2
  <2> QED
    BY <1>2, <2>2, <2>3
<1> QED
  BY <1>3, <1>7, <1>8, <1>9 DEF L

\* clean-backups starts with Keep names to spare.
LEMMA CleanSpares ==
  ASSUME GeneralInv, NEW p \in setting.procs, NEW f \in Files, TypeOK', StartClean(p, f)
  PROVE  Spares'
<1>1. /\ TypeOK /\ Dated /\ Shaped /\ Spares /\ p \in Procs /\ Cardinality(backups[f]) > Keep
      /\ UNCHANGED <<setting, backups>>
  BY Member DEF GeneralInv, StartClean
<1>2. /\ plan'[p] = [i \in DOMAIN Doomed(f) |-> Call("unlink", f)]
      /\ names'[p] = [i \in DOMAIN Doomed(f) |-> Name(Doomed(f)[i])]
      /\ \A q \in Procs : q # p => plan'[q] = plan[q] /\ kind'[q] = kind[q] /\ names'[q] = names[q]
  BY <1>1 DEF TypeOK, StartClean
<1>3. \A g \in Files : Listed(g)' = Listed(g)
  BY <1>1, NamesKept DEF Listed
<1> SUFFICES ASSUME Cardinality(setting.cleaners) = 1, NEW q \in Procs, NEW g \in Files,
                    Cleaning(q, g)'
             PROVE  Cardinality(Listed(g)' \ Due(q)') >= Keep
  BY <1>1 DEF Spares
<1>4. CASE q # p
  <2>1. Cleaning(q, g) /\ Due(q)' = Due(q)
    BY <1>2, <1>4 DEF Cleaning, Due, Running
  <2> QED
    BY <1>1, <1>3, <2>1 DEF Spares
<1>5. CASE q = p
  <2>1. g = f
    <3>1. /\ plan'[p] \in Seq(Calls) /\ plan'[p] # <<>>
          /\ \A i \in DOMAIN plan'[p] : plan'[p][i] = Call("unlink", f)
      BY <1>1, <1>2, CleanStarts
    <3>2. Head(plan'[p]) = plan'[p][1] /\ 1 \in DOMAIN plan'[p]
      BY <3>1, TailOf
    <3>3. Head(plan'[p]) = Call("unlink", g)
      BY <1>5 DEF Cleaning
    <3> QED
      BY <3>1, <3>2, <3>3, CallsDiffer
  <2> DEFINE L == ListBackups(f)
             T == Listed(f) \ Due(p)'
  <2>2. /\ Keep \in Nat
        /\ \A i \in 1..Keep : L[i] \in backups[f] /\ Name(L[i]) \notin Due(p)'
        /\ \A i, j \in 1..Keep : L[i] = L[j] => i = j
    BY <1>1, <1>2, FirstSpared
  <2> HIDE DEF L
  <2> DEFINE m == [i \in 1..Keep |-> Name(L[i])]
  <2>3. m \in [1..Keep -> T]
    BY <2>2 DEF Listed
  <2>4. \A i, j \in 1..Keep : m[i] = m[j] => i = j
    BY <1>1, <2>2 DEF Dated
  <2>5. IsFiniteSet(T)
    <3>1. IsFiniteSet(Listed(f))
      BY <1>1, FewerNames DEF Listed, TypeOK
    <3> QED
      BY <3>1, FS_Subset
  <2> HIDE DEF m, T
  <2>6. Cardinality(T) >= Keep
    BY <2>2, <2>3, <2>4, <2>5, NumberedSize
  <2> QED
    BY <1>3, <1>5, <2>1, <2>6 DEF T
<1> QED
  BY <1>4, <1>5

-------------------------------------------------------------------------------
(* The invariant of every setting *)

\* Nothing has been done.
LEMMA GeneralInit == Init => GeneralInv
<1> SUFFICES ASSUME Init PROVE GeneralInv
  OBVIOUS
<1>1. TypeOK
  BY FS_EmptySet DEF Init, TypeOK, Torn, Kinds
<1>2. \A p \in Procs : ~Running(p)
  BY DEF Init, Running
<1>3. Dated
  BY DEF Init, Dated
<1>4. Shaped /\ Filling /\ Spares
  BY <1>2 DEF Shaped, ShapedAt, Filling, Fills, Spares, Cleaning
<1> QED
  BY <1>1, <1>3, <1>4 DEF GeneralInv

\* Each step keeps it.
LEMMA GeneralNext == GeneralInv /\ [Next]_vars => GeneralInv'
<1> SUFFICES ASSUME GeneralInv, [Next]_vars PROVE GeneralInv'
  OBVIOUS
<1>0. TypeOK /\ Dated /\ Shaped /\ Filling /\ Spares
  BY DEF GeneralInv
<1>1. ASSUME NEW p \in setting.procs, NEW c \in setting.commands, StartWriter(p, c) PROVE GeneralInv'
  <2>1. TypeOK'
    BY <1>0, <1>1, CommandType
  <2>2. Dated'
    BY <1>0, <1>1, KeepDated DEF StartWriter
  <2>3. Shaped' /\ Filling' /\ Spares'
    BY <1>1, <2>1, WriterShaped, QuietFilling, QuietSpares, FileNames
  <2> QED
    BY <2>1, <2>2, <2>3 DEF GeneralInv
<1>2. ASSUME NEW p \in setting.procs, Crash(p) PROVE GeneralInv'
  <2>1. TypeOK'
    BY <1>0, <1>2, CommandType
  <2>2. Dated'
    BY <1>0, <1>2, KeepDated DEF Crash
  <2>3. Shaped' /\ Filling' /\ Spares'
    BY <1>2, <2>1, CrashShaped, QuietFilling, QuietSpares, FileNames
  <2> QED
    BY <2>1, <2>2, <2>3 DEF GeneralInv
<1>3. ASSUME NEW p \in setting.procs, NEW f \in Files, StartRestore(p, f) PROVE GeneralInv'
  <2>1. TypeOK'
    BY <1>0, <1>3, CommandType
  <2>2. Dated'
    BY <1>0, <1>3, KeepDated DEF StartRestore
  <2>3. Shaped' /\ Filling' /\ Spares'
    BY <1>3, <2>1, RestoreShaped, QuietFilling, QuietSpares
  <2> QED
    BY <2>1, <2>2, <2>3 DEF GeneralInv
<1>4. ASSUME NEW p \in setting.procs, NEW f \in Files, StartClean(p, f) PROVE GeneralInv'
  <2>1. TypeOK'
    BY <1>0, <1>4, CommandType
  <2>2. Dated'
    BY <1>0, <1>4, KeepDated DEF StartClean
  <2>3. Shaped' /\ Filling' /\ Spares'
    BY <1>4, <2>1, CleanShaped, QuietFilling, CleanSpares
  <2> QED
    BY <2>1, <2>2, <2>3 DEF GeneralInv
<1>5. ASSUME NEW p \in setting.procs, NEW f \in Files,
             Answered(p, f) \/ Snap(p, f) \/ Truncate(p, f) \/ WriteFile(p, f)
      PROVE  GeneralInv'
  <2>1. TypeOK'
    BY <1>0, <1>5, CallTypes
  <2>2. Dated'
    BY <1>0, <1>5, KeepDated, BackupsKept
  <2>3. Shaped'
    BY <1>5, CallShaped DEF Answered, Snap, Truncate, WriteFile, Ops
  <2>4. Filling' /\ Spares'
    BY <1>5, <2>1, QuietFilling, QuietSpares
  <2> QED
    BY <2>1, <2>2, <2>3, <2>4 DEF GeneralInv
<1>6. ASSUME NEW p \in setting.procs, NEW f \in Files, LoadBackup(p, f) PROVE GeneralInv'
  <2>1. TypeOK'
    BY <1>0, <1>6, CallTypes
  <2>2. Dated'
    BY <1>0, <1>6, KeepDated, BackupsKept
  <2>3. Shaped' /\ Filling' /\ Spares'
    BY <1>6, <2>1, LoadShaped, QuietFilling, QuietSpares
  <2> QED
    BY <2>1, <2>2, <2>3 DEF GeneralInv
<1>7. ASSUME NEW p \in setting.procs, NEW f \in Files, OpenBackup(p, f) PROVE GeneralInv'
  <2>1. TypeOK' /\ Dated'
    BY <1>0, <1>7, CallTypes, OpenDated, Member
  <2>2. Shaped'
    BY <1>7, CallShaped DEF OpenBackup, Ops
  <2>3. Filling' /\ Spares'
    BY <1>7, <2>1, OpenFilling, QuietSpares
  <2> QED
    BY <2>1, <2>2, <2>3 DEF GeneralInv
<1>8. ASSUME NEW p \in setting.procs, NEW f \in Files, FillBackup(p, f) PROVE GeneralInv'
  <2>1. TypeOK' /\ Dated'
    BY <1>0, <1>8, CallTypes, FillDated, Member
  <2>2. Shaped'
    BY <1>8, CallShaped DEF FillBackup, Ops
  <2>3. Filling' /\ Spares'
    BY <1>8, <2>1, FillFilling, QuietSpares
  <2> QED
    BY <2>1, <2>2, <2>3 DEF GeneralInv
<1>9. ASSUME NEW p \in setting.procs, NEW f \in Files, Unlink(p, f) PROVE GeneralInv'
  <2>1. Shaped' /\ names[p] # <<>>
    BY <1>9, UnlinkShaped
  <2>2. TypeOK' /\ Dated'
    BY <1>0, <1>9, <2>1, CallTypes, UnlinkDated, Member
  <2>3. Filling' /\ Spares'
    BY <1>9, <2>2, UnlinkFilling, UnlinkSpares
  <2> QED
    BY <2>1, <2>2, <2>3 DEF GeneralInv
<1>10. ASSUME NEW f \in Files, Edit(f) PROVE GeneralInv'
  <2>1. TypeOK'
    BY <1>0, <1>10, EditType
  <2>2. UNCHANGED <<setting, backups, now, plan, kind, fresh, slot, names>>
    BY <1>10 DEF Edit, procVars
  <2>3. Dated'
    BY <1>0, <2>2, KeepDated
  <2>4. Shaped' /\ Filling'
    BY <1>0, <2>2 DEF Shaped, ShapedAt, Filling, Fills, Running
  <2>5. Spares'
    BY <1>0, <2>2, NamesKept DEF Spares, Cleaning, Running, Listed, Due
  <2> QED
    BY <2>1, <2>3, <2>4, <2>5 DEF GeneralInv
<1>11. CASE UNCHANGED vars
  <2>1. UNCHANGED <<setting, file, due, raced, backups, now, ver, plan, kind, base, fresh, buf, slot, names>>
    BY <1>11 DEF vars, procVars
  <2>2. TypeOK' /\ Dated'
    BY <1>0, <2>1, KeepDated DEF TypeOK
  <2>3. Shaped' /\ Filling'
    BY <1>0, <2>1 DEF Shaped, ShapedAt, Filling, Fills, Running
  <2>4. Spares'
    BY <1>0, <2>1, NamesKept DEF Spares, Cleaning, Running, Listed, Due
  <2> QED
    BY <2>2, <2>3, <2>4 DEF GeneralInv
<1> QED
  BY <1>1, <1>2, <1>3, <1>4, <1>5, <1>6, <1>7, <1>8, <1>9, <1>10, <1>11 DEF Next

\* Types, dates, names, plans and backups to be filled, in any setting.
THEOREM GeneralInvariance == Spec => []GeneralInv
BY GeneralInit, GeneralNext, PTL DEF Spec
-------------------------------------------------------------------------------
(* One command at a time, on a fine clock *)

\* A step is that of the only process.
LEMMA Sole ==
  ASSUME TypeOK, Orderly, NEW p \in setting.procs
  PROVE  setting.grain = 1 /\ \A q \in setting.procs : q = p
<1>1. IsFiniteSet(setting.procs)
  BY StoreAssumption, FS_Subset DEF TypeOK, StoreAssumption
<1>2. \E x : setting.procs = {x}
  BY <1>1, FS_Singleton DEF Orderly
<1> QED
  BY <1>2 DEF Orderly

\* So it is enough to see to that process and to the torn files.
LEMMA OrderlyStep ==
  ASSUME TypeOK, Shaped', UNCHANGED setting, NEW p \in setting.procs,
         Orderly => AtWork(p)' /\ TornSaved'
  PROVE  OrderlyInv'
<1> SUFFICES ASSUME Orderly, NEW q \in Procs, Running(q)' PROVE AtWork(q)'
  BY DEF OrderlyInv, Orderly, AtWork
<1>1. q = p
  BY Sole DEF Shaped, ShapedAt
<1> QED
  BY <1>1

\* The newest backup is still the newest where backups are left alone.
LEMMA LatestKept ==
  ASSUME NEW f, backups'[f] = backups[f]
  PROVE  \A v : Latest(f, v)' <=> Latest(f, v)
BY DEF Latest, Newest

\* So is what is safe, if no backup is read.
LEMMA SafeKept ==
  ASSUME NEW f, backups'[f] = backups[f], raced[f] \subseteq raced'[f]
  PROVE  \A v : Safe(f, v) => Safe(f, v)'
BY LatestKept DEF Safe

\* The next call of a process, after one that it has made.
LEMMA NextHead ==
  ASSUME TypeOK, NEW p \in Procs, ShapedAt(p), Running(p), NEW op \in Ops, NEW f \in Files,
         Head(plan[p]) = Call(op, f), plan'[p] = Tail(plan[p]), Running(p)', NEW g \in Files
  PROVE  /\ Head(plan'[p]) = Call("open", g) => op = "snap" /\ g = f
         /\ Head(plan'[p]) = Call("fill", g) => op = "open" /\ g = f
         /\ Head(plan'[p]) = Call("write", g) => op = "trunc" /\ g = f
         /\ Head(plan'[p]) \notin {Call("await", g), Call("load", g)}
<1> DEFINE s == plan[p]
           t == plan'[p]
<1>1. s \in Seq(Calls) /\ s # <<>> /\ t = Tail(s) /\ t # <<>> /\ Ordered(s)
  BY DEF TypeOK, ShapedAt, Running
<1>2. s[1] = Call(op, f) /\ t \in Seq(Calls) /\ Head(t) = t[1]
  BY <1>1, TailOf
<1> HIDE DEF s, t
<1>3. /\ t[1] = Call("open", g) => op = "snap" /\ g = f
      /\ t[1] = Call("fill", g) => op = "open" /\ g = f
      /\ t[1] = Call("write", g) => op = "trunc" /\ g = f
      /\ t[1] \notin {Call("await", g), Call("load", g)}
  BY <1>1, <1>2, OrderedHead, CallsDiffer
<1> QED
  BY <1>2, <1>3 DEF s, t

\* What it has still to do.
LEMMA NextCall ==
  ASSUME TypeOK, NEW p \in Procs, ShapedAt(p), Running(p), NEW op \in Ops, NEW f \in Files,
         Head(plan[p]) = Call(op, f), plan'[p] = Tail(plan[p]), Running(p)'
  PROVE  /\ \A o \in Ops, g \in Files :
              /\ Has(plan'[p], o, g) => Has(plan[p], o, g)
              /\ Has(plan[p], o, g) => Has(plan'[p], o, g) \/ (o = op /\ g = f)
         /\ Has(plan[p], op, f)
         /\ op \in {"snap", "open"} => Has(plan'[p], "fill", f)
         /\ op = "trunc" => \A o \in Ops : Has(plan'[p], o, f) => o = "write"
         /\ op = "write" => \A o \in Ops : ~Has(plan'[p], o, f)
<1> DEFINE s == plan[p]
           t == plan'[p]
<1>1. s \in Seq(Calls) /\ s # <<>> /\ t = Tail(s) /\ t # <<>> /\ Ordered(s)
  BY DEF TypeOK, ShapedAt, Running
<1>2. s[1] = Call(op, f) /\ t \in Seq(Calls) /\ Head(t) = t[1]
  BY <1>1, TailOf
<1> HIDE DEF s, t
<1>4. \A o \in Ops, g \in Files :
        /\ Has(t, o, g) => Has(s, o, g)
        /\ Has(s, o, g) => Has(t, o, g) \/ (o = op /\ g = f)
  BY <1>1, <1>2, HasTail, CallsDiffer
<1>5. Has(s, op, f)
  BY <1>1, <1>2, HasTail
<1>6. op \in {"snap", "open"} => Has(t, "fill", f)
  BY <1>1, <1>2, <1>4, OrderedAfter DEF Ops
<1>7. op = "trunc" => \A o \in Ops : Has(t, o, f) => o = "write"
  BY <1>1, <1>2, OrderedAfter
<1>8. op = "write" => \A o \in Ops : ~Has(t, o, f)
  BY <1>1, <1>2, OrderedAfter
<1> QED
  BY <1>4, <1>5, <1>6, <1>7, <1>8 DEF s, t

\* pin, after a call.
LEMMA PinAfter ==
  ASSUME TypeOK, NEW p \in Procs, ShapedAt(p), ShapedAt(p)', Running(p), kind[p] = "pin",
         Running(p)', kind'[p] = "pin", base'[p] = base[p], fresh'[p] = fresh[p], ver' = ver,
         Pinning(p), NEW op \in {"await", "snap", "open", "fill", "trunc", "write"}, NEW f \in Files,
         Head(plan[p]) = Call(op, f), plan'[p] = Tail(plan[p]),
         \A g \in Files : g # f \/ op \notin {"open", "fill"} => backups'[g] = backups[g],
         op \notin {"trunc", "write"} => file' = file,
         op = "snap" => buf'[p] = file[f],
         op = "open" => buf'[p] = buf[p],
         op = "fill" => Latest(f, buf[p])' /\ buf'[p] = buf[p]
  PROVE  Pinning(p)'
<1> DEFINE s == plan[p]
           t == plan'[p]
<1>0. op \in Ops
  BY DEF Ops
<1>1. s \in Seq(Calls) /\ s # <<>> /\ Pins(s) /\ t = Tail(s) /\ t # <<>>
  BY DEF TypeOK, ShapedAt, Running
<1>2. Len(s) \in Nat \ {0} /\ Len(t) = Len(s) - 1 /\ s[1] = Call(op, f) /\ 1 \in DOMAIN s
  BY <1>1, TailOf
<1>3. op \in {"trunc", "write"} <=> Len(s) - 1 < 4
  <2> HIDE DEF s, t
  <2> QED
    BY <1>1, <1>2, CallsDiffer DEF Pins
<1>4. \A g \in Files : \A v : AsRead(p, g, v)' <=> AsRead(p, g, v)
  BY DEF AsRead
<1>5. ASSUME Len(t) >= 4, NEW g \in Files PROVE AsRead(p, g, file[g])'
  <2>1. Len(s) >= 4 /\ op \notin {"trunc", "write"}
    <3> HIDE DEF s, t
    <3> QED
      BY <1>2, <1>3, <1>5
  <2>2. AsRead(p, g, file[g]) /\ file' = file
    BY <2>1 DEF Pinning
  <2> QED
    BY <1>4, <2>2
<1>6. ASSUME NEW g \in Files, Head(t) \in {Call("open", g), Call("fill", g)}
      PROVE  AsRead(p, g, buf[p])'
  <2>1. g = f /\ op \in {"snap", "open"}
    <3>1. /\ Head(plan'[p]) = Call("open", g) => op = "snap" /\ g = f
          /\ Head(plan'[p]) = Call("fill", g) => op = "open" /\ g = f
      BY <1>0, NextHead
    <3> QED
      BY <1>6, <3>1
  <2>2. CASE op = "snap"
    <3>1. Len(s) >= 4
      <4> HIDE DEF s, t
      <4> QED
        BY <1>2, <1>3, <2>2
    <3>2. AsRead(p, g, file[f]) /\ buf'[p] = file[f]
      BY <2>1, <2>2, <3>1 DEF Pinning
    <3> QED
      BY <1>4, <3>2
  <2>3. CASE op = "open"
    <3>1. AsRead(p, g, buf[p]) /\ buf'[p] = buf[p]
      BY <2>1, <2>3 DEF Pinning
    <3> QED
      BY <1>4, <3>1
  <2> QED
    BY <2>1, <2>2, <2>3
<1>7. ASSUME NEW g \in Files, ~Has(t, "fill", g)
      PROVE  \E v \in Nat : AsRead(p, g, v)' /\ Latest(g, v)'
  <2>1. CASE op = "fill" /\ g = f
    <3>1. AsRead(p, f, buf[p]) /\ buf[p] \in Nat
      BY <2>1 DEF Pinning, TypeOK
    <3>2. Latest(f, buf[p])'
      BY <2>1
    <3>3. PICK v \in Nat : v = buf[p] /\ v = buf'[p]
      BY <2>1, <3>1
    <3> QED
      BY <1>4, <2>1, <3>1, <3>2, <3>3
  <2>2. CASE ~(op = "fill" /\ g = f)
    <3>1. ~Has(s, "fill", g)
      <4>1. "fill" \in Ops
        BY DEF Ops
      <4> QED
        BY <1>0, <1>7, <2>2, <4>1, NextCall
    <3>2. g # f \/ op # "open"
      <4>1. op = "open" => Has(plan'[p], "fill", f)
        BY <1>0, NextCall
      <4> QED
        BY <1>7, <4>1
    <3>3. backups'[g] = backups[g]
      BY <2>2, <3>2
    <3>4. PICK v \in Nat : AsRead(p, g, v) /\ Latest(g, v)
      BY <3>1 DEF Pinning
    <3> QED
      BY <1>4, <3>3, <3>4, LatestKept
  <2> QED
    BY <2>1, <2>2
<1> QED
  BY <1>5, <1>6, <1>7 DEF Pinning

\* A writer starts with whole files; pin remembers them.
LEMMA WriterOrderly ==
  ASSUME IInv, NEW p \in setting.procs, NEW c, StartWriter(p, c), Shaped'
  PROVE  OrderlyInv'
<1>1. TypeOK /\ Shaped /\ p \in Procs /\ OrderlyInv /\ c \in Writers
  BY Member DEF IInv, GeneralInv, StartWriter
<1>2. /\ plan'[p] = Plan[c] /\ kind'[p] = c /\ base'[p] = file /\ fresh'[p] = ver'
      /\ ver' \in Nat
      /\ UNCHANGED <<setting, file, due, raced, backups>>
      /\ \A f \in Touched(c) : file[f] # Torn
  BY <1>1 DEF TypeOK, StartWriter
<1> SUFFICES ASSUME Orderly PROVE AtWork(p)' /\ TornSaved'
  BY <1>1, <1>2, OrderlyStep
<1>3. TornSaved'
  BY <1>1, <1>2 DEF OrderlyInv, TornSaved, Safe, Latest, Newest
<1> DEFINE s == Plan[c]
<1>4. NewPlan(s) /\ s \in Seq(Calls) /\ s # <<>>
  BY <1>1, NewPlans DEF NewPlan
<1>5. \A f \in Files, op \in Ops : Head(s) = Call(op, f) => op \in {"snap", "await"}
  BY <1>4, TailOf, CallsDiffer DEF NewPlan
<1>6. \A f \in Files, op \in Ops : Has(s, op, f) => file[f] # Torn
  BY <1>1, <1>2, TouchedFiles
<1>7. \A f \in Files : Has(s, "trunc", f) => Has(s, "fill", f)
  BY <1>4 DEF NewPlan
<1>8. c = "pin" => Len(s) = 10
  BY Plans
<1> HIDE DEF s
<1>9. Saving(p)'
  <2>1. \A f \in Files, op \in {"snap", "open", "fill", "trunc"} : Has(s, op, f) => file[f] # Torn
    BY <1>6 DEF Ops
  <2>2. \A f \in Files : Head(s) \notin {Call("open", f), Call("fill", f), Call("write", f)}
    BY <1>5, CallsDiffer DEF Ops
  <2> QED
    BY <1>2, <1>7, <2>1, <2>2 DEF Saving, s
<1>10. ASSUME c = "pin" PROVE Pinning(p)'
  <2>1. Len(plan'[p]) = 10
    BY <1>2, <1>8, <1>10 DEF s
  <2>2. \A f \in Files : AsRead(p, f, file[f])'
    BY <1>2 DEF AsRead
  <2>3. \A f \in Files : Has(s, "fill", f)
    <3>1. Pins(Plan["pin"]) /\ Len(Plan["pin"]) = 10
      BY PinPlanned, Plans
    <3>2. \A f \in Files : Has(Plan["pin"], "trunc", f)
      BY <3>1 DEF Pins
    <3> QED
      BY <1>7, <1>10, <3>2 DEF s
  <2>4. \A f \in Files : Head(s) \notin {Call("open", f), Call("fill", f)}
    BY <1>5, CallsDiffer DEF Ops
  <2>5. fresh'[p] <= ver'
    BY <1>2
  <2> QED
    BY <1>2, <2>2, <2>3, <2>4, <2>5 DEF Pinning, s
<1>11. c \notin {"restore", "clean-backups"}
  BY <1>1, Plans
<1> QED
  BY <1>2, <1>3, <1>9, <1>10, <1>11 DEF AtWork

\* restore names the newest backup.
LEMMA RestoreOrderly ==
  ASSUME IInv, NEW p \in setting.procs, NEW f \in Files, StartRestore(p, f), Shaped'
  PROVE  OrderlyInv'
<1>1. TypeOK /\ Dated /\ Shaped /\ p \in Procs /\ OrderlyInv /\ backups[f] # {}
  BY Member DEF IInv, GeneralInv, StartRestore
<1>2. /\ plan'[p] = <<Call("load", f), Call("trunc", f), Call("write", f)>> /\ kind'[p] = "restore"
      /\ names'[p] = <<Name(Head(ListBackups(f)))>>
      /\ UNCHANGED <<setting, file, due, raced, backups, buf>>
  BY <1>1, RestoreStarts DEF TypeOK, StartRestore
<1> SUFFICES ASSUME Orderly PROVE AtWork(p)' /\ TornSaved'
  BY <1>1, <1>2, OrderlyStep
<1>3. TornSaved'
  BY <1>1, <1>2 DEF OrderlyInv, TornSaved, Safe, Latest, Newest
<1>4. Head(plan'[p]) = Call("load", f)
  BY <1>2
<1>5. Restoring(p)'
  <2>1. Head(ListBackups(f)) \in backups[f] /\ Newest(f, Head(ListBackups(f)))
    BY <1>1, Sole, HeadIsNewest
  <2>6. PICK b : b = Head(ListBackups(f))
    OBVIOUS
  <2>2. b \in backups'[f] /\ names'[p] = <<Name(b)>> /\ \A c \in backups'[f] : c = b \/ c.at < b.at
    BY <1>2, <2>1, <2>6 DEF Newest
  <2>3. Name(b)' = Name(b)
    BY <1>2, NamesKept
  <2>4. \E e \in backups'[f] : names'[p] = <<Name(e)' >> /\ Newest(f, e)'
    BY <2>2, <2>3 DEF Newest
  <2>5. \A g \in Files : /\ Head(plan'[p]) = Call("load", g) => g = f
                         /\ Head(plan'[p]) \notin {Call("trunc", g), Call("write", g)}
    BY <1>4, CallsDiffer
  <2> QED
    BY <2>4, <2>5 DEF Restoring
<1>6. "restore" \notin Writers
  BY Plans
<1> QED
  BY <1>2, <1>3, <1>5, <1>6 DEF AtWork

\* clean-backups spares the newest.
LEMMA CleanOrderly ==
  ASSUME IInv, NEW p \in setting.procs, NEW f \in Files, StartClean(p, f), Shaped'
  PROVE  OrderlyInv'
<1>1. TypeOK /\ Dated /\ Shaped /\ p \in Procs /\ OrderlyInv /\ Cardinality(backups[f]) > Keep
  BY Member DEF IInv, GeneralInv, StartClean
<1>2. /\ plan'[p] = [i \in DOMAIN Doomed(f) |-> Call("unlink", f)] /\ kind'[p] = "clean-backups"
      /\ names'[p] = [i \in DOMAIN Doomed(f) |-> Name(Doomed(f)[i])]
      /\ UNCHANGED <<setting, file, due, raced, backups>>
  BY <1>1 DEF TypeOK, StartClean
<1> SUFFICES ASSUME Orderly PROVE AtWork(p)' /\ TornSaved'
  BY <1>1, <1>2, OrderlyStep
<1>3. TornSaved'
  BY <1>1, <1>2 DEF OrderlyInv, TornSaved, Safe, Latest, Newest
<1>4. \A g \in Files : Head(plan'[p]) = Call("unlink", g) => g = f
  <2>1. /\ plan'[p] \in Seq(Calls) /\ plan'[p] # <<>>
        /\ \A i \in DOMAIN plan'[p] : plan'[p][i] = Call("unlink", f)
    BY <1>1, <1>2, CleanStarts
  <2>2. Head(plan'[p]) = plan'[p][1] /\ 1 \in DOMAIN plan'[p]
    BY <2>1, TailOf
  <2> QED
    BY <2>1, <2>2, CallsDiffer
<1>5. ASSUME NEW b \in backups[f], Name(b) \in Due(p)'
      PROVE  Cardinality({c \in backups[f] : Name(c) \notin Due(p)' /\ c.at > b.at}) >= Keep
  <2> DEFINE L == ListBackups(f)
             T == {c \in backups[f] : Name(c) \notin Due(p)' /\ c.at > b.at}
  <2>1. /\ Keep \in Nat
        /\ \A i \in 1..Keep : L[i] \in backups[f] /\ Name(L[i]) \notin Due(p)'
        /\ \A i, j \in 1..Keep : L[i] = L[j] => i = j
        /\ \A i \in 1..Keep : ListedBefore(L[i], b)
    BY <1>1, <1>2, <1>5, FirstSpared
  <2>2. \A i \in 1..Keep : L[i].at > b.at
    BY <1>1, <2>1, Sole, FineListing
  <2> HIDE DEF L
  <2> DEFINE m == [i \in 1..Keep |-> L[i]]
  <2>3. m \in [1..Keep -> T] /\ \A i, j \in 1..Keep : m[i] = m[j] => i = j
    BY <2>1, <2>2
  <2>4. IsFiniteSet(T)
    BY <1>1, FS_Subset DEF TypeOK
  <2> HIDE DEF m, T
  <2>5. Cardinality(T) >= Keep
    BY <2>1, <2>3, <2>4, NumberedSize
  <2> QED
    BY <2>5 DEF T
<1>6. Tidying(p)'
  <2>1. \A c : Name(c)' = Name(c)
    BY <1>2, NamesKept
  <2>2. ASSUME NEW b \in backups'[f], Name(b)' \in Due(p)'
        PROVE  Cardinality({c \in backups[f] : Name(c) \notin Due(p) /\ c.at > b.at})' >= Keep
    <3>1. {c \in backups[f] : Name(c) \notin Due(p) /\ c.at > b.at}'
            = {c \in backups[f] : Name(c) \notin Due(p)' /\ c.at > b.at}
      BY <1>2, <2>1
    <3>2. b \in backups[f] /\ Name(b) \in Due(p)'
      BY <1>2, <2>1, <2>2
    <3> QED
      BY <1>5, <3>1, <3>2
  <2> QED
    BY <1>4, <2>2 DEF Tidying
<1>7. "clean-backups" \notin Writers
  BY Plans
<1> QED
  BY <1>2, <1>3, <1>6, <1>7 DEF AtWork

\* A crash leaves nothing at work.
LEMMA CrashOrderly ==
  ASSUME IInv, NEW p \in setting.procs, Crash(p), Shaped'
  PROVE  OrderlyInv'
<1>1. TypeOK /\ p \in Procs /\ OrderlyInv
  BY Member DEF IInv, GeneralInv
<1>2. ~Running(p)' /\ UNCHANGED <<setting, file, due, raced, backups>>
  BY <1>1 DEF TypeOK, Crash, Running
<1>3. Orderly => TornSaved'
  BY <1>1, <1>2 DEF OrderlyInv, TornSaved, Safe, Latest, Newest
<1> QED
  BY <1>1, <1>2, <1>3, OrderlyStep DEF AtWork

\* What a call starts from.
LEMMA CallOrderly ==
  ASSUME IInv, NEW p \in setting.procs, NEW op \in Ops, NEW f \in Files, Next1(p, op, f)
  PROVE  /\ TypeOK /\ Dated /\ ShapedAt(p) /\ p \in Procs /\ Running(p) /\ kind[p] \in Kinds
         /\ Head(plan[p]) = Call(op, f) /\ plan'[p] = Tail(plan[p])
         /\ UNCHANGED <<setting, ver, kind, base, fresh>>
         /\ op = "unlink" <=> kind[p] = "clean-backups"
         /\ op \in {"await", "snap", "open", "fill"} => kind[p] \in Writers
         /\ op \in {"trunc", "write"} => kind[p] \in Writers \cup {"restore"}
         /\ kind[p] \in Writers => kind[p] \notin {"restore", "clean-backups"}
         /\ Orderly => AtWork(p) /\ TornSaved
<1>1. TypeOK /\ Dated /\ Shaped /\ p \in Procs /\ Running(p) /\ OrderlyInv
  BY Member DEF IInv, GeneralInv, Next1
<1>2. plan[p][1] = Call(op, f) /\ Head(plan[p]) = Call(op, f) /\ plan'[p] = Tail(plan[p])
      /\ UNCHANGED <<setting, ver, kind, base, fresh>>
  BY <1>1, CallMade DEF Next1, TypeOK
<1>3. ShapedAt(p)
  BY <1>1 DEF Shaped
<1>4. /\ op = "unlink" <=> kind[p] = "clean-backups"
      /\ op \in {"await", "snap", "open", "fill"} => kind[p] \in Writers
      /\ op \in {"trunc", "write"} => kind[p] \in Writers \cup {"restore"}
  BY <1>1, <1>2, <1>3, WhoseCall
<1>5. kind[p] \in Kinds /\ (kind[p] \in Writers => kind[p] \notin {"restore", "clean-backups"})
  BY <1>1, Plans DEF TypeOK
<1> QED
  BY <1>1, <1>2, <1>3, <1>4, <1>5 DEF OrderlyInv

\* A writer's step is seen to once it is at work and the torn files are saved.
LEMMA WriterStep ==
  ASSUME IInv, NEW p \in setting.procs, NEW op \in Ops, NEW f \in Files, Next1(p, op, f), Shaped',
         kind[p] \in Writers, op \notin {"load", "unlink"},
         \A g \in Files : g # f \/ op \notin {"open", "fill"} => backups'[g] = backups[g],
         op \notin {"trunc", "write"} => file' = file,
         op = "snap" => buf'[p] = file[f],
         op = "open" => buf'[p] = buf[p],
         op = "fill" /\ Orderly => Latest(f, buf[p])' /\ buf'[p] = buf[p],
         Orderly => (Running(p)' => Saving(p)') /\ TornSaved'
  PROVE  OrderlyInv'
<1>1. /\ TypeOK /\ ShapedAt(p) /\ p \in Procs /\ Running(p)
      /\ Head(plan[p]) = Call(op, f) /\ plan'[p] = Tail(plan[p])
      /\ UNCHANGED <<setting, ver, kind, base, fresh>>
      /\ kind[p] \notin {"restore", "clean-backups"}
      /\ Orderly => AtWork(p)
  BY CallOrderly
<1> SUFFICES ASSUME Orderly, Running(p)', kind[p] = "pin" PROVE Pinning(p)'
  BY <1>1, OrderlyStep DEF AtWork
<1>2. ShapedAt(p)' /\ Pinning(p) /\ op \in {"await", "snap", "open", "fill", "trunc", "write"}
  BY <1>1 DEF Shaped, AtWork, Ops
<1> QED
  BY <1>1, <1>2, PinAfter

\* A writer at work on a backup, whose files stay as they are, still is.
LEMMA SavingAfter ==
  ASSUME TypeOK, NEW p \in Procs, ShapedAt(p), Running(p), Saving(p),
         NEW op \in {"await", "snap", "open", "fill"}, NEW f \in Files,
         Head(plan[p]) = Call(op, f), plan'[p] = Tail(plan[p]), Running(p)', file' = file,
         \A g \in Files : g # f \/ op \in {"await", "snap"} => backups'[g] = backups[g],
         \A g \in Files : g # f \/ op # "snap" => raced'[g] = raced[g],
         op = "snap" => buf'[p] = file[f],
         op = "open" => buf'[p] = buf[p] /\ \E b \in backups'[f] : b.born = slot'[p],
         op = "fill" => Latest(f, buf[p])' /\ buf'[p] = buf[p]
  PROVE  Saving(p)'
<1>0. op \in Ops /\ op # "trunc"
  BY DEF Ops
<1>1. /\ \A g \in Files :
           /\ Head(plan'[p]) = Call("open", g) => op = "snap" /\ g = f
           /\ Head(plan'[p]) = Call("fill", g) => op = "open" /\ g = f
           /\ Head(plan'[p]) # Call("write", g)
      /\ \A o \in Ops, g \in Files :
           /\ Has(plan'[p], o, g) => Has(plan[p], o, g)
           /\ Has(plan[p], o, g) => Has(plan'[p], o, g) \/ (o = op /\ g = f)
      /\ op \in {"snap", "open"} => Has(plan'[p], "fill", f)
  <2>1. \A o \in Ops, g \in Files : Has(plan'[p], o, g) => Has(plan[p], o, g)
    BY <1>0, NextCall
  <2>4. ASSUME NEW g \in Files
        PROVE  /\ Head(plan'[p]) = Call("open", g) => op = "snap" /\ g = f
               /\ Head(plan'[p]) = Call("fill", g) => op = "open" /\ g = f
               /\ Head(plan'[p]) = Call("write", g) => op = "trunc" /\ g = f
    BY <1>0, NextHead
  <2>2. \A o \in Ops, g \in Files : Has(plan[p], o, g) => Has(plan'[p], o, g) \/ (o = op /\ g = f)
    BY <1>0, NextCall
  <2>3. op \in {"snap", "open"} => Has(plan'[p], "fill", f)
    BY <1>0, NextCall
  <2> QED
    BY <1>0, <2>1, <2>2, <2>3, <2>4
<1>2. \A g \in Files, o \in {"snap", "open", "fill", "trunc"} : Has(plan'[p], o, g) => file'[g] # Torn
  BY <1>1 DEF Saving, Ops
<1>3. ASSUME NEW g \in Files, Head(plan'[p]) = Call("open", g)
      PROVE  buf'[p] = file'[g] \/ file'[g] \in raced'[g]
  BY <1>1, <1>3
<1>4. ASSUME NEW g \in Files, Head(plan'[p]) = Call("fill", g)
      PROVE  /\ buf'[p] = file'[g] \/ file'[g] \in raced'[g]
             /\ \E b \in backups'[g] : b.born = slot'[p]
  BY <1>1, <1>4 DEF Saving
<1>5. ASSUME NEW g \in Files, Has(plan'[p], "trunc", g), ~Has(plan'[p], "fill", g)
      PROVE  Safe(g, file[g])'
  <2>1. CASE op = "fill" /\ g = f
    <3>1. buf[p] = file[f] \/ file[f] \in raced[f]
      BY <2>1 DEF Saving
    <3> QED
      BY <2>1, <3>1 DEF Safe
  <2>2. CASE ~(op = "fill" /\ g = f)
    <3>1. Safe(g, file[g])
      BY <1>1, <1>5, <2>2 DEF Saving, Ops
    <3>2. backups'[g] = backups[g] /\ raced'[g] = raced[g]
      BY <1>1, <1>5, <2>2
    <3> QED
      BY <3>1, <3>2, SafeKept
  <2> QED
    BY <2>1, <2>2
<1> QED
  BY <1>1, <1>2, <1>3, <1>4, <1>5 DEF Saving

\* A call that works on a backup.
LEMMA BackingUp ==
  ASSUME IInv, NEW p \in setting.procs, NEW op \in {"await", "snap", "open", "fill"},
         NEW f \in Files, Next1(p, op, f), Shaped', UNCHANGED <<file, due>>,
         \A g \in Files : g # f \/ op \in {"await", "snap"} => backups'[g] = backups[g],
         \A g \in Files : g # f \/ op # "snap" => raced'[g] = raced[g],
         op = "snap" => buf'[p] = file[f],
         op = "open" => buf'[p] = buf[p] /\ \E b \in backups'[f] : b.born = slot'[p],
         op = "fill" /\ Orderly => Latest(f, buf[p])' /\ buf'[p] = buf[p]
  PROVE  OrderlyInv'
<1>0. op \in Ops /\ op \notin {"trunc", "write", "load", "unlink"}
  BY DEF Ops
<1>1. /\ TypeOK /\ ShapedAt(p) /\ p \in Procs /\ Running(p)
      /\ Head(plan[p]) = Call(op, f) /\ plan'[p] = Tail(plan[p])
      /\ kind[p] \in Writers /\ (Orderly => AtWork(p) /\ TornSaved)
  BY <1>0, CallOrderly
<1> SUFFICES ASSUME Orderly PROVE (Running(p)' => Saving(p)') /\ TornSaved'
  BY <1>0, <1>1, WriterStep
<1>2. Saving(p) /\ TornSaved
  BY <1>1 DEF AtWork
<1>3. ASSUME Running(p)' PROVE Saving(p)'
  BY <1>1, <1>2, <1>3, SavingAfter
<1>4. ASSUME NEW g \in Files, file'[g] = Torn PROVE Safe(g, due[g])'
  <2>1. Has(plan[p], op, f)
    BY <1>0, <1>1, HasTail, TailOf DEF TypeOK, Running
  <2>2. op # "await" => g # f
    BY <1>2, <1>4, <2>1 DEF Saving
  <2>3. backups'[g] = backups[g] /\ raced'[g] = raced[g] /\ Safe(g, due[g])
    BY <1>2, <1>4, <2>2 DEF TornSaved
  <2> QED
    BY <2>3, SafeKept
<1> QED
  BY <1>3, <1>4 DEF TornSaved

\* The calls of createBackup, and the wait for the network.
LEMMA AnsweredOrderly ==
  ASSUME IInv, NEW p \in setting.procs, NEW f \in Files, Shaped', Answered(p, f) \/ Snap(p, f)
  PROVE  OrderlyInv'
<1>1. TypeOK /\ p \in Procs
  BY Member DEF IInv, GeneralInv
<1>2. CASE Answered(p, f)
  BY <1>2, BackingUp DEF Answered
<1>3. CASE Snap(p, f)
  <2>1. /\ Next1(p, "snap", f) /\ UNCHANGED <<file, due, backups>> /\ buf'[p] = file[f]
        /\ \A g \in Files : g # f => raced'[g] = raced[g]
    BY <1>1, <1>3 DEF Snap, TypeOK
  <2> QED
    BY <2>1, BackingUp
<1> QED
  BY <1>2, <1>3

\* open: there is a backup to fill.
LEMMA OpenOrderly ==
  ASSUME IInv, NEW p \in setting.procs, NEW f \in Files, Shaped', OpenBackup(p, f)
  PROVE  OrderlyInv'
<1>1. TypeOK /\ p \in Procs
  BY Member DEF IInv, GeneralInv
<1>2. PICK new : Added(f, new)
  BY <1>1, Opened
<1>3. slot'[p] = now
  BY <1>1, Opened DEF TypeOK
<1>4. \E b \in backups'[f] : b.born = slot'[p]
  BY <1>2, <1>3 DEF Added
<1>5. Next1(p, "open", f) /\ UNCHANGED <<file, due, raced, buf>>
  BY DEF OpenBackup
<1>6. \A g \in Files : g # f => backups'[g] = backups[g]
  BY <1>2 DEF Added
<1> QED
  BY <1>4, <1>5, <1>6, BackingUp

\* fill: the backup that is filled becomes the newest, and holds what was read.
LEMMA FillOrderly ==
  ASSUME IInv, NEW p \in setting.procs, NEW f \in Files, Shaped', FillBackup(p, f)
  PROVE  OrderlyInv'
<1>1. TypeOK /\ Dated /\ p \in Procs
  BY Member DEF IInv, GeneralInv
<1>2. PICK h : Filled(p, f, h)
  BY <1>1, Written
<1>3. Next1(p, "fill", f) /\ UNCHANGED <<file, due, raced, buf>>
  BY DEF FillBackup
<1>4. \A g \in Files : g # f => backups'[g] = backups[g]
  BY <1>2 DEF Filled
<1>5. ASSUME Orderly PROVE Latest(f, buf[p])'
  <2>1. Saving(p) /\ Head(plan[p]) = Call("fill", f)
    BY <1>3, <1>5, CallOrderly DEF AtWork, Ops
  <2>2. PICK b \in backups[f] : b.born = slot[p]
    BY <2>1 DEF Saving
  <2>4. h[b] \in backups'[f] /\ h[b].at = now /\ h[b].body = buf'[p]
    BY <1>2, <1>3, <2>2 DEF Filled
  <2>5. ASSUME NEW c \in backups'[f] PROVE c = h[b] \/ c.at < h[b].at
    <3>1. PICK d \in backups[f] : c = h[d]
      BY <1>2 DEF Filled
    <3>2. d.born = b.born => d = b
      BY <1>1 DEF Dated
    <3>3. d.born # slot[p] => c = d
      BY <1>2, <3>1 DEF Filled
    <3>4. d.at < now
      BY <1>1 DEF Dated
    <3> QED
      BY <2>2, <2>4, <3>1, <3>2, <3>3, <3>4
  <2> QED
    BY <2>4, <2>5 DEF Latest, Newest
<1> QED
  BY <1>3, <1>4, <1>5, BackingUp

\* What is left of a restore that has begun to write.
LEMMA RestoreLeft ==
  ASSUME TypeOK, NEW p \in Procs, ShapedAt(p), Running(p), kind[p] = "restore",
         NEW op \in {"load", "trunc", "write"}, NEW f \in Files, Head(plan[p]) = Call(op, f)
  PROVE  /\ op = "load" => Tail(plan[p]) = <<Call("trunc", f), Call("write", f)>>
         /\ op = "trunc" => Tail(plan[p]) = <<Call("write", f)>>
         /\ op = "write" => Tail(plan[p]) = <<>>
<1>1. PICK g \in Files : plan[p] \in {<<Call("load", g), Call("trunc", g), Call("write", g)>>,
                                      <<Call("trunc", g), Call("write", g)>>, <<Call("write", g)>>}
  BY DEF ShapedAt, Restores
<1>2. CASE plan[p] = <<Call("load", g), Call("trunc", g), Call("write", g)>>
  <2>1. Head(plan[p]) = Call("load", g)
    BY <1>2
  <2> QED
    BY <1>2, <2>1, CallsDiffer, TwoTails
<1>3. CASE plan[p] = <<Call("trunc", g), Call("write", g)>>
  <2>1. Head(plan[p]) = Call("trunc", g)
    BY <1>3
  <2> QED
    BY <1>3, <2>1, CallsDiffer, TwoTails
<1>4. CASE plan[p] = <<Call("write", g)>>
  <2>1. Head(plan[p]) = Call("write", g)
    BY <1>4
  <2> QED
    BY <1>4, <2>1, CallsDiffer, TwoTails
<1> QED
  BY <1>1, <1>2, <1>3, <1>4

\* A writer at work on a file, whose backups stay as they are, still is.
LEMMA SavingWrites ==
  ASSUME TypeOK, NEW p \in Procs, ShapedAt(p), Running(p), Saving(p),
         NEW op \in {"trunc", "write"}, NEW f \in Files,
         Head(plan[p]) = Call(op, f), plan'[p] = Tail(plan[p]), Running(p)',
         \A g \in Files : backups'[g] = backups[g],
         UNCHANGED raced,
         \A g \in Files : g # f => file'[g] = file[g],
         op = "trunc" => file'[f] = Torn /\ Safe(f, due[f])'
  PROVE  Saving(p)'
<1>0. op \in Ops
  BY DEF Ops
<1>1. \A o \in Ops, g \in Files : Has(plan'[p], o, g) => Has(plan[p], o, g)
  BY <1>0, NextCall
<1>2. \A o \in Ops, g \in Files : Has(plan[p], o, g) => Has(plan'[p], o, g) \/ (o = op /\ g = f)
  BY <1>0, NextCall
<1>3. \A o \in Ops : Has(plan'[p], o, f) => o = "write"
  <2>1. op = "trunc" => \A o \in Ops : Has(plan'[p], o, f) => o = "write"
    BY <1>0, NextCall
  <2>2. op = "write" => \A o \in Ops : ~Has(plan'[p], o, f)
    BY <1>0, NextCall
  <2> QED
    BY <2>1, <2>2
<1>4. ASSUME NEW g \in Files
      PROVE  /\ Head(plan'[p]) = Call("open", g) => op = "snap" /\ g = f
             /\ Head(plan'[p]) = Call("fill", g) => op = "open" /\ g = f
             /\ Head(plan'[p]) = Call("write", g) => op = "trunc" /\ g = f
  BY <1>0, NextHead
<1>5. \A g \in Files, o \in {"snap", "open", "fill", "trunc"} :
        Has(plan'[p], o, g) => g # f /\ file'[g] # Torn
  BY <1>1, <1>3 DEF Saving, Ops
<1>6. ASSUME NEW g \in Files, Has(plan'[p], "trunc", g), ~Has(plan'[p], "fill", g)
      PROVE  Safe(g, file[g])'
  <2>1. Has(plan[p], "trunc", g) /\ g # f /\ file'[g] = file[g]
    BY <1>1, <1>5, <1>6 DEF Ops
  <2>2. ~Has(plan[p], "fill", g)
    BY <1>2, <1>6, <2>1 DEF Ops
  <2>3. Safe(g, file[g])
    BY <2>1, <2>2 DEF Saving
  <2> QED
    BY <2>1, <2>3, SafeKept
<1> QED
  BY <1>4, <1>5, <1>6 DEF Saving

\* trunc: what the file held, or is getting back, is in the newest backup.
LEMMA TruncateOrderly ==
  ASSUME IInv, NEW p \in setting.procs, NEW f \in Files, Shaped', Truncate(p, f)
  PROVE  OrderlyInv'
<1>0. "trunc" \in Ops /\ Next1(p, "trunc", f)
  BY DEF Ops, Truncate
<1>1. /\ TypeOK /\ ShapedAt(p) /\ p \in Procs /\ Running(p)
      /\ Head(plan[p]) = Call("trunc", f) /\ plan'[p] = Tail(plan[p])
      /\ UNCHANGED <<setting, kind, base>>
      /\ kind[p] \in Writers \cup {"restore"}
      /\ (kind[p] \in Writers => kind[p] # "restore")
      /\ (Orderly => AtWork(p) /\ TornSaved)
  BY <1>0, CallOrderly
<1>2. /\ UNCHANGED <<raced, backups, buf>>
      /\ file'[f] = Torn /\ \A g \in Files : g # f => file'[g] = file[g] /\ due'[g] = due[g]
      /\ due'[f] = IF kind[p] = "restore" THEN buf[p] ELSE file[f]
  BY <1>1 DEF Truncate, TypeOK
<1>3. \A g \in Files : backups'[g] = backups[g]
  BY <1>2
<1>4. ASSUME Orderly, \A v : v = due'[f] => Safe(f, v) PROVE TornSaved'
  <2> SUFFICES ASSUME NEW g \in Files, file'[g] = Torn PROVE Safe(g, due[g])'
    BY DEF TornSaved
  <2>1. Safe(g, due'[g])
    BY <1>1, <1>2, <1>4 DEF TornSaved
  <2> QED
    BY <1>2, <1>3, <2>1, SafeKept
<1>5. CASE kind[p] \in Writers
  <2> SUFFICES ASSUME Orderly PROVE (Running(p)' => Saving(p)') /\ TornSaved'
    BY <1>0, <1>3, <1>5, WriterStep
  <2>1. Saving(p) /\ TornSaved /\ due'[f] = file[f]
    BY <1>1, <1>2, <1>5 DEF AtWork
  <2>2. Has(plan[p], "trunc", f) /\ ~Has(plan[p], "fill", f)
    <3>1. plan[p] \in Seq(Calls) /\ plan[p] # <<>> /\ plan[p][1] = Call("trunc", f) /\ Ordered(plan[p])
      BY <1>1, TailOf DEF TypeOK, ShapedAt, Running
    <3>2. Has(plan[p], "trunc", f)
      BY <3>1, HasTail
    <3>3. ~Has(Tail(plan[p]), "fill", f)
      BY <3>1, OrderedAfter DEF Ops
    <3> QED
      BY <3>1, <3>2, <3>3, HasTail, CallsDiffer
  <2>3. Safe(f, file[f])
    BY <2>1, <2>2 DEF Saving
  <2>4. TornSaved'
    BY <1>4, <2>1, <2>3
  <2>5. ASSUME Running(p)' PROVE Saving(p)'
    <3>1. Safe(f, due[f])'
      BY <1>2, <2>4 DEF TornSaved
    <3> QED
      BY <1>1, <1>2, <1>3, <2>1, <2>5, <3>1, SavingWrites
  <2> QED
    BY <2>4, <2>5
<1>6. CASE kind[p] = "restore"
  <2> SUFFICES ASSUME Orderly PROVE AtWork(p)' /\ TornSaved'
    BY <1>1, OrderlyStep
  <2>1. Restoring(p) /\ TornSaved /\ due'[f] = buf[p] /\ buf'[p] = buf[p]
    BY <1>1, <1>2, <1>6 DEF AtWork
  <2>2. Latest(f, buf[p])
    BY <1>1, <2>1 DEF Restoring
  <2>3. TornSaved'
    BY <1>4, <2>1, <2>2 DEF Safe
  <2>4. Head(plan'[p]) = Call("write", f)
    <3>1. plan'[p] = <<Call("write", f)>>
      BY <1>1, <1>6, RestoreLeft
    <3> QED
      BY <3>1
  <2>5. Latest(f, buf[p])'
    BY <1>3, <2>1, <2>2, LatestKept
  <2>6. Restoring(p)'
    BY <1>2, <2>1, <2>4, <2>5, CallsDiffer DEF Restoring
  <2> QED
    BY <1>1, <1>6, <2>3, <2>6 DEF AtWork
<1> QED
  BY <1>1, <1>5, <1>6

\* write: what it may tear is safe.
LEMMA WriteOrderly ==
  ASSUME IInv, NEW p \in setting.procs, NEW f \in Files, Shaped', WriteFile(p, f)
  PROVE  OrderlyInv'
<1>0. "write" \in Ops /\ Next1(p, "write", f)
  BY DEF Ops, WriteFile
<1>1. /\ TypeOK /\ ShapedAt(p) /\ p \in Procs /\ Running(p)
      /\ Head(plan[p]) = Call("write", f) /\ plan'[p] = Tail(plan[p])
      /\ UNCHANGED <<setting, kind, base>>
      /\ kind[p] \in Writers \cup {"restore"}
      /\ (kind[p] \in Writers => kind[p] # "restore")
      /\ (Orderly => AtWork(p) /\ TornSaved)
  BY <1>0, CallOrderly
<1>2. /\ UNCHANGED <<raced, backups, buf, due>>
      /\ \A g \in Files : g # f => file'[g] = file[g]
  BY <1>1 DEF WriteFile, TypeOK
<1>3. \A g \in Files : backups'[g] = backups[g]
  BY <1>2
<1>4. ASSUME Orderly, Safe(f, due[f]) PROVE TornSaved'
  <2> SUFFICES ASSUME NEW g \in Files, file'[g] = Torn PROVE Safe(g, due[g])'
    BY DEF TornSaved
  <2>1. Safe(g, due[g])
    BY <1>1, <1>2, <1>4 DEF TornSaved
  <2> QED
    BY <1>2, <1>3, <2>1, SafeKept
<1>5. CASE kind[p] \in Writers
  <2> SUFFICES ASSUME Orderly PROVE (Running(p)' => Saving(p)') /\ TornSaved'
    BY <1>0, <1>3, <1>5, WriterStep
  <2>1. Saving(p) /\ TornSaved
    BY <1>1, <1>5 DEF AtWork
  <2>2. Safe(f, due[f])
    BY <1>1, <2>1 DEF Saving
  <2>3. TornSaved'
    BY <1>4, <2>2
  <2>4. ASSUME Running(p)' PROVE Saving(p)'
    BY <1>1, <1>2, <1>3, <2>1, <2>4, SavingWrites
  <2> QED
    BY <2>3, <2>4
<1>6. CASE kind[p] = "restore"
  <2> SUFFICES ASSUME Orderly PROVE AtWork(p)' /\ TornSaved'
    BY <1>1, OrderlyStep
  <2>1. Restoring(p)
    BY <1>1, <1>6 DEF AtWork
  <2>2. Safe(f, due[f])
    BY <1>1, <2>1 DEF Restoring, Safe
  <2>3. ~Running(p)'
    <3>1. plan'[p] = <<>>
      BY <1>1, <1>6, RestoreLeft
    <3> QED
      BY <3>1 DEF Running
  <2> QED
    BY <1>4, <2>2, <2>3 DEF AtWork
<1> QED
  BY <1>1, <1>5, <1>6

\* load: what restore reads is what the newest backup holds.
LEMMA LoadOrderly ==
  ASSUME IInv, NEW p \in setting.procs, NEW f \in Files, Shaped', LoadBackup(p, f)
  PROVE  OrderlyInv'
<1>1. TypeOK /\ Dated /\ Shaped /\ OrderlyInv /\ p \in Procs /\ Running(p) /\ Head(plan[p]) = Call("load", f)
  BY Member DEF IInv, GeneralInv, LoadBackup
<1>2. /\ \/ plan' = [plan EXCEPT ![p] = <<>>] /\ UNCHANGED buf
         \/ /\ plan' = [plan EXCEPT ![p] = Tail(plan[p])]
            /\ \E b \in backups[f] : /\ Name(b) = Head(names[p])
                                     /\ buf' = [buf EXCEPT ![p] = b.body]
      /\ UNCHANGED <<setting, file, due, raced, backups, kind>>
  BY Loaded
<1> SUFFICES ASSUME Orderly PROVE AtWork(p)' /\ TornSaved'
  BY <1>1, <1>2, OrderlyStep
<1>3. TornSaved'
  BY <1>1, <1>2 DEF OrderlyInv, TornSaved, Safe, Latest, Newest
<1>4. kind[p] = "restore" /\ ShapedAt(p)
  <2>1. plan[p][1] = Call("load", f)
    BY <1>1, TailOf DEF TypeOK, Running
  <2> QED
    BY <1>1, <2>1, WhoseCall DEF Shaped, Ops
<1> SUFFICES ASSUME Running(p)' PROVE Restoring(p)'
  BY <1>2, <1>3, <1>4, Plans DEF AtWork
<1>5. plan'[p] # <<>>
  BY DEF Running
<1>6. /\ plan'[p] = Tail(plan[p])
      /\ \E b \in backups[f] : Name(b) = Head(names[p]) /\ buf'[p] = b.body
  BY <1>1, <1>2, <1>5 DEF TypeOK
<1>7. Head(plan'[p]) = Call("trunc", f)
  <2>1. plan'[p] = <<Call("trunc", f), Call("write", f)>>
    BY <1>1, <1>4, <1>6, RestoreLeft
  <2> QED
    BY <2>1
<1>8. Latest(f, buf[p])'
  <2>1. PICK b \in backups[f] : names[p] = <<Name(b)>> /\ Newest(f, b)
    BY <1>1, <1>4 DEF OrderlyInv, AtWork, Restoring
  <2>2. PICK c \in backups[f] : Name(c) = Head(names[p]) /\ buf'[p] = c.body
    BY <1>6
  <2>3. Name(c) = Name(b)
    BY <2>1, <2>2
  <2>4. c = b
    BY <1>1, <2>3 DEF Dated
  <2>5. Latest(f, buf'[p])
    BY <2>1, <2>2, <2>4 DEF Latest
  <2> QED
    BY <1>2, <2>5, LatestKept
<1>9. \A g \in Files : /\ Head(plan'[p]) \notin {Call("load", g), Call("write", g)}
                       /\ Head(plan'[p]) = Call("trunc", g) => g = f
  BY <1>7, CallsDiffer
<1> QED
  BY <1>8, <1>9 DEF Restoring

\* unlink: Keep newer backups are still there, and so is the newest.
LEMMA UnlinkOrderly ==
  ASSUME IInv, NEW p \in setting.procs, NEW f \in Files, TypeOK', Shaped', Unlink(p, f)
  PROVE  OrderlyInv'
<1>1. /\ TypeOK /\ Dated /\ Shaped /\ OrderlyInv /\ p \in Procs
      /\ Running(p) /\ Head(plan[p]) = Call("unlink", f)
      /\ names[p] # <<>> /\ kind[p] = "clean-backups"
  BY Member, UnlinkShaped DEF IInv, GeneralInv, Unlink
<1>2. /\ backups'[f] = {b \in backups[f] : Name(b) # Head(names[p])}
      /\ \A g \in Files : g # f => backups'[g] = backups[g]
      /\ names'[p] = Tail(names[p]) /\ plan'[p] \in {<<>>, Tail(plan[p])}
      /\ UNCHANGED <<setting, file, due, raced, kind>>
  <2>1. /\ names' = [names EXCEPT ![p] = Tail(names[p])]
        /\ plan' = [plan EXCEPT ![p] = <<>>] \/ plan' = [plan EXCEPT ![p] = Tail(plan[p])]
        /\ UNCHANGED <<setting, file, due, raced, kind>>
    BY <1>1, Removed
  <2>2. /\ backups'[f] = {b \in backups[f] : Name(b) # Head(names[p])}
        /\ \A g \in Files : g # f => backups'[g] = backups[g]
    BY <1>1, Removed
  <2>3. names'[p] = Tail(names[p]) /\ plan'[p] \in {<<>>, Tail(plan[p])}
    BY <1>1, <2>1 DEF TypeOK
  <2> QED
    BY <2>1, <2>2, <2>3
<1>3. plan[p] \in Seq(Calls) /\ plan[p] # <<>> /\ plan[p][1] = Call("unlink", f) /\ Keep \in Nat \ {0}
  BY <1>1, TailOf, StoreAssumption DEF TypeOK, Running, StoreAssumption
<1> SUFFICES ASSUME Orderly PROVE AtWork(p)' /\ TornSaved'
  BY <1>1, <1>2, OrderlyStep
<1>4. Due(p)' \subseteq Due(p) /\ Head(names[p]) \in Due(p)
  BY <1>1, <1>2, DueAfter
<1>5. \A b \in backups[f] : Name(b) \in Due(p) =>
        Cardinality({c \in backups[f] : Name(c) \notin Due(p) /\ c.at > b.at}) >= Keep
  BY <1>1 DEF OrderlyInv, AtWork, Tidying
<1>6. ASSUME NEW b \in backups[f], Newest(f, b) PROVE Name(b) \notin Due(p)
  <2> SUFFICES ASSUME Name(b) \in Due(p) PROVE FALSE
    OBVIOUS
  <2> DEFINE T == {c \in backups[f] : Name(c) \notin Due(p) /\ c.at > b.at}
  <2>1. Cardinality(T) >= Keep
    BY <1>5
  <2>2. T = {}
    <3> SUFFICES ASSUME NEW c \in backups[f], c.at > b.at PROVE FALSE
      OBVIOUS
    <3>1. b.at \in Nat /\ c.at \in Nat
      BY <1>1, Clocked
    <3> QED
      BY <1>6, <3>1 DEF Newest
  <2> HIDE DEF T
  <2> QED
    BY <1>3, <2>1, <2>2, FS_EmptySet
<1>7. TornSaved'
  <2> SUFFICES ASSUME NEW g \in Files, file'[g] = Torn, due'[g] \notin raced'[g]
               PROVE  Latest(g, due[g])'
    BY DEF TornSaved, Safe
  <2>1. PICK b \in backups[g] : b.body = due'[g] /\ Newest(g, b)
    BY <1>1, <1>2 DEF OrderlyInv, TornSaved, Safe, Latest
  <2>2. b \in backups'[g]
    BY <1>2, <1>4, <1>6, <2>1
  <2>3. \A c \in backups'[g] : c = b \/ c.at < b.at
    BY <1>2, <2>1 DEF Newest
  <2> QED
    BY <2>1, <2>2, <2>3 DEF Latest, Newest
<1>8. ASSUME Running(p)' PROVE Tidying(p)'
  <2>1. \A g \in Files : Head(plan'[p]) = Call("unlink", g) => g = f
    <3>1. \A i \in DOMAIN plan[p] : plan[p][i] = Call("unlink", f)
      BY <1>1, <1>3, OneFile DEF Shaped
    <3>2. Tail(plan[p]) # <<>> /\ plan'[p] = Tail(plan[p])
      BY <1>2, <1>8 DEF Running
    <3>3. Tail(plan[p]) \in Seq(Calls)
      BY <1>3, TailOf
    <3>4. 1 \in DOMAIN Tail(plan[p]) /\ Tail(plan[p])[1] = Head(Tail(plan[p]))
      BY <3>2, <3>3, TailOf
    <3>5. plan[p][1 + 1] = Head(plan'[p]) /\ 1 + 1 \in DOMAIN plan[p]
      BY <1>3, <3>2, <3>4, TailOf
    <3> QED
      BY <3>1, <3>5, CallsDiffer
  <2>2. \A c : Name(c)' = Name(c)
    BY <1>2, NamesKept
  <2>3. ASSUME NEW b \in backups'[f], Name(b)' \in Due(p)'
        PROVE  Cardinality({c \in backups[f] : Name(c) \notin Due(p) /\ c.at > b.at})' >= Keep
    <3>1. b \in backups[f] /\ Name(b) \in Due(p)
      BY <1>2, <1>4, <2>2, <2>3
    <3> DEFINE S == {c \in backups[f] : Name(c) \notin Due(p) /\ c.at > b.at}
               T == {c \in backups'[f] : Name(c) \notin Due(p)' /\ c.at > b.at}
    <3>2. {c \in backups[f] : Name(c) \notin Due(p) /\ c.at > b.at}' = T
      BY <2>2
    <3>3. S \subseteq T
      BY <1>2, <1>4
    <3>4. IsFiniteSet(T)
      <4>1. IsFiniteSet(backups'[f])
        BY DEF TypeOK
      <4> QED
        BY <4>1, FS_Subset
    <3>5. Cardinality(S) >= Keep
      BY <1>5, <3>1
    <3> HIDE DEF S, T
    <3>6. Cardinality(S) <= Cardinality(T) /\ Cardinality(S) \in Nat /\ Cardinality(T) \in Nat
      BY <3>3, <3>4, FS_Subset, FS_CardinalityType
    <3>7. Cardinality(T) >= Keep
      BY <1>3, <3>5, <3>6
    <3> QED
      BY <3>2, <3>7
  <2> QED
    BY <2>1, <2>3 DEF Tidying
<1> QED
  BY <1>1, <1>2, <1>7, <1>8, Plans DEF AtWork

\* An edit of a file leaves no file torn; a command that is waiting has the file's
\* backup still before it, and at any other call the edit is raced.
LEMMA EditOrderly ==
  ASSUME IInv, NEW f \in Files, Edit(f)
  PROVE  OrderlyInv'
<1>1. TypeOK /\ Shaped /\ OrderlyInv
  BY DEF IInv, GeneralInv
<1>2. /\ UNCHANGED <<setting, due, backups, now, plan, kind, base, fresh, buf, slot, names>>
      /\ file'[f] # Torn /\ \A g \in Files : g # f => file'[g] = file[g]
      /\ ver' = ver + 1 /\ file'[f] = ver + 1 /\ ver \in Nat
  BY <1>1 DEF Edit, procVars, TypeOK, Torn
<1>3. /\ InCalls => file'[f] \in raced'[f]
      /\ \A g \in Files : raced[g] \subseteq raced'[g]
  BY <1>1, <1>2 DEF Edit, TypeOK
<1> SUFFICES ASSUME Orderly PROVE (\A p \in Procs : AtWork(p)') /\ TornSaved'
  BY <1>2 DEF OrderlyInv, Orderly
<1>4. \A g \in Files : \A v : Safe(g, v) => Safe(g, v)'
  BY <1>2, <1>3, SafeKept
<1>5. TornSaved'
  <2> SUFFICES ASSUME NEW g \in Files, file'[g] = Torn PROVE Safe(g, due[g])'
    BY DEF TornSaved
  <2>1. Safe(g, due'[g])
    BY <1>1, <1>2 DEF OrderlyInv, TornSaved
  <2> QED
    BY <1>4, <2>1
<1>6. ASSUME NEW p \in Procs, Running(p), kind[p] \in Writers PROVE Saving(p)'
  <2>1. Saving(p)
    BY <1>1, <1>6 DEF OrderlyInv, AtWork
  <2>2. \A g \in Files, op \in {"snap", "open", "fill", "trunc"} : Has(plan[p], op, g) => file'[g] # Torn
    BY <1>2, <2>1 DEF Saving
  <2>3. CASE InCalls
    <3>1. \A g \in Files : file'[g] = file[g] \/ file'[g] \in raced'[g]
      BY <1>2, <1>3, <2>3
    <3>2. ASSUME NEW g \in Files, Head(plan[p]) \in {Call("open", g), Call("fill", g)}
          PROVE  buf[p] = file'[g] \/ file'[g] \in raced'[g]
      BY <1>3, <2>1, <3>1, <3>2 DEF Saving
    <3>3. ASSUME NEW g \in Files, Has(plan[p], "trunc", g), ~Has(plan[p], "fill", g)
          PROVE  Safe(g, file[g])'
      <4>1. Safe(g, file[g])
        BY <2>1, <3>3 DEF Saving
      <4>2. CASE file'[g] = file[g]
        BY <1>4, <4>1, <4>2
      <4>3. CASE file'[g] \in raced'[g]
        BY <4>3 DEF Safe
      <4> QED
        BY <3>1, <4>2, <4>3
    <3>4. ASSUME NEW g \in Files, Head(plan[p]) = Call("write", g)
          PROVE  (file'[g] = Torn \/ file'[g] \in raced'[g]) /\ Safe(g, due[g])'
      <4>1. (file[g] = Torn \/ file[g] \in raced[g]) /\ Safe(g, due'[g])
        BY <1>2, <2>1, <3>4 DEF Saving
      <4> QED
        BY <1>3, <1>4, <3>1, <4>1
    <3>5. ASSUME NEW g \in Files, Head(plan[p]) = Call("fill", g)
          PROVE  \E b \in backups'[g] : b.born = slot'[p]
      BY <1>2, <2>1, <3>5 DEF Saving
    <3> QED
      BY <1>2, <2>2, <3>2, <3>3, <3>4, <3>5 DEF Saving
  <2>4. CASE ~InCalls
    <3>1. PICK h \in Files : Head(plan[p]) = Call("await", h)
      <4>1. Head(plan[p]) \in Calls
        BY <1>1, <1>6, TailOf DEF TypeOK, Running
      <4>2. PICK op \in Ops, h \in Files : Head(plan[p]) = Call(op, h)
        BY <4>1, CallsDiffer
      <4>3. Call(op, h).op = op
        BY DEF Call
      <4>4. op = "await"
        BY <1>6, <2>4, <4>2, <4>3 DEF InCalls
      <4> QED
        BY <4>2, <4>4
    <3>2. ShapedAt(p) /\ plan[p][1] = Call("await", h)
      BY <1>1, <1>6, <3>1, TailOf DEF Shaped, TypeOK, Running
    <3>3. \A g \in Files : Has(plan[p], "trunc", g) => Has(plan[p], "fill", g)
      BY <1>6, <3>2 DEF ShapedAt, Writes
    <3>4. \A g \in Files : Head(plan[p]) \notin {Call("open", g), Call("fill", g), Call("write", g)}
      BY <3>1, CallsDiffer
    <3> QED
      BY <1>2, <2>2, <3>3, <3>4 DEF Saving
  <2> QED
    BY <2>3, <2>4
<1>7. ASSUME NEW p \in Procs, Running(p), kind[p] = "pin" PROVE Pinning(p)'
  <2>1. Pinning(p) /\ fresh[p] \in Nat
    BY <1>1, <1>7 DEF OrderlyInv, AtWork, TypeOK
  <2>2. \A g \in Files : \A v : AsRead(p, g, v)' <=> AsRead(p, g, v)
    BY <1>2 DEF AsRead
  <2>3. fresh'[p] <= ver' /\ file'[f] > fresh[p]
    BY <1>2, <2>1 DEF Pinning
  <2>4. ASSUME Len(plan[p]) >= 4, NEW g \in Files PROVE AsRead(p, g, file[g])'
    <3>1. AsRead(p, g, file[g])
      BY <2>1, <2>4 DEF Pinning
    <3>2. AsRead(p, g, file'[g])
      <4>1. CASE g = f
        BY <2>3, <4>1 DEF AsRead
      <4>2. CASE g # f
        BY <1>2, <3>1, <4>2
      <4> QED
        BY <4>1, <4>2
    <3> QED
      BY <2>2, <3>2
  <2>5. ASSUME NEW g \in Files, Head(plan[p]) \in {Call("open", g), Call("fill", g)}
        PROVE  AsRead(p, g, buf[p])'
    <3>1. AsRead(p, g, buf'[p])
      BY <1>2, <2>1, <2>5 DEF Pinning
    <3> QED
      BY <2>2, <3>1
  <2>6. ASSUME NEW g \in Files, ~Has(plan[p], "fill", g)
        PROVE  \E v \in Nat : AsRead(p, g, v)' /\ Latest(g, v)'
    BY <1>2, <2>1, <2>2, <2>6, LatestKept DEF Pinning
  <2> QED
    BY <1>2, <2>3, <2>4, <2>5, <2>6 DEF Pinning
<1>8. ASSUME NEW p \in Procs, Running(p), kind[p] = "restore" PROVE Restoring(p)'
  <2>1. Restoring(p)
    BY <1>1, <1>8 DEF OrderlyInv, AtWork
  <2>2. \A b : Name(b)' = Name(b)
    BY <1>2, NamesKept
  <2> QED
    BY <1>2, <2>1, <2>2 DEF Restoring, Latest, Newest
<1>9. ASSUME NEW p \in Procs, Running(p), kind[p] = "clean-backups" PROVE Tidying(p)'
  <2>1. Tidying(p)
    BY <1>1, <1>9 DEF OrderlyInv, AtWork
  <2>2. \A b : Name(b)' = Name(b)
    BY <1>2, NamesKept
  <2> QED
    BY <1>2, <2>1, <2>2 DEF Tidying, Due
<1>10. ASSUME NEW p \in Procs PROVE AtWork(p)'
  BY <1>2, <1>6, <1>7, <1>8, <1>9 DEF AtWork, Running
<1> QED
  BY <1>5, <1>10

\* Where nothing changes, nothing has to be seen to.
LEMMA StillOrderly ==
  ASSUME IInv, UNCHANGED vars
  PROVE  OrderlyInv'
<1>1. UNCHANGED <<setting, file, due, raced, backups, now, ver, plan, kind, base, fresh, buf, slot, names>>
  BY DEF vars, procVars
<1>2. OrderlyInv
  BY DEF IInv
<1>3. \A b : Name(b)' = Name(b)
  BY <1>1, NamesKept
<1>4. ASSUME NEW f PROVE /\ \A v : Latest(f, v)' <=> Latest(f, v)
                         /\ \A b : Newest(f, b)' <=> Newest(f, b)
  BY <1>1 DEF Latest, Newest
<1>5. ASSUME NEW p \in Procs, AtWork(p) PROVE AtWork(p)'
  <2>1. Saving(p) => Saving(p)'
    BY <1>1 DEF Saving, Safe, Latest, Newest
  <2>2. Pinning(p) => Pinning(p)'
    BY <1>1 DEF Pinning, AsRead, Latest, Newest
  <2>3. Restoring(p) => Restoring(p)'
    BY <1>1, <1>3 DEF Restoring, Latest, Newest
  <2>4. Tidying(p) => Tidying(p)'
    BY <1>1, <1>3 DEF Tidying, Due
  <2> QED
    BY <1>1, <1>5, <2>1, <2>2, <2>3, <2>4 DEF AtWork, Running
<1>6. TornSaved => TornSaved'
  BY <1>1 DEF TornSaved, Safe, Latest, Newest
<1> QED
  BY <1>1, <1>2, <1>5, <1>6 DEF OrderlyInv, Orderly
-------------------------------------------------------------------------------
(* The invariant, and the properties *)

\* No command is at work.
LEMMA InitInvariant == Init => IInv
<1> SUFFICES ASSUME Init PROVE IInv
  OBVIOUS
<1>1. \A p \in Procs : ~Running(p)
  BY DEF Init, Running
<1>2. \A f \in Files : file[f] # Torn
  BY DEF Init, Torn
<1> QED
  BY <1>1, <1>2, GeneralInit DEF IInv, OrderlyInv, AtWork, TornSaved

\* Each step keeps the invariant.
LEMMA NextInvariant == IInv /\ [Next]_vars => IInv'
<1> SUFFICES ASSUME IInv, [Next]_vars PROVE IInv'
  OBVIOUS
<1>1. GeneralInv' /\ TypeOK' /\ Shaped'
  BY GeneralNext DEF IInv, GeneralInv
<1> SUFFICES OrderlyInv'
  BY <1>1 DEF IInv
<1>2. ASSUME NEW p \in setting.procs, NEW c \in setting.commands, StartWriter(p, c) PROVE OrderlyInv'
  BY <1>1, <1>2, WriterOrderly
<1>3. ASSUME NEW p \in setting.procs, Crash(p) PROVE OrderlyInv'
  BY <1>1, <1>3, CrashOrderly
<1>4. ASSUME NEW p \in setting.procs, NEW f \in Files, StartRestore(p, f) PROVE OrderlyInv'
  BY <1>1, <1>4, RestoreOrderly
<1>5. ASSUME NEW p \in setting.procs, NEW f \in Files, StartClean(p, f) PROVE OrderlyInv'
  BY <1>1, <1>5, CleanOrderly
<1>6. ASSUME NEW p \in setting.procs, NEW f \in Files, Answered(p, f) \/ Snap(p, f) PROVE OrderlyInv'
  BY <1>1, <1>6, AnsweredOrderly
<1>7. ASSUME NEW p \in setting.procs, NEW f \in Files, OpenBackup(p, f) PROVE OrderlyInv'
  BY <1>1, <1>7, OpenOrderly
<1>8. ASSUME NEW p \in setting.procs, NEW f \in Files, FillBackup(p, f) PROVE OrderlyInv'
  BY <1>1, <1>8, FillOrderly
<1>9. ASSUME NEW p \in setting.procs, NEW f \in Files, Truncate(p, f) PROVE OrderlyInv'
  BY <1>1, <1>9, TruncateOrderly
<1>10. ASSUME NEW p \in setting.procs, NEW f \in Files, WriteFile(p, f) PROVE OrderlyInv'
  BY <1>1, <1>10, WriteOrderly
<1>11. ASSUME NEW p \in setting.procs, NEW f \in Files, LoadBackup(p, f) PROVE OrderlyInv'
  BY <1>1, <1>11, LoadOrderly
<1>12. ASSUME NEW p \in setting.procs, NEW f \in Files, Unlink(p, f) PROVE OrderlyInv'
  BY <1>1, <1>12, UnlinkOrderly
<1>13. ASSUME NEW f \in Files, Edit(f) PROVE OrderlyInv'
  BY <1>13, EditOrderly
<1>14. CASE UNCHANGED vars
  BY <1>14, StillOrderly
<1> QED
  BY <1>2, <1>3, <1>4, <1>5, <1>6, <1>7, <1>8, <1>9, <1>10, <1>11, <1>12, <1>13, <1>14 DEF Next

\* The inductive invariant holds in every run.
THEOREM Invariance == Spec => []IInv
BY InitInvariant, NextInvariant, PTL DEF Spec

\* Whenever a crash has left a file torn, the newest backup holds what it held, if
\* no editor put it there after the backup was read: restore brings it back.
THEOREM TornIsRestorableHolds == Spec => []TornIsRestorable
<1>1. IInv => TornIsRestorable
  <2> SUFFICES ASSUME IInv, NEW f \in Files, Orderly, file[f] = Torn, due[f] \notin raced[f]
               PROVE  backups[f] # {} /\ Head(ListBackups(f)).body = due[f]
    BY DEF TornIsRestorable
  <2>1. TypeOK /\ Dated /\ setting.grain = 1 /\ Latest(f, due[f])
    BY DEF IInv, GeneralInv, OrderlyInv, TornSaved, Safe, Orderly
  <2> QED
    BY <2>1, LatestIsHead
<1> QED
  BY <1>1, Invariance, PTL

\* From pin's first write to its last, restoring both files brings back what it read
\* or what an editor has made of it since, and nothing that pin wrote.
THEOREM PinUndoableHolds == Spec => []PinUndoable
<1>1. IInv => PinUndoable
  <2> SUFFICES ASSUME IInv, NEW p \in Procs, Orderly, Running(p), kind[p] = "pin", Len(plan[p]) < 4,
                      NEW f \in Files
               PROVE  /\ backups[f] # {}
                      /\ \/ Head(ListBackups(f)).body = base[p][f]
                         \/ Head(ListBackups(f)).body > fresh[p]
    BY DEF PinUndoable
  <2>1. TypeOK /\ Dated /\ setting.grain = 1 /\ Pinning(p) /\ Pins(plan[p])
    BY DEF IInv, GeneralInv, OrderlyInv, AtWork, Orderly, Shaped, ShapedAt
  <2>2. ~Has(plan[p], "fill", f)
    <3> SUFFICES ASSUME NEW i \in DOMAIN plan[p] PROVE plan[p][i] # Call("fill", f)
      BY DEF Has
    <3>1. plan[p] \in Seq(Calls)
      BY <2>1 DEF TypeOK
    <3>2. Len(plan[p]) - i < 4
      BY <3>1
    <3>3. \E h \in Files : plan[p][i] \in {Call("trunc", h), Call("write", h)}
      BY <2>1, <3>2 DEF Pins
    <3> QED
      BY <3>3, CallsDiffer
  <2>3. PICK v \in Nat : AsRead(p, f, v) /\ Latest(f, v)
    BY <2>1, <2>2 DEF Pinning
  <2>4. backups[f] # {} /\ Head(ListBackups(f)).body = v
    BY <2>1, <2>3, LatestIsHead
  <2> QED
    BY <2>3, <2>4 DEF AsRead
<1> QED
  BY <1>1, Invariance, PTL

\* A backup that is complete is not changed by any step, in any setting.
LEMMA FilledOnlyOnce ==
  ASSUME GeneralInv, GeneralInv', [Next]_vars, NEW f \in Files,
         NEW b \in backups[f], NEW c \in backups'[f], Name(b) = Name(c), b.body # Torn
  PROVE  b = c
<1>1. TypeOK /\ Dated /\ Filling
  BY DEF GeneralInv
<1>2. CASE backups'[f] = backups[f]
  BY <1>1, <1>2 DEF Dated
<1>3. ASSUME NEW p \in setting.procs, NEW g \in Files, OpenBackup(p, g) PROVE b = c
  <2>1. p \in Procs
    BY <1>1, Member
  <2>2. PICK new : Added(g, new)
    BY <1>1, <1>3, <2>1, Opened
  <2>3. CASE g # f
    BY <1>2, <2>2, <2>3 DEF Added
  <2>4. CASE g = f
    BY <1>1, <2>2, <2>4 DEF Added, Dated
  <2> QED
    BY <2>3, <2>4
<1>4. ASSUME NEW p \in setting.procs, NEW g \in Files, FillBackup(p, g) PROVE b = c
  <2>1. p \in Procs
    BY <1>1, Member
  <2>2. PICK h : Filled(p, g, h)
    BY <1>1, <1>4, <2>1, Written
  <2>3. CASE g # f
    BY <1>2, <2>2, <2>3 DEF Filled
  <2>4. CASE g = f
    <3>1. PICK d \in backups[f] : c = h[d]
      BY <2>2, <2>4 DEF Filled
    <3>2. Name(d) = Name(b)
      BY <2>2, <2>4, <3>1 DEF Filled
    <3>3. d = b
      BY <1>1, <3>2 DEF Dated
    <3>4. Fills(p, f)
      BY <1>4, <2>4 DEF FillBackup, Next1, Fills
    <3>5. b.born # slot[p]
      BY <1>1, <2>1, <3>4 DEF Filling
    <3> QED
      BY <2>2, <2>4, <3>1, <3>3, <3>5 DEF Filled
  <2> QED
    BY <2>3, <2>4
<1>5. ASSUME NEW p \in setting.procs, NEW g \in Files, Unlink(p, g) PROVE b = c
  <2>1. p \in Procs
    BY <1>1, Member
  <2>2. /\ backups'[g] = {e \in backups[g] : Name(e) # Head(names[p])}
        /\ \A e \in Files : e # g => backups'[e] = backups[e]
    BY <1>1, <1>5, <2>1, Removed
  <2> QED
    BY <1>1, <1>2, <2>2 DEF Dated
<1>6. ASSUME NEW p \in setting.procs, NEW g \in Files,
             \/ \E e \in setting.commands : StartWriter(p, e)
             \/ Crash(p) \/ StartRestore(p, g) \/ StartClean(p, g)
             \/ Answered(p, g) \/ Snap(p, g) \/ Truncate(p, g) \/ WriteFile(p, g)
             \/ LoadBackup(p, g)
      PROVE  b = c
  BY <1>2, <1>6, BackupsKept
<1>7. ASSUME NEW g \in Files, Edit(g) PROVE b = c
  BY <1>2, <1>7 DEF Edit
<1>8. CASE UNCHANGED vars
  BY <1>2, <1>8 DEF vars
<1> QED
  BY <1>3, <1>4, <1>5, <1>6, <1>7, <1>8, FileNames DEF Next

\* A complete backup stays as it is until it is unlinked, however many processes
\* back up at once and however coarse the clock.
THEOREM BackupsImmutableHolds == Spec => BackupsImmutable
<1>1. GeneralInv /\ GeneralInv' /\ [Next]_vars =>
        [\A f \in Files : \A b \in backups[f], c \in backups'[f] :
           Name(b) = Name(c) /\ b.body # Torn => b = c]_backups
  BY FilledOnlyOnce
<1> QED
  BY <1>1, GeneralInvariance, PTL DEF Spec, BackupsImmutable

\* What a step of a writer overwrites is torn, in a backup, or put there by an editor
\* after the backup was read.
LEMMA BackedUp ==
  ASSUME IInv, [Next]_vars, Orderly, NEW f \in Files, file'[f] # file[f],
         NEW p \in Procs, kind[p] \in Writers, plan'[p] # plan[p]
  PROVE  file[f] = Torn \/ Holds(f, file[f]) \/ file[f] \in raced[f]
<1>1. TypeOK
  BY DEF IInv, GeneralInv
<1>2. ASSUME NEW q \in setting.procs, NEW g \in Files, Truncate(q, g) \/ WriteFile(q, g)
      PROVE  q = p /\ g = f
  <2>1. q \in Procs
    BY <1>1, Member
  <2>2. /\ plan' = [plan EXCEPT ![q] = Tail(plan[q])]
        /\ \E c : file' = [file EXCEPT ![g] = c]
    BY <1>2 DEF Truncate, WriteFile, Next1
  <2> QED
    BY <1>1, <2>1, <2>2 DEF TypeOK
<1>3. ASSUME NEW q \in setting.procs, NEW g \in Files, Truncate(q, g)
      PROVE  Holds(f, file[f]) \/ file[f] \in raced[f]
  <2>1. p \in setting.procs /\ Truncate(p, f)
    BY <1>2, <1>3
  <2>2. "trunc" \in Ops /\ Next1(p, "trunc", f)
    BY <2>1 DEF Ops, Truncate
  <2>3. ShapedAt(p) /\ Running(p) /\ Head(plan[p]) = Call("trunc", f) /\ AtWork(p)
    BY <2>1, <2>2, CallOrderly
  <2>4. plan[p] \in Seq(Calls) /\ plan[p] # <<>> /\ plan[p][1] = Call("trunc", f) /\ Ordered(plan[p])
    BY <1>1, <2>3, TailOf DEF TypeOK, ShapedAt, Running
  <2>5. Has(plan[p], "trunc", f) /\ ~Has(plan[p], "fill", f)
    <3>1. ~Has(Tail(plan[p]), "fill", f)
      BY <2>4, OrderedAfter DEF Ops
    <3> QED
      BY <2>4, <3>1, HasTail, CallsDiffer
  <2>6. Safe(f, file[f])
    BY <2>3, <2>5 DEF AtWork, Saving
  <2> QED
    BY <2>6 DEF Safe, Latest, Holds
<1>4. ASSUME NEW q \in setting.procs, NEW g \in Files, WriteFile(q, g)
      PROVE  file[f] = Torn \/ file[f] \in raced[f]
  <2>1. p \in setting.procs /\ WriteFile(p, f)
    BY <1>2, <1>4
  <2>2. "write" \in Ops /\ Next1(p, "write", f)
    BY <2>1 DEF Ops, WriteFile
  <2>3. Running(p) /\ Head(plan[p]) = Call("write", f) /\ AtWork(p)
    BY <2>1, <2>2, CallOrderly
  <2> QED
    BY <2>3 DEF AtWork, Saving
<1>5. ASSUME NEW q \in setting.procs, NEW g \in Files,
             \/ \E e \in setting.commands : StartWriter(q, e)
             \/ Crash(q) \/ StartRestore(q, g) \/ StartClean(q, g)
             \/ Answered(q, g) \/ Snap(q, g) \/ OpenBackup(q, g) \/ FillBackup(q, g)
             \/ LoadBackup(q, g) \/ Unlink(q, g)
      PROVE  FALSE
  BY <1>5 DEF StartWriter, Crash, StartRestore, StartClean, Answered, Snap, OpenBackup, FillBackup,
              LoadBackup, Unlink
<1>6. ASSUME NEW g \in Files, Edit(g) PROVE FALSE
  BY <1>6 DEF Edit, procVars
<1>7. CASE UNCHANGED vars
  BY <1>7 DEF vars
<1> QED
  BY <1>3, <1>4, <1>5, <1>6, <1>7, FileNames DEF Next

\* One command at a time, what a writer overwrites is in a backup, even if the
\* file was edited while it waited and whatever earlier command died half-way; only
\* what an editor puts there after the backup was read is not.
THEOREM OverwrittenIsBackedUpHolds == Spec => OverwrittenIsBackedUp
<1>1. IInv /\ [Next]_vars =>
        [\A f \in Files :
           /\ Orderly /\ file'[f] # file[f]
           /\ \E p \in Procs : kind[p] \in Writers /\ plan'[p] # plan[p]
           => file[f] = Torn \/ Holds(f, file[f]) \/ file[f] \in raced[f]]_file
  BY BackedUp
<1> QED
  BY <1>1, Invariance, PTL DEF Spec, OverwrittenIsBackedUp

\* Only unlink unlinks, and it unlinks the backup whose turn it is.
LEMMA WhatIsUnlinked ==
  ASSUME GeneralInv, [Next]_vars, NEW f \in Files, NEW b, Unlinked(f, b)
  PROVE  \E p \in setting.procs : Unlink(p, f) /\ Name(b) = Head(names[p])
<1>1. TypeOK /\ b \in backups[f] /\ \A c \in backups'[f] : Name(c) # Name(b)
  BY DEF GeneralInv, Unlinked
<1>2. ASSUME NEW p \in setting.procs, NEW g \in Files, OpenBackup(p, g) PROVE FALSE
  <2>1. p \in Procs
    BY <1>1, Member
  <2>2. PICK new : Added(g, new)
    BY <1>1, <1>2, <2>1, Opened
  <2> QED
    BY <1>1, <2>2 DEF Added
<1>3. ASSUME NEW p \in setting.procs, NEW g \in Files, FillBackup(p, g) PROVE FALSE
  <2>1. p \in Procs
    BY <1>1, Member
  <2>2. PICK h : Filled(p, g, h)
    BY <1>1, <1>3, <2>1, Written
  <2>3. \E c \in backups'[f] : Name(c) = Name(b)
    BY <1>1, <2>2 DEF Filled
  <2> QED
    BY <1>1, <2>3
<1>4. ASSUME NEW p \in setting.procs, NEW g \in Files, Unlink(p, g)
      PROVE  g = f /\ Name(b) = Head(names[p])
  <2>1. p \in Procs
    BY <1>1, Member
  <2>2. /\ backups'[g] = {e \in backups[g] : Name(e) # Head(names[p])}
        /\ \A e \in Files : e # g => backups'[e] = backups[e]
    BY <1>1, <1>4, <2>1, Removed
  <2> QED
    BY <1>1, <2>2
<1>5. ASSUME NEW p \in setting.procs, NEW g \in Files,
             \/ \E e \in setting.commands : StartWriter(p, e)
             \/ Crash(p) \/ StartRestore(p, g) \/ StartClean(p, g)
             \/ Answered(p, g) \/ Snap(p, g) \/ Truncate(p, g) \/ WriteFile(p, g)
             \/ LoadBackup(p, g)
      PROVE  FALSE
  BY <1>1, <1>5, BackupsKept
<1>6. ASSUME NEW g \in Files, Edit(g) PROVE FALSE
  BY <1>1, <1>6 DEF Edit
<1>7. CASE UNCHANGED vars
  BY <1>1, <1>7 DEF vars
<1> QED
  BY <1>2, <1>3, <1>4, <1>5, <1>6, <1>7, FileNames DEF Next

\* What it leaves.
LEMMA NewestKept ==
  ASSUME IInv, IInv', NEW p \in setting.procs, NEW f \in Files, Unlink(p, f),
         NEW b \in backups[f], Name(b) = Head(names[p])
  PROVE  /\ Cardinality(setting.cleaners) = 1 => Cardinality(backups'[f]) >= Keep
         /\ Orderly => Cardinality({c \in backups'[f] : c.at > b.at}) >= Keep
<1>1. /\ GeneralInv /\ TypeOK /\ TypeOK' /\ Spares /\ OrderlyInv /\ p \in Procs /\ Keep \in Nat
      /\ Running(p) /\ Head(plan[p]) = Call("unlink", f)
  BY Member, StoreAssumption DEF IInv, GeneralInv, StoreAssumption, Unlink
<1>2. names[p] # <<>> /\ kind[p] = "clean-backups"
  BY <1>1, UnlinkShaped
<1>3. /\ backups'[f] = {e \in backups[f] : Name(e) # Head(names[p])}
      /\ names'[p] = Tail(names[p])
  <2>1. names' = [names EXCEPT ![p] = Tail(names[p])]
    BY <1>1, Removed
  <2> QED
    BY <1>1, <2>1, Removed DEF TypeOK
<1>4. Head(names[p]) \in Due(p)
  BY <1>1, <1>2, <1>3, DueAfter
<1>5. IsFiniteSet(backups'[f])
  BY <1>1 DEF TypeOK
<1>6. ASSUME Cardinality(setting.cleaners) = 1 PROVE Cardinality(backups'[f]) >= Keep
  <2> DEFINE B == backups'[f]
             N == {Name(c) : c \in B}
             S == Listed(f) \ Due(p)
  <2>1. Cardinality(S) >= Keep
    BY <1>1, <1>2, <1>6 DEF Spares, Cleaning
  <2>2. S \subseteq N
    BY <1>3, <1>4 DEF Listed
  <2>3. IsFiniteSet(B)
    BY <1>5
  <2> HIDE DEF B, S
  <2>4. IsFiniteSet(N) /\ Cardinality(N) <= Cardinality(B)
    BY <2>3, FewerNames
  <2>5. Cardinality(S) <= Cardinality(N)
    BY <2>2, <2>4, FS_Subset
  <2>6. Cardinality(S) \in Nat /\ Cardinality(N) \in Nat /\ Cardinality(B) \in Nat
    BY <2>2, <2>3, <2>4, FS_Subset, FS_CardinalityType
  <2> HIDE DEF N
  <2>7. Cardinality(B) >= Keep
    BY <1>1, <2>1, <2>4, <2>5, <2>6
  <2> QED
    BY <2>7 DEF B
<1>7. ASSUME Orderly PROVE Cardinality({c \in backups'[f] : c.at > b.at}) >= Keep
  <2> DEFINE S == {c \in backups[f] : Name(c) \notin Due(p) /\ c.at > b.at}
             T == {c \in backups'[f] : c.at > b.at}
  <2>1. Cardinality(S) >= Keep
    BY <1>1, <1>2, <1>4, <1>7 DEF OrderlyInv, AtWork, Tidying
  <2>2. S \subseteq T
    BY <1>3, <1>4
  <2>3. IsFiniteSet(T)
    BY <1>5, FS_Subset
  <2> HIDE DEF S, T
  <2>4. Cardinality(S) <= Cardinality(T) /\ Cardinality(S) \in Nat /\ Cardinality(T) \in Nat
    BY <2>2, <2>3, FS_Subset, FS_CardinalityType
  <2>5. Cardinality(T) >= Keep
    BY <1>1, <2>1, <2>4
  <2> QED
    BY <2>5 DEF T
<1> QED
  BY <1>6, <1>7

\* clean-backups unlinks a backup only while Keep newer ones remain, and a lone
\* cleaner never leaves fewer than Keep, whatever is added meanwhile.
THEOREM CleanKeepsNewestHolds == Spec => CleanKeepsNewest
<1>1. ASSUME IInv, IInv', [Next]_vars, NEW f \in Files, NEW b \in backups[f], Unlinked(f, b)
      PROVE  /\ Cardinality(setting.cleaners) = 1 => Cardinality(backups'[f]) >= Keep
             /\ Orderly => Cardinality({c \in backups'[f] : c.at > b.at}) >= Keep
  <2>1. PICK p \in setting.procs : Unlink(p, f) /\ Name(b) = Head(names[p])
    BY <1>1, WhatIsUnlinked DEF IInv
  <2> QED
    BY <1>1, <2>1, NewestKept
<1>2. IInv /\ IInv' /\ [Next]_vars =>
        [\A f \in Files : \A b \in backups[f] :
           Unlinked(f, b) =>
             /\ Cardinality(setting.cleaners) = 1 => Cardinality(backups'[f]) >= Keep
             /\ Orderly => Cardinality({c \in backups'[f] : c.at > b.at}) >= Keep]_backups
  BY <1>1
<1> QED
  BY <1>2, Invariance, PTL DEF Spec, CleanKeepsNewest
===============================================================================
