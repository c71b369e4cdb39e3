----------------------------- MODULE LedgerProofs -----------------------------
(***************************************************************************)
(* Proofs about Ledger, for any entries, days, retention and bounds.        *)
(***************************************************************************)
EXTENDS Ledger, SequenceTheorems, TLAPS

\* The file that a name leads to has the entry.
Holds(name, e) == name \in DOMAIN dir /\ e \in content[dir[name]]

\* What TypeOK leaves open: clear_all's own state.
ClearType ==
    clear \in [at : {"idle", "remove", "install", "date"}, doomed : SUBSET Names,
               file : Nat, today : Days]

\* No two names lead to one file.
NamesApart == \A m, n \in DOMAIN dir : dir[m] = dir[n] => m = n

\* A file holds what an append has said Ok to, and nothing else.
HeldIsAccepted == \A f \in DOMAIN content : \A e \in content[f] : at[e] = "ok"

\* Nothing is dated in the future.
Past ==
    /\ \A e \in Entries : date[e] <= today
    /\ current <= today
    /\ clear.today <= today

\* What append has found of the entry's day is still so: nobody but the holder of
\* the mutex moves the ledger's.
DayKept ==
    \A e \in Entries :
        /\ at[e] \in {"rotate", "rename", "prune", "reopen", "install"} => date[e] > current
        /\ at[e] = "base" => date[e] = current
        /\ at[e] = "dated" => date[e] < current

Excused(e) == e \in wiped \/ e \in astray

\* While a clear runs, all there is may go.
ClearTakesAll == Clearing => Made \subseteq wiped

\* The base file holds nothing later than the ledger's day, to which it will be
\* renamed.
BaseInTime == \A e \in Entries : Holds(Base, e) => date[e] <= current \/ Excused(e)

\* A rotation has put the day's file aside, and has not begun the next.
BetweenDays == Base \notin DOMAIN dir \/ \E f \in Entries : at[f] = "install"

\* No rotated file is named for the ledger's day or a later one, so that no
\* rename takes another's place - but for the file a rotation, or one that failed,
\* has just put aside.
AsideIsPast ==
    \A d \in Days, e \in Entries :
        Holds(d, e) => \/ d < current \/ Excused(e)
                       \/ d = current /\ BetweenDays /\ current < today

IInv ==
    /\ TypeOK /\ ClearType /\ NamesApart /\ HeldIsAccepted /\ Past /\ DayKept
    /\ ClearTakesAll /\ BaseInTime /\ AsideIsPast
    /\ FiledInTime /\ Kept

-----------------------------------------------------------------------------
(* The directory                                                           *)

\* A name that is opened leads to a file that holds what it held, if anything;
\* the files there were stay as they are.
LEMMA OpenName ==
    ASSUME TypeOK, NamesApart, NEW name \in Names
    PROVE  /\ DOMAIN Opened(dir, name) = DOMAIN dir \cup {name}
           /\ OpenContent(dir, name) \in Seq(SUBSET Entries)
           /\ DOMAIN content \subseteq DOMAIN OpenContent(dir, name)
           /\ \A f \in DOMAIN content : OpenContent(dir, name)[f] = content[f]
           /\ \A f \in DOMAIN OpenContent(dir, name) \ DOMAIN content :
                  OpenContent(dir, name)[f] = {}
           /\ \A n \in DOMAIN dir : Opened(dir, name)[n] = dir[n]
           /\ name \in DOMAIN dir \/ Opened(dir, name)[name] \notin DOMAIN content
           /\ Opened(dir, name)[name] \in DOMAIN OpenContent(dir, name)
<1>1. CASE name \in DOMAIN dir
  BY <1>1 DEF TypeOK, Opened, OpenContent
<1>2. CASE name \notin DOMAIN dir
  <2>1. /\ Append(content, {}) \in Seq(SUBSET Entries)
        /\ Len(Append(content, {})) = Len(content) + 1
        /\ \A f \in 1..Len(content) : Append(content, {})[f] = content[f]
        /\ Append(content, {})[Len(content) + 1] = {}
    BY DEF TypeOK
  <2>2. /\ DOMAIN content = 1..Len(content) /\ Len(content) \in Nat
        /\ DOMAIN Append(content, {}) = 1..Len(content) + 1
    BY <2>1 DEF TypeOK
  <2>3. OpenContent(dir, name) = Append(content, {})
    BY <1>2 DEF OpenContent
  <2>4. /\ DOMAIN Opened(dir, name) = DOMAIN dir \cup {name}
        /\ \A n \in DOMAIN dir : Opened(dir, name)[n] = dir[n]
        /\ Opened(dir, name)[name] = Len(content) + 1
    BY <1>2 DEF Opened
  <2> QED
    BY <2>1, <2>2, <2>3, <2>4
<1> QED
  BY <1>1, <1>2

-----------------------------------------------------------------------------
(* Steps that leave the files and the ledger's day alone                    *)

\* What is known of the files stays known while time passes, entries are excused
\* and appends come and go, but for those of a rotation.
Contents == BaseInTime /\ AsideIsPast /\ FiledInTime /\ Kept

LEMMA FilesUntouched ==
    ASSUME IInv, UNCHANGED <<dir, content, current>>, today' \in Days, today <= today',
           wiped \subseteq wiped', astray \subseteq astray',
           \A e \in Entries : /\ at'[e] = "ok" => at[e] = "ok"
                              /\ at[e] = "install" => at'[e] = "install"
                              /\ at[e] = "ok" => date'[e] = date[e]
    PROVE  Contents'
<1> USE DEF IInv, Holds, Excused
<1>0. today \in Int /\ today' \in Int /\ current \in Int
  BY DEF TypeOK, Days
<1>1. \A n, e : Holds(n, e)' <=> Holds(n, e)
  OBVIOUS
<1>2. \A n \in Names, e \in Entries : Holds(n, e) => at[e] = "ok" /\ date'[e] = date[e]
  BY DEF TypeOK, HeldIsAccepted
<1>3. BaseInTime'
  BY <1>1, <1>2 DEF BaseInTime, Names
<1>4. AsideIsPast'
  <2> SUFFICES ASSUME NEW d \in Days, NEW e \in Entries, Holds(d, e)
               PROVE  (d < current \/ Excused(e) \/ (d = current /\ BetweenDays /\ current < today))'
    BY <1>1 DEF AsideIsPast
  <2>1. d < current \/ Excused(e) \/ (d = current /\ BetweenDays /\ current < today)
    BY DEF AsideIsPast
  <2>2. BetweenDays => BetweenDays'
    BY DEF BetweenDays
  <2>3. Excused(e) => Excused(e)'
    OBVIOUS
  <2> QED
    BY <1>0, <2>1, <2>2, <2>3 DEF Days
<1>5. FiledInTime'
  BY <1>2 DEF FiledInTime, TypeOK, Names
<1>6. Kept'
  <2> SUFFICES ASSUME NEW e \in Entries, at'[e] = "ok"
               PROVE  (OnDisk(e) \/ Outdated(e) \/ e \in wiped \/ e \in astray)'
    BY DEF Kept
  <2>1. OnDisk(e) \/ Outdated(e) \/ e \in wiped \/ e \in astray
    BY DEF Kept
  <2>2. OnDisk(e) => OnDisk(e)'
    BY DEF OnDisk
  <2>3. date[e] \in Int /\ date'[e] = date[e] /\ Retention \in Int
    BY BoundsAssumption DEF TypeOK, Days
  <2>4. Outdated(e) => Outdated(e)'
    BY <1>0, <2>3 DEF Outdated
  <2> QED
    BY <2>1, <2>2, <2>4
<1> QED
  BY <1>3, <1>4, <1>5, <1>6 DEF Contents

LEMMA MakeStep ==
    ASSUME IInv, NEW e \in Entries, Make(e)
    PROVE  IInv'
<1> USE DEF IInv, Make, Goto, Touched, history, bounds
<1>1. TypeOK' /\ ClearType'
  BY DEF TypeOK, ClearType, InAppend
<1>2. NamesApart' /\ HeldIsAccepted'
  BY DEF NamesApart, HeldIsAccepted, TypeOK
<1>3. Past' /\ DayKept'
  BY DEF Past, DayKept, TypeOK, Days
<1>4. ClearTakesAll'
  BY DEF ClearTakesAll, Made, Clearing, TypeOK
<1>5. Contents'
  BY FilesUntouched DEF TypeOK, Days
<1> QED
  BY <1>1, <1>2, <1>3, <1>4, <1>5 DEF Contents

LEMMA BeginAppendStep ==
    ASSUME IInv, NEW e \in Entries, BeginAppend(e)
    PROVE  IInv'
<1> USE DEF IInv, BeginAppend, Goto, history, bounds
<1>0. Branch(e) \in {"rotate", "base", "dated"}
  BY DEF Branch
<1>1. TypeOK' /\ ClearType'
  BY <1>0 DEF TypeOK, ClearType, InAppend, Appending
<1>2. NamesApart' /\ HeldIsAccepted'
  BY DEF NamesApart, HeldIsAccepted, TypeOK
<1>3. Past' /\ DayKept'
  BY DEF Past, DayKept, TypeOK, Days, Branch
<1>4. ClearTakesAll'
  BY DEF ClearTakesAll, Made, Clearing, TypeOK
<1>5. Contents'
  BY <1>0, FilesUntouched DEF TypeOK, Days
<1> QED
  BY <1>1, <1>2, <1>3, <1>4, <1>5 DEF Contents

LEMMA CloseBaseStep ==
    ASSUME IInv, NEW e \in Entries, CloseBase(e)
    PROVE  IInv'
<1> USE DEF IInv, CloseBase, Goto, history, bounds
<1>1. TypeOK' /\ ClearType'
  BY DEF TypeOK, ClearType, InAppend
<1>2. NamesApart' /\ HeldIsAccepted'
  BY DEF NamesApart, HeldIsAccepted, TypeOK
<1>3. Past' /\ DayKept'
  BY DEF Past, DayKept, TypeOK
<1>4. ClearTakesAll'
  BY DEF ClearTakesAll, Made, Clearing, TypeOK
<1>5. Contents'
  BY FilesUntouched DEF TypeOK, Days
<1> QED
  BY <1>1, <1>2, <1>3, <1>4, <1>5 DEF Contents

\* An append that fails, but for a pruning that has removed a file.
LEMMA FailStep ==
    ASSUME IInv, NEW e \in Entries, at[e] \in InAppend \ {"install"},
           at' = [at EXCEPT ![e] = "error"],
           UNCHANGED <<today, dir, content, handle, current, fresh, date, clear, history>>
    PROVE  IInv'
<1> USE DEF IInv, history
<1>1. TypeOK' /\ ClearType'
  BY DEF TypeOK, ClearType, InAppend
<1>2. NamesApart' /\ HeldIsAccepted'
  BY DEF NamesApart, HeldIsAccepted, TypeOK, InAppend
<1>3. Past' /\ DayKept'
  BY DEF Past, DayKept, TypeOK
<1>4. ClearTakesAll'
  BY DEF ClearTakesAll, Made, Clearing, TypeOK, InAppend
<1>5. Contents'
  BY FilesUntouched DEF TypeOK, Days, InAppend
<1> QED
  BY <1>1, <1>2, <1>3, <1>4, <1>5 DEF Contents

LEMMA WriteFailsStep ==
    ASSUME IInv, NEW e \in Entries, WriteFails(e)
    PROVE  IInv'
BY FailStep DEF WriteFails, Goto, InAppend, history

LEMMA ClearStartsStep ==
    ASSUME IInv, ClearStarts
    PROVE  IInv'
<1> USE DEF IInv, ClearStarts, NotClearing
<1>0. clear' = [at |-> "remove", doomed |-> DOMAIN dir, file |-> Closed, today |-> 1]
  OBVIOUS
<1>1. TypeOK' /\ ClearType'
  <2>1. 1 \in Days
    BY BoundsAssumption DEF Days
  <2>2. ClearType'
    BY <1>0, <2>1 DEF TypeOK, ClearType, Closed
  <2>3. TypeOK'
    BY <1>0 DEF TypeOK
  <2> QED
    BY <2>2, <2>3
<1>2. NamesApart' /\ HeldIsAccepted'
  BY DEF NamesApart, HeldIsAccepted, TypeOK
<1>3. Past' /\ DayKept'
  BY DEF Past, DayKept, TypeOK, Days
<1>4. ClearTakesAll'
  BY DEF ClearTakesAll, Made
<1>5. Contents'
  BY FilesUntouched DEF TypeOK, Days
<1> QED
  BY <1>1, <1>2, <1>3, <1>4, <1>5 DEF Contents

LEMMA ClearInstallsStep ==
    ASSUME IInv, ClearInstalls
    PROVE  IInv'
<1> USE DEF IInv, ClearInstalls, NotClearing, bounds, history
<1>1. TypeOK' /\ ClearType'
  BY BoundsAssumption DEF TypeOK, ClearType, Days, Closed
<1>2. NamesApart' /\ HeldIsAccepted'
  BY DEF NamesApart, HeldIsAccepted, TypeOK
<1>3. Past' /\ DayKept'
  BY DEF Past, DayKept, TypeOK, Days
<1>4. ClearTakesAll'
  BY DEF ClearTakesAll, Made, Clearing
<1>5. Contents'
  BY FilesUntouched DEF TypeOK, Days
<1> QED
  BY <1>1, <1>2, <1>3, <1>4, <1>5 DEF Contents

\* A clear that gives up.
LEMMA ClearEndsStep ==
    ASSUME IInv, clear' = NotClearing,
           UNCHANGED <<today, dir, content, handle, current, fresh, at, date, history>>
    PROVE  IInv'
<1> USE DEF IInv, NotClearing, history
<1>1. TypeOK' /\ ClearType'
  BY BoundsAssumption DEF TypeOK, ClearType, Days, Closed
<1>2. NamesApart' /\ HeldIsAccepted'
  BY DEF NamesApart, HeldIsAccepted, TypeOK
<1>3. Past' /\ DayKept'
  BY DEF Past, DayKept, TypeOK, Days
<1>4. ClearTakesAll'
  BY DEF ClearTakesAll, Clearing
<1>5. Contents'
  BY FilesUntouched DEF TypeOK, Days
<1> QED
  BY <1>1, <1>2, <1>3, <1>4, <1>5 DEF Contents

LEMMA MidnightStep ==
    ASSUME IInv, Midnight
    PROVE  IInv'
<1> USE DEF IInv, Midnight, bounds, history
<1>0. today' \in Days /\ today < today'
  BY BoundsAssumption DEF TypeOK, Days
<1>1. TypeOK' /\ ClearType'
  BY <1>0 DEF TypeOK, ClearType
<1>2. NamesApart' /\ HeldIsAccepted'
  BY DEF NamesApart, HeldIsAccepted, TypeOK
<1>3. Past' /\ DayKept'
  BY <1>0 DEF Past, DayKept, TypeOK, Days, ClearType
<1>4. ClearTakesAll'
  BY DEF ClearTakesAll, Made, Clearing
<1>5. Contents'
  BY <1>0, FilesUntouched DEF TypeOK, Days
<1> QED
  BY <1>1, <1>2, <1>3, <1>4, <1>5 DEF Contents

-----------------------------------------------------------------------------
(* Steps that write, move or remove files, or move the ledger's day         *)

\* Pruning takes what is out of date, a clear what is wiped.
LEMMA FilesRemoved ==
    ASSUME IInv, NEW gone, dir' = Without(dir, gone),
           gone \cap DOMAIN dir \subseteq Expired(dir) \/ Clearing,
           UNCHANGED <<today, content, current, date, history>>,
           \A e \in Entries : /\ at'[e] = "ok" => at[e] = "ok"
                              /\ at[e] = "install" => at'[e] = "install"
    PROVE  Contents' /\ NamesApart' /\ DOMAIN dir' \subseteq DOMAIN dir
           /\ \A n \in DOMAIN dir' : dir'[n] = dir[n]
<1> USE DEF IInv, history
<1>1. /\ DOMAIN dir' = DOMAIN dir \ gone
      /\ \A n \in DOMAIN dir' : dir'[n] = dir[n]
  BY DEF Without
<1>2. \A n, e : Holds(n, e)' => Holds(n, e)
  BY <1>1 DEF Holds
<1>3. BaseInTime'
  BY <1>2 DEF BaseInTime, Excused
<1>4. AsideIsPast'
  BY <1>1, <1>2 DEF AsideIsPast, BetweenDays, Excused
<1>5. FiledInTime'
  BY <1>1 DEF FiledInTime
<1>6. Kept'
  <2> SUFFICES ASSUME NEW e \in Entries, at'[e] = "ok", ~ Excused(e), OnDisk(e)
               PROVE  (OnDisk(e) \/ Outdated(e))'
    BY DEF Kept, Excused, Outdated
  <2>1. PICK n \in DOMAIN dir : e \in content[dir[n]]
    BY DEF OnDisk
  <2>2. CASE n \notin gone
    BY <1>1, <2>1, <2>2 DEF OnDisk
  <2>3. CASE n \in Expired(dir)
    <3>1. n \in DOMAIN dir \ {Base} /\ n \in Days /\ today - n > Retention
      BY <2>3 DEF Expired, TypeOK, Names
    <3>2. date[e] <= n
      BY <2>1, <3>1 DEF FiledInTime, Excused
    <3>3. today \in Int /\ date[e] \in Int /\ Retention \in Int /\ n \in Int
      BY <3>1, BoundsAssumption DEF TypeOK, Days
    <3> QED
      BY <3>1, <3>2, <3>3 DEF Outdated
  <2>4. CASE Clearing
    BY <2>4 DEF ClearTakesAll, Made, Excused
  <2> QED
    BY <2>2, <2>3, <2>4
<1>7. NamesApart'
  BY <1>1 DEF NamesApart
<1> QED
  BY <1>1, <1>3, <1>4, <1>5, <1>6, <1>7 DEF Contents

LEMMA PruneStep ==
    ASSUME IInv, NEW e \in Entries, NEW gone \in SUBSET Expired(dir),
           NEW place \in {"reopen", "error"},
           at[e] = "prune",
           dir' = Without(dir, gone),
           Goto(e, place),
           UNCHANGED <<today, content, handle, current, fresh, date, clear, history>>
    PROVE  IInv'
<1> USE DEF IInv, Goto, history
<1>1. /\ Contents' /\ NamesApart' /\ DOMAIN dir' \subseteq DOMAIN dir
      /\ \A n \in DOMAIN dir' : dir'[n] = dir[n]
  BY FilesRemoved DEF TypeOK
<1>2. TypeOK' /\ ClearType'
  BY <1>1 DEF TypeOK, ClearType, InAppend
<1>3. HeldIsAccepted'
  BY DEF HeldIsAccepted, TypeOK
<1>4. Past' /\ DayKept'
  BY DEF Past, DayKept, TypeOK
<1>5. ClearTakesAll'
  BY DEF ClearTakesAll, Made, Clearing, TypeOK
<1> QED
  BY <1>1, <1>2, <1>3, <1>4, <1>5 DEF Contents

LEMMA PruneOldStep ==
    ASSUME IInv, NEW e \in Entries, PruneOld(e)
    PROVE  IInv'
BY PruneStep DEF PruneOld, bounds

LEMMA RotateFailsStep ==
    ASSUME IInv, NEW e \in Entries, RotateFails(e)
    PROVE  IInv'
<1>1. CASE UNCHANGED dir
  BY <1>1, FailStep DEF RotateFails, Goto, InAppend, history
<1>2. CASE at[e] = "prune" /\ \E d \in Expired(dir) : dir' = Without(dir, {d})
  BY <1>2, PruneStep DEF RotateFails
<1> QED
  BY <1>1, <1>2 DEF RotateFails

LEMMA ClearRemovesStep ==
    ASSUME IInv, NEW name \in Names, ClearRemoves(name)
    PROVE  IInv'
<1> USE DEF IInv, ClearRemoves, bounds, history
<1>1. CASE Exists(name)
  <2>1. /\ Contents' /\ NamesApart' /\ DOMAIN dir' \subseteq DOMAIN dir
        /\ \A n \in DOMAIN dir' : dir'[n] = dir[n]
    BY <1>1, FilesRemoved DEF Clearing
  <2>2. TypeOK' /\ ClearType'
    BY <1>1, <2>1, ZenonT(60) DEF TypeOK, ClearType
  <2>3. HeldIsAccepted'
    BY DEF HeldIsAccepted
  <2>4. Past' /\ DayKept'
    BY <1>1 DEF Past, DayKept, ClearType
  <2>5. ClearTakesAll'
    BY <1>1 DEF ClearTakesAll, Made, Clearing, ClearType
  <2> QED
    BY <2>1, <2>2, <2>3, <2>4, <2>5 DEF Contents
<1>2. CASE ~ Exists(name)
  BY <1>2, ClearEndsStep
<1> QED
  BY <1>1, <1>2

\* Opening a file says nothing new of what the files hold.
LEMMA FileOpened ==
    ASSUME IInv, dir' = Opened(dir, Base), content' = OpenContent(dir, Base),
           UNCHANGED <<today, current, date, history>>,
           \A e \in Entries : at'[e] = "ok" <=> at[e] = "ok"
    PROVE  /\ NamesApart' /\ HeldIsAccepted' /\ BaseInTime' /\ FiledInTime' /\ Kept'
           /\ \A n \in Names, e \in Entries : Holds(n, e)' <=> Holds(n, e)
           /\ content' \in Seq(SUBSET Entries) /\ DOMAIN content \subseteq DOMAIN content'
           /\ DOMAIN dir' = DOMAIN dir \cup {Base}
           /\ \A n \in DOMAIN dir' : dir'[n] \in DOMAIN content'
<1> USE DEF IInv, history
<1>0. Base \in Names
  BY DEF Names
<1>1. /\ DOMAIN dir' = DOMAIN dir \cup {Base}
      /\ content' \in Seq(SUBSET Entries)
      /\ DOMAIN content \subseteq DOMAIN content'
      /\ \A f \in DOMAIN content : content'[f] = content[f]
      /\ \A f \in DOMAIN content' \ DOMAIN content : content'[f] = {}
      /\ \A n \in DOMAIN dir : dir'[n] = dir[n]
      /\ Base \in DOMAIN dir \/ dir'[Base] \notin DOMAIN content
      /\ dir'[Base] \in DOMAIN content'
  BY <1>0, OpenName
<1>2. \A n \in DOMAIN dir : dir[n] \in DOMAIN content
  BY DEF TypeOK
<1>3. \A n, e : Holds(n, e)' <=> Holds(n, e)
  BY <1>1, <1>2 DEF Holds
<1>4. NamesApart'
  BY <1>1, <1>2 DEF NamesApart
<1>5. HeldIsAccepted'
  BY <1>1 DEF HeldIsAccepted, TypeOK
<1>6. BaseInTime'
  BY <1>3 DEF BaseInTime, Excused
<1>7. FiledInTime'
  BY <1>1, <1>2 DEF FiledInTime
<1>8. Kept'
  BY <1>1, <1>2 DEF Kept, OnDisk, Outdated
<1> QED
  BY <1>1, <1>2, <1>3, <1>4, <1>5, <1>6, <1>7, <1>8

LEMMA ReopenBaseStep ==
    ASSUME IInv, NEW e \in Entries, ReopenBase(e)
    PROVE  IInv'
<1> USE DEF IInv, ReopenBase, Goto, bounds, history
<1>1. /\ NamesApart' /\ HeldIsAccepted' /\ BaseInTime' /\ FiledInTime' /\ Kept'
      /\ \A n \in Names, x \in Entries : Holds(n, x)' <=> Holds(n, x)
      /\ content' \in Seq(SUBSET Entries) /\ DOMAIN content \subseteq DOMAIN content'
      /\ DOMAIN dir' = DOMAIN dir \cup {Base}
      /\ \A n \in DOMAIN dir' : dir'[n] \in DOMAIN content'
  BY FileOpened DEF TypeOK
<1>2. at' = [at EXCEPT ![e] = "install"] /\ at'[e] = "install"
  BY DEF TypeOK
<1>3. TypeOK' /\ ClearType'
  <2>1. fresh' \in DOMAIN content' /\ fresh' # Closed
    BY <1>1 DEF Closed
  <2> QED
    BY <1>1, <1>2, <2>1 DEF TypeOK, ClearType, InAppend, Names
<1>4. Past' /\ DayKept'
  BY <1>2 DEF Past, DayKept, TypeOK
<1>5. ClearTakesAll'
  BY <1>2 DEF ClearTakesAll, Made, Clearing, TypeOK
<1>6. AsideIsPast'
  BY <1>1, <1>2 DEF AsideIsPast, BetweenDays, Excused, Names
<1> QED
  BY <1>1, <1>3, <1>4, <1>5, <1>6

LEMMA ClearOpensStep ==
    ASSUME IInv, ClearOpens
    PROVE  IInv'
<1> USE DEF IInv, ClearOpens, bounds, history
<1>1. /\ NamesApart' /\ HeldIsAccepted' /\ BaseInTime' /\ FiledInTime' /\ Kept'
      /\ \A n \in Names, x \in Entries : Holds(n, x)' <=> Holds(n, x)
      /\ content' \in Seq(SUBSET Entries) /\ DOMAIN content \subseteq DOMAIN content'
      /\ DOMAIN dir' = DOMAIN dir \cup {Base}
      /\ \A n \in DOMAIN dir' : dir'[n] \in DOMAIN content'
  BY FileOpened
<1>2. clear' = [at |-> "install", doomed |-> clear.doomed, file |-> dir'[Base],
                today |-> clear.today]
  BY DEF ClearType
<1>3. dir'[Base] \in DOMAIN content' /\ dir'[Base] \in Nat
  BY <1>1
<1>4. TypeOK' /\ ClearType'
  BY <1>1, <1>2, <1>3 DEF TypeOK, ClearType, Names
<1>5. Past' /\ DayKept'
  BY <1>2 DEF Past, DayKept
<1>6. ClearTakesAll'
  BY DEF ClearTakesAll, Made, Clearing
<1>7. AsideIsPast'
  <2>1. \A d \in Days, e \in Entries : Holds(d, e) => Excused(e)
    BY DEF ClearTakesAll, Clearing, Made, HeldIsAccepted, Holds, TypeOK, Excused
  <2> QED
    BY <1>1, <2>1 DEF AsideIsPast, Excused, Names
<1> QED
  BY <1>1, <1>4, <1>5, <1>6, <1>7

\* The rotation moves the ledger on to a later day.
LEMMA InstallBaseStep ==
    ASSUME IInv, NEW e \in Entries, InstallBase(e)
    PROVE  IInv'
<1> USE DEF IInv, InstallBase, Goto, bounds, history
<1>1. current < date[e] /\ current' = date[e] /\ date[e] \in Days /\ date[e] <= today
  BY DEF DayKept, TypeOK, Past
<1>2. today \in Int /\ current \in Int /\ current' \in Int /\ \A d \in Days : d \in Int
  BY <1>1 DEF TypeOK, Days
<1>3. TypeOK' /\ ClearType'
  BY <1>1 DEF TypeOK, ClearType, InAppend
<1>4. NamesApart' /\ HeldIsAccepted'
  BY DEF NamesApart, HeldIsAccepted, TypeOK
<1>5. Past' /\ DayKept'
  BY <1>1 DEF Past, DayKept, TypeOK, InAppend
<1>6. ClearTakesAll'
  BY DEF ClearTakesAll, Made, Clearing, TypeOK
<1>7. \A n, x : Holds(n, x)' <=> Holds(n, x)
  BY DEF Holds
<1>8. BaseInTime'
  BY <1>1, <1>2, <1>7 DEF BaseInTime, Excused, TypeOK, Days
<1>9. AsideIsPast'
  BY <1>1, <1>2, <1>7 DEF AsideIsPast, Excused
<1>10. FiledInTime' /\ Kept'
  BY DEF FiledInTime, Kept, OnDisk, Outdated, TypeOK
<1> QED
  BY <1>3, <1>4, <1>5, <1>6, <1>8, <1>9, <1>10

\* A clear may set the day back; everything there is goes with it.
LEMMA ClearSetsDateStep ==
    ASSUME IInv, ClearSetsDate
    PROVE  IInv'
<1> USE DEF IInv, ClearSetsDate, NotClearing, bounds, history
<1>1. TypeOK' /\ ClearType'
  BY BoundsAssumption DEF TypeOK, ClearType, Days, Closed
<1>2. NamesApart' /\ HeldIsAccepted'
  BY DEF NamesApart, HeldIsAccepted
<1>3. Past' /\ DayKept'
  BY DEF Past, DayKept, TypeOK, Days, Appending, InAppend
<1>4. ClearTakesAll'
  BY DEF ClearTakesAll, Clearing
<1>5. \A n \in Names, e \in Entries : Holds(n, e) => Excused(e)
  BY DEF ClearTakesAll, Clearing, Made, HeldIsAccepted, Holds, TypeOK, Excused
<1>6. BaseInTime' /\ AsideIsPast'
  BY <1>5 DEF BaseInTime, AsideIsPast, Holds, Excused, Names
<1>7. FiledInTime' /\ Kept'
  BY DEF FiledInTime, Kept, OnDisk, Outdated
<1> QED
  BY <1>1, <1>2, <1>3, <1>4, <1>6, <1>7

\* A file gets an entry.
LEMMA EntryAdded ==
    ASSUME NEW c \in Seq(SUBSET Entries), NEW f \in DOMAIN c, NEW e \in Entries,
           NEW d, d = [c EXCEPT ![f] = @ \cup {e}]
    PROVE  /\ d \in Seq(SUBSET Entries) /\ DOMAIN d = DOMAIN c
           /\ d[f] = c[f] \cup {e}
           /\ \A g \in DOMAIN c : g # f => d[g] = c[g]
<1>1. c[f] \cup {e} \in SUBSET Entries
  BY ElementOfSeq
<1>2. Len(d) = Len(c) /\ d \in Seq(SUBSET Entries)
  BY <1>1, ExceptSeq
<1> QED
  BY <1>2

\* What is written through the handle is in the base file, or astray.
LEMMA WriteBaseStep ==
    ASSUME IInv, NEW e \in Entries, WriteBase(e)
    PROVE  IInv'
<1> USE DEF IInv, WriteBase, Goto, bounds
<1>0. at[e] = "base" /\ date[e] = current /\ at' = [at EXCEPT ![e] = "ok"]
  BY DEF DayKept
<1>1. /\ content' \in Seq(SUBSET Entries) /\ DOMAIN content' = DOMAIN content
      /\ \A f \in DOMAIN content : content[f] \subseteq content'[f]
      /\ \A f \in DOMAIN content : content'[f] \subseteq content[f] \cup {e}
      /\ handle # Closed => e \in content'[handle]
      /\ \A f \in DOMAIN content : e \in content'[f] => e \in content[f] \/ f = handle
  <2>1. CASE handle = Closed
    BY <2>1 DEF TypeOK
  <2>2. CASE handle # Closed
    <3>1. handle \in DOMAIN content
      BY <2>2 DEF TypeOK
    <3>2. content' = [content EXCEPT ![handle] = @ \cup {e}]
      BY <2>2 DEF Written
    <3>3. content \in Seq(SUBSET Entries)
      BY DEF TypeOK
    <3> QED
      BY <3>1, <3>2, <3>3, EntryAdded
  <2> QED
    BY <2>1, <2>2
<1>2. TypeOK' /\ ClearType'
  BY <1>0, <1>1 DEF TypeOK, ClearType, InAppend
<1>3. NamesApart' /\ HeldIsAccepted'
  BY <1>0, <1>1 DEF NamesApart, HeldIsAccepted, TypeOK
<1>4. Past' /\ DayKept'
  BY <1>0 DEF Past, DayKept, TypeOK
<1>5. ClearTakesAll'
  BY <1>0 DEF ClearTakesAll, Made, Clearing, TypeOK
<1>6. \A n \in Names, x \in Entries :
        Holds(n, x)' => Holds(n, x) \/ (x = e /\ dir[n] = handle /\ n \in DOMAIN dir)
  BY <1>1 DEF Holds, TypeOK
<1>7. e \in astray' \/ (Base \in DOMAIN dir /\ handle = dir[Base])
  BY DEF HandleIsBase, Exists
<1>8. \A x : Excused(x) => Excused(x)'
  BY DEF Excused
<1>9. BaseInTime'
  BY <1>0, <1>6, <1>8, SMTT(30) DEF BaseInTime, Names, TypeOK, Days
<1>10. \A d \in Days : Holds(d, e)' => Holds(d, e) \/ Excused(e)'
  BY <1>6, <1>7 DEF NamesApart, Names, Excused, Days, Base
<1>11. AsideIsPast'
  <2> SUFFICES ASSUME NEW d \in Days, NEW x \in Entries, Holds(d, x)', ~ Excused(x)'
               PROVE  d < current \/ (d = current /\ BetweenDays' /\ current < today)
    BY DEF AsideIsPast
  <2>1. Holds(d, x) /\ ~ Excused(x)
    BY <1>6, <1>8, <1>10 DEF Names
  <2>2. BetweenDays => BetweenDays'
    BY <1>0 DEF BetweenDays, TypeOK
  <2> QED
    BY <2>1, <2>2 DEF AsideIsPast
<1>12. FiledInTime'
  <2> SUFFICES ASSUME NEW d \in DOMAIN dir \ {Base}, NEW x \in content'[dir[d]], ~ Excused(x)'
               PROVE  date[x] <= d
    BY DEF FiledInTime, Excused
  <2>1. d \in Days /\ x \in Entries /\ Holds(d, x)'
    BY <1>1 DEF TypeOK, Names, Holds
  <2>2. Holds(d, x) /\ ~ Excused(x)
    BY <2>1, <1>6, <1>8, <1>10 DEF Names
  <2> QED
    BY <2>2 DEF FiledInTime, Holds, Excused
<1>13. Kept'
  <2> SUFFICES ASSUME NEW x \in Entries, at'[x] = "ok", ~ Excused(x)'
               PROVE  OnDisk(x)' \/ Outdated(x)'
    BY DEF Kept, Excused
  <2>1. CASE x = e
    <3>1. Base \in DOMAIN dir /\ handle = dir[Base] /\ handle # Closed
      BY <1>7, <2>1 DEF Excused, TypeOK, Closed
    <3> QED
      BY <1>1, <2>1, <3>1 DEF OnDisk
  <2>2. CASE x # e
    <3>1. OnDisk(x) \/ Outdated(x)
      BY <1>0, <1>8, <2>2 DEF Kept, Excused, TypeOK
    <3>2. OnDisk(x) => OnDisk(x)'
      BY <1>1 DEF OnDisk, TypeOK
    <3> QED
      BY <3>1, <3>2 DEF Outdated
  <2> QED
    BY <2>1, <2>2
<1> QED
  BY <1>2, <1>3, <1>4, <1>5, <1>9, <1>11, <1>12, <1>13

\* A late entry goes to the file of its own day, which is past.
LEMMA WriteDatedStep ==
    ASSUME IInv, NEW e \in Entries, WriteDated(e)
    PROVE  IInv'
<1> USE DEF IInv, WriteDated, Goto, bounds, history
<1> DEFINE d == date[e]
           opened == OpenContent(dir, d)
<1>0. d \in Days /\ d \in Names /\ d # Base /\ d < current /\ at' = [at EXCEPT ![e] = "ok"]
  BY DEF TypeOK, Names, Days, Base, DayKept
<1>1. /\ DOMAIN dir' = DOMAIN dir \cup {d}
      /\ opened \in Seq(SUBSET Entries)
      /\ DOMAIN content \subseteq DOMAIN opened
      /\ \A f \in DOMAIN content : opened[f] = content[f]
      /\ \A f \in DOMAIN opened \ DOMAIN content : opened[f] = {}
      /\ \A n \in DOMAIN dir : dir'[n] = dir[n]
      /\ d \in DOMAIN dir \/ dir'[d] \notin DOMAIN content
      /\ dir'[d] \in DOMAIN opened
  BY <1>0, OpenName
<1>2. \A n \in DOMAIN dir : dir[n] \in DOMAIN content
  BY DEF TypeOK
<1>3. /\ content' \in Seq(SUBSET Entries) /\ DOMAIN content' = DOMAIN opened
      /\ content'[dir'[d]] = opened[dir'[d]] \cup {e}
      /\ \A f \in DOMAIN opened : f # dir'[d] => content'[f] = opened[f]
  <2>1. content' = [opened EXCEPT ![dir'[d]] = @ \cup {e}]
    OBVIOUS
  <2> HIDE DEF opened, d, WriteDated, IInv
  <2>2. /\ opened \in Seq(SUBSET Entries) /\ dir'[d] \in DOMAIN opened
    BY <1>1
  <2> QED
    BY <2>1, <2>2, EntryAdded
<1> HIDE DEF opened
<1>4. TypeOK' /\ ClearType'
  <2>1. \A n \in DOMAIN dir' : dir'[n] \in DOMAIN content'
    BY <1>1, <1>2, <1>3
  <2> QED
    BY <1>0, <1>1, <1>3, <2>1 DEF TypeOK, ClearType, InAppend
<1>5. NamesApart' /\ HeldIsAccepted'
  BY <1>0, <1>1, <1>2, <1>3 DEF NamesApart, HeldIsAccepted, TypeOK
<1>6. Past' /\ DayKept'
  BY <1>0 DEF Past, DayKept, TypeOK
<1>7. ClearTakesAll'
  BY <1>0 DEF ClearTakesAll, Made, Clearing, TypeOK
<1>8. \A n \in Names, x \in Entries : Holds(n, x)' => Holds(n, x) \/ (x = e /\ n = d)
  BY <1>1, <1>2, <1>3, <1>5 DEF Holds, NamesApart
<1>9. BaseInTime'
  BY <1>0, <1>8 DEF BaseInTime, Excused, Names
<1>10. AsideIsPast'
  <2>1. BetweenDays => BetweenDays'
    BY <1>0, <1>1 DEF BetweenDays, TypeOK
  <2> QED
    BY <1>0, <1>8, <2>1 DEF AsideIsPast, Excused, Names
<1>11. FiledInTime'
  <2> SUFFICES ASSUME NEW n \in DOMAIN dir' \ {Base}, NEW x \in content'[dir'[n]]
               PROVE  date[x] <= n \/ Excused(x)
    BY DEF FiledInTime, Excused
  <2>1. n \in Names /\ x \in Entries /\ Holds(n, x)'
    BY <1>0, <1>1, <1>3, <1>4 DEF TypeOK, Holds
  <2>2. CASE Holds(n, x)
    BY <2>2 DEF FiledInTime, Holds, Excused
  <2>3. CASE x = e /\ n = d
    BY <1>0, <2>3 DEF Days
  <2> QED
    BY <1>8, <2>1, <2>2, <2>3
<1>12. Kept'
  <2> SUFFICES ASSUME NEW x \in Entries, at'[x] = "ok", ~ Excused(x)
               PROVE  OnDisk(x)' \/ Outdated(x)'
    BY DEF Kept, Excused
  <2>1. CASE x = e
    BY <1>1, <1>3, <2>1 DEF OnDisk
  <2>2. CASE x # e
    <3>1. OnDisk(x) \/ Outdated(x)
      BY <1>0, <2>2 DEF Kept, Excused, TypeOK
    <3>2. OnDisk(x) => OnDisk(x)'
      BY <1>1, <1>2, <1>3 DEF OnDisk
    <3> QED
      BY <3>1, <3>2 DEF Outdated
  <2> QED
    BY <2>1, <2>2
<1> QED
  BY <1>4, <1>5, <1>6, <1>7, <1>9, <1>10, <1>11, <1>12

\* No file has the name of the ledger's day, or all that it holds is excused.
LEMMA RenameBaseStep ==
    ASSUME IInv, NEW e \in Entries, RenameBase(e)
    PROVE  IInv'
<1> USE DEF IInv, RenameBase, Goto, bounds, history
<1>1. TypeOK' /\ ClearType'
  BY DEF TypeOK, ClearType, InAppend, Renamed, Exists, Names
<1>2. NamesApart' /\ HeldIsAccepted'
  BY DEF NamesApart, HeldIsAccepted, TypeOK, Renamed, Exists
<1>3. Past' /\ DayKept'
  BY DEF Past, DayKept, TypeOK
<1>4. ClearTakesAll'
  BY DEF ClearTakesAll, Made, Clearing, TypeOK
<1>5. CASE ~ Exists(Base)
  <2>1. Contents'
    BY <1>5, FilesUntouched DEF TypeOK, Days
  <2> QED
    BY <1>1, <1>2, <1>3, <1>4, <2>1 DEF Contents
<1>6. CASE Exists(Base)
  <2>1. /\ DOMAIN dir' = (DOMAIN dir \ {Base}) \cup {current}
        /\ dir'[current] = dir[Base]
        /\ \A n \in DOMAIN dir \ {Base, current} : dir'[n] = dir[n]
        /\ Base \in DOMAIN dir /\ current \in Days /\ current # Base
    BY <1>6 DEF Renamed, Exists, TypeOK, Days, Base
  <2>2. /\ \A n \in Days \ {current}, x \in Entries : Holds(n, x)' => Holds(n, x)
        /\ \A x \in Entries : Holds(current, x)' => Holds(Base, x)
        /\ \A x \in Entries : ~ Holds(Base, x)'
    BY <2>1 DEF Holds, Days, Base
  <2>3. \A x \in Entries : Holds(current, x) => Excused(x)
    BY <2>1 DEF AsideIsPast, BetweenDays, TypeOK, InAppend, Days
  <2>4. BaseInTime'
    BY <2>2 DEF BaseInTime
  <2>5. AsideIsPast'
    <3>1. BetweenDays' /\ current < today
      BY <2>1 DEF BetweenDays, DayKept, Past, TypeOK, Days
    <3>2. ~ BetweenDays
      BY <2>1 DEF BetweenDays, TypeOK, InAppend
    <3> QED
      BY <2>2, <3>1, <3>2 DEF AsideIsPast, Excused
  <2>6. FiledInTime'
    <3> SUFFICES ASSUME NEW n \in DOMAIN dir' \ {Base}, NEW x \in content[dir'[n]]
                 PROVE  date[x] <= n \/ Excused(x)
      BY DEF FiledInTime, Excused
    <3>1. CASE n = current
      BY <2>1, <3>1 DEF BaseInTime, Holds, TypeOK
    <3>2. CASE n # current
      BY <2>1, <3>2 DEF FiledInTime, Excused
    <3> QED
      BY <3>1, <3>2
  <2>7. Kept'
    <3> SUFFICES ASSUME NEW x \in Entries, at[x] = "ok", ~ Excused(x), OnDisk(x)
                 PROVE  OnDisk(x)'
      BY DEF Kept, Excused, Outdated, TypeOK
    <3>1. PICK n \in DOMAIN dir : x \in content[dir[n]]
      BY DEF OnDisk
    <3>2. n # current
      BY <2>3, <3>1 DEF Holds
    <3> QED
      BY <2>1, <3>1, <3>2 DEF OnDisk
  <2> QED
    BY <1>1, <1>2, <1>3, <1>4, <2>4, <2>5, <2>6, <2>7
<1> QED
  BY <1>5, <1>6

\* A new process takes the base file for today's; whatever was put aside is for an
\* earlier day.
LEMMA RestartStep ==
    ASSUME IInv, Restart
    PROVE  IInv'
<1> USE DEF IInv, Restart, NotClearing, history
<1>0. Base \in Names /\ Base \notin Expired(dir)
  BY DEF Names, Expired
<1>1. /\ DOMAIN Opened(dir, Base) = DOMAIN dir \cup {Base}
      /\ content' \in Seq(SUBSET Entries)
      /\ DOMAIN content \subseteq DOMAIN content'
      /\ \A f \in DOMAIN content : content'[f] = content[f]
      /\ \A f \in DOMAIN content' \ DOMAIN content : content'[f] = {}
      /\ \A n \in DOMAIN dir : Opened(dir, Base)[n] = dir[n]
      /\ Base \in DOMAIN dir \/ Opened(dir, Base)[Base] \notin DOMAIN content
      /\ Opened(dir, Base)[Base] \in DOMAIN content'
  BY <1>0, OpenName
<1>2. /\ DOMAIN dir' = (DOMAIN dir \cup {Base}) \ Expired(dir)
      /\ \A n \in DOMAIN dir' : dir'[n] = Opened(dir, Base)[n]
  BY <1>1 DEF Without
<1>3. \A n \in DOMAIN dir : dir[n] \in DOMAIN content
  BY DEF TypeOK
<1>4. at' \in [Entries -> {"unmade", "ok", "error"}]
      /\ \A e \in Entries : /\ at'[e] = "ok" <=> at[e] = "ok"
                            /\ at'[e] = "unmade" <=> at[e] = "unmade"
  BY DEF TypeOK
<1>5. TypeOK'
  <2>1. \A n \in DOMAIN dir' : dir'[n] \in DOMAIN content'
    BY <1>1, <1>2, <1>3
  <2>2. handle' \in DOMAIN content' /\ DOMAIN dir' \subseteq Names
    BY <1>0, <1>1, <1>2, <2>1 DEF TypeOK
  <2> QED
    BY <1>1, <1>4, <2>1, <2>2 DEF TypeOK, InAppend
<1>6. ClearType' /\ ClearTakesAll'
  BY BoundsAssumption DEF ClearType, ClearTakesAll, Clearing, Days, Closed
<1>7. NamesApart' /\ HeldIsAccepted'
  BY <1>1, <1>2, <1>3, <1>4 DEF NamesApart, HeldIsAccepted, TypeOK
<1>8. Past' /\ DayKept'
  BY <1>4 DEF Past, DayKept, TypeOK, Days
<1>9. \A n \in Names, x \in Entries : Holds(n, x)' => Holds(n, x)
  BY <1>1, <1>2, <1>3 DEF Holds
<1>10. BaseInTime'
  BY DEF BaseInTime, Past, Excused
<1>11. AsideIsPast'
  BY <1>9 DEF AsideIsPast, Past, Excused, Names, TypeOK, Days
<1>12. FiledInTime'
  BY <1>1, <1>2, <1>3 DEF FiledInTime
<1>13. Kept'
  <2> SUFFICES ASSUME NEW x \in Entries, at[x] = "ok", ~ Excused(x), OnDisk(x)
               PROVE  OnDisk(x)' \/ Outdated(x)
    BY <1>4 DEF Kept, Excused, Outdated
  <2>1. PICK n \in DOMAIN dir : x \in content[dir[n]]
    BY DEF OnDisk
  <2>2. CASE n \notin Expired(dir)
    BY <1>1, <1>2, <1>3, <2>1, <2>2 DEF OnDisk
  <2>3. CASE n \in Expired(dir)
    <3>1. n \in DOMAIN dir \ {Base} /\ n \in Days /\ today - n > Retention
      BY <2>3 DEF Expired, TypeOK, Names
    <3>2. date[x] <= n
      BY <2>1, <3>1 DEF FiledInTime, Excused
    <3>3. today \in Int /\ date[x] \in Int /\ Retention \in Int /\ n \in Int
      BY <3>1, BoundsAssumption DEF TypeOK, Days
    <3> QED
      BY <3>1, <3>2, <3>3 DEF Outdated
  <2> QED
    BY <2>2, <2>3
<1> QED
  BY <1>5, <1>6, <1>7, <1>8, <1>10, <1>11, <1>12, <1>13

-----------------------------------------------------------------------------
LEMMA InitIInv == Init => IInv
<1> SUFFICES ASSUME Init PROVE IInv
  OBVIOUS
<1> USE DEF Init, NotClearing
<1>0. 1 \in Days /\ Base \in Names
  BY BoundsAssumption DEF Days, Names
<1>1. TypeOK /\ ClearType
  BY <1>0 DEF TypeOK, ClearType, Closed, InAppend
<1>2. NamesApart /\ HeldIsAccepted
  BY DEF NamesApart, HeldIsAccepted
<1>3. Past /\ DayKept /\ ClearTakesAll
  BY DEF Past, DayKept, ClearTakesAll, Clearing
<1>4. BaseInTime /\ AsideIsPast /\ FiledInTime /\ Kept
  BY DEF BaseInTime, AsideIsPast, FiledInTime, Kept, Holds
<1> QED
  BY <1>1, <1>2, <1>3, <1>4 DEF IInv

LEMMA NextIInv == IInv /\ [Next]_vars => IInv'
<1> SUFFICES ASSUME IInv, [Next]_vars PROVE IInv'
  OBVIOUS
<1>1. ASSUME NEW e \in Entries, Make(e) PROVE IInv'
  BY <1>1, MakeStep
<1>2. ASSUME NEW e \in Entries, AppendStep(e) PROVE IInv'
  BY <1>2, BeginAppendStep, CloseBaseStep, RenameBaseStep, PruneOldStep, ReopenBaseStep,
     InstallBaseStep, RotateFailsStep, WriteBaseStep, WriteDatedStep, WriteFailsStep
     DEF AppendStep
<1>3. CASE ClearFails
  BY <1>3, ClearEndsStep DEF ClearFails, history
<1>4. CASE ClearAll
  BY <1>3, <1>4, ClearStartsStep, ClearOpensStep, ClearInstallsStep, ClearSetsDateStep,
     ClearRemovesStep DEF ClearAll
<1>5. CASE Midnight \/ Restart
  BY <1>5, MidnightStep, RestartStep
<1>6. CASE UNCHANGED vars
  BY <1>6 DEF vars, IInv, TypeOK, ClearType, NamesApart, HeldIsAccepted, Past, DayKept,
     ClearTakesAll, Clearing, Made, BaseInTime, AsideIsPast, BetweenDays, Holds, Excused,
     FiledInTime, Kept, OnDisk, Outdated
<1> QED
  BY <1>1, <1>2, <1>4, <1>5, <1>6 DEF Next

\* The inductive invariant holds of every state the ledger can be in.
LEMMA Invariance == Spec => []IInv
BY InitIInv, NextIInv, PTL DEF Spec

\* The state is well typed, and at most one append is inside the mutex
\* (ledger.rs:44-60), whatever the number of entries and days.
THEOREM TypeCorrect == Spec => []TypeOK
<1>1. IInv => TypeOK
  BY DEF IInv
<1> QED
  BY <1>1, Invariance, PTL

\* An entry append has accepted stays in the log until its time is over or the log
\* is cleared, whatever fails, whoever clears and whenever the process restarts.
THEOREM EntriesKept == Spec => []Kept
<1>1. IInv => Kept
  BY DEF IInv
<1> QED
  BY <1>1, Invariance, PTL

\* A rotated file holds nothing later than the day it is named for.
THEOREM FilesInTime == Spec => []FiledInTime
<1>1. IInv => FiledInTime
  BY DEF IInv
<1> QED
  BY <1>1, Invariance, PTL
=============================================================================
