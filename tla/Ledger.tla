-------------------------------- MODULE Ledger --------------------------------
(***************************************************************************)
(* ledger.rs: the audit log.  Entries go to a base file that is put aside   *)
(* under the day it stands for when an entry of a later day comes; expired  *)
(* files are pruned; the dashboard may clear everything meanwhile; midnight *)
(* passes, operations fail, and the process restarts.                       *)
(*                                                                         *)
(* append holds the current_date mutex from start to end, so appends do not *)
(* overlap; clear_all takes the file mutex for moments only and overlaps    *)
(* with anything.  A name in the directory leads to a file (an inode), and  *)
(* an open handle keeps leading to it when the name goes.                   *)
(***************************************************************************)
EXTENDS Integers, Sequences, SequencesExt, FiniteSets

CONSTANTS Entries,      \* the entries handlers write, one append each
          MaxDay,       \* bound: days that pass
          Retention,    \* ledger_retention_days
          MaxFailures,  \* bound: operations on files that fail
          MaxClears, MaxRestarts   \* bounds

Days == 1..MaxDay
Base == 0               \* the name of the base file; a day names a rotated one
Names == {Base} \cup Days
Closed == 0             \* no open file

ASSUME BoundsAssumption ==
    /\ MaxDay \in Nat \ {0} /\ Retention \in Nat
    /\ MaxFailures \in Nat /\ MaxClears \in Nat /\ MaxRestarts \in Nat

VARIABLES today,        \* local_date(Utc::now())
          dir,          \* the directory: names to files
          content,      \* the entries in each file
          handle,       \* Ledger.file
          current,      \* Ledger.current_date
          fresh,        \* the base file rotate_to has opened
          at,           \* how far each entry's append has come
          date,         \* local_date(entry.ts)
          clear,        \* how far clear_all has come
          failures, clears, restarts,
          wiped,        \* history: entries made before or while a clear ran
          astray        \* history: entries accepted while the open file, if
                        \* any, was not the base file

vars == <<today, dir, content, handle, current, fresh, at, date, clear,
          failures, clears, restarts, wiped, astray>>

bounds == <<failures, clears, restarts>>
history == <<wiped, astray>>

NotClearing == [at |-> "idle", doomed |-> {}, file |-> Closed, today |-> 1]

-----------------------------------------------------------------------------
(* The directory                                                           *)

Exists(name) == name \in DOMAIN dir

\* A new name for a new, empty file, unless the name is there.
Opened(names, name) ==
    IF name \in DOMAIN names THEN names
    ELSE [n \in DOMAIN names \cup {name} |->
            IF n = name THEN Len(content) + 1 ELSE names[n]]

OpenContent(names, name) ==
    IF name \in DOMAIN names THEN content ELSE Append(content, {})

Without(names, gone) == [n \in DOMAIN names \ gone |-> names[n]]

\* fs::rename: what had the new name is gone.
Renamed(names, old, new) ==
    [n \in (DOMAIN names \ {old}) \cup {new} |->
        IF n = new THEN names[old] ELSE names[n]]

Expired(names) == {d \in DOMAIN names \ {Base} : today - d > Retention}

Written(file, e) == [content EXCEPT ![file] = @ \cup {e}]

HandleIsBase == Exists(Base) /\ handle = dir[Base]

Fail == failures < MaxFailures /\ failures' = failures + 1

-----------------------------------------------------------------------------
Init ==
    /\ today = 1
    /\ dir = [n \in {Base} |-> 1]
    /\ content = <<{}>>
    /\ handle = 1
    /\ current = 1
    /\ fresh = Closed
    /\ at = [e \in Entries |-> "unmade"]
    /\ date = [e \in Entries |-> 1]
    /\ clear = NotClearing
    /\ failures = 0 /\ clears = 0 /\ restarts = 0
    /\ wiped = {}
    /\ astray = {}

Clearing == clear.at # "idle"
Touched(e) == wiped' = IF Clearing THEN wiped \cup {e} ELSE wiped

\* A handler makes its entry; when it appends it, midnight may have passed.
Make(e) ==
    /\ at[e] = "unmade"
    /\ at' = [at EXCEPT ![e] = "made"]
    /\ date' = [date EXCEPT ![e] = today]
    /\ Touched(e)
    /\ UNCHANGED <<today, dir, content, handle, current, fresh, clear, bounds, astray>>

\* Who holds the current_date mutex.
InAppend == {"rotate", "rename", "prune", "reopen", "install", "base", "dated"}
Appending == \E e \in Entries : at[e] \in InAppend

Goto(e, place) == at' = [at EXCEPT ![e] = place]

\* Mistaken: an entry of an earlier day rotates too.
Branch_AnyOtherDay(e) == IF date[e] # current THEN "rotate" ELSE "base"

Branch(e) ==
    IF date[e] > current THEN "rotate"
    ELSE IF date[e] < current THEN "dated" ELSE "base"

\* Mistaken: without the mutex.
BeginAppend_Unlocked(e) ==
    /\ at[e] = "made"
    /\ Goto(e, Branch(e))
    /\ UNCHANGED <<today, dir, content, handle, current, fresh, date, clear, bounds, history>>

BeginAppend(e) ==
    /\ at[e] = "made"
    /\ ~ Appending
    /\ Goto(e, Branch(e))
    /\ UNCHANGED <<today, dir, content, handle, current, fresh, date, clear, bounds, history>>

\* rotate_to: the file is closed...
CloseBase(e) ==
    /\ at[e] = "rotate"
    /\ handle' = Closed
    /\ Goto(e, "rename")
    /\ UNCHANGED <<today, dir, content, current, fresh, date, clear, bounds, history>>

\* ... renamed to the day it stands for, if it is there...
RenameBase(e) ==
    /\ at[e] = "rename"
    /\ dir' = IF Exists(Base) THEN Renamed(dir, Base, current) ELSE dir
    /\ Goto(e, "prune")
    /\ UNCHANGED <<today, content, handle, current, fresh, date, clear, bounds, history>>

\* ... expired files are removed...
PruneOld(e) ==
    /\ at[e] = "prune"
    /\ dir' = Without(dir, Expired(dir))
    /\ Goto(e, "reopen")
    /\ UNCHANGED <<today, content, handle, current, fresh, date, clear, bounds, history>>

\* ... a new base file is opened...
ReopenBase(e) ==
    /\ at[e] = "reopen"
    /\ dir' = Opened(dir, Base)
    /\ content' = OpenContent(dir, Base)
    /\ fresh' = dir'[Base]
    /\ Goto(e, "install")
    /\ UNCHANGED <<today, handle, current, date, clear, bounds, history>>

\* Mistaken: the day is not moved on.
InstallBase_SameDay(e) ==
    /\ at[e] = "install"
    /\ handle' = fresh
    /\ fresh' = Closed
    /\ Goto(e, "base")
    /\ UNCHANGED <<today, dir, content, current, date, clear, bounds, history>>

\* ... and is the ledger's file from now on.
InstallBase(e) ==
    /\ at[e] = "install"
    /\ handle' = fresh
    /\ fresh' = Closed
    /\ current' = date[e]
    /\ Goto(e, "base")
    /\ UNCHANGED <<today, dir, content, date, clear, bounds, history>>

\* Rename, prune and reopen may fail and leave the ledger without a file; append
\* returns the error.  prune_old may have removed some of the files.
RotateFails(e) ==
    /\ at[e] \in {"rename", "prune", "reopen"}
    /\ Fail
    /\ \/ UNCHANGED dir
       \/ /\ at[e] = "prune"
          /\ \E d \in Expired(dir) : dir' = Without(dir, {d})
    /\ Goto(e, "error")
    /\ UNCHANGED <<today, content, handle, current, fresh, date, clear, clears, restarts, history>>

\* The entry is written - or not, when there is no file: append says Ok.
WriteBase(e) ==
    /\ at[e] = "base"
    /\ content' = IF handle = Closed THEN content ELSE Written(handle, e)
    /\ astray' = IF HandleIsBase THEN astray ELSE astray \cup {e}
    /\ Goto(e, "ok")
    /\ UNCHANGED <<today, dir, handle, current, fresh, date, clear, bounds, wiped>>

\* append_to: the file of the entry's own day.
WriteDated(e) ==
    /\ at[e] = "dated"
    /\ dir' = Opened(dir, date[e])
    /\ content' = [OpenContent(dir, date[e]) EXCEPT ![dir'[date[e]]] = @ \cup {e}]
    /\ Goto(e, "ok")
    /\ UNCHANGED <<today, handle, current, fresh, date, clear, bounds, history>>

WriteFails(e) ==
    /\ at[e] \in {"base", "dated"}
    /\ at[e] = "base" => handle # Closed
    /\ Fail
    /\ Goto(e, "error")
    /\ UNCHANGED <<today, dir, content, handle, current, fresh, date, clear, clears, restarts, history>>

-----------------------------------------------------------------------------
(* clear_all                                                               *)

Made == {e \in Entries : at[e] # "unmade"}

ClearStarts ==
    /\ ~ Clearing
    /\ clears < MaxClears
    /\ clears' = clears + 1
    /\ handle' = Closed
    /\ clear' = [NotClearing EXCEPT !.at = "remove", !.doomed = DOMAIN dir]
    /\ wiped' = wiped \cup Made
    /\ UNCHANGED <<today, dir, content, current, fresh, at, date, failures, restarts, astray>>

\* Removing a file that was renamed meanwhile is an error: the ledger is left
\* without a file, unless an append rotates.
ClearRemoves(name) ==
    /\ clear.at = "remove"
    /\ name \in clear.doomed
    /\ IF Exists(name)
       THEN /\ dir' = Without(dir, {name})
            /\ clear' = [clear EXCEPT !.doomed = @ \ {name}]
       ELSE /\ clear' = NotClearing
            /\ UNCHANGED dir
    /\ UNCHANGED <<today, content, handle, current, fresh, at, date, bounds, history>>

ClearFails ==
    /\ clear.at = "remove"
    /\ Fail
    /\ clear' = NotClearing
    /\ UNCHANGED <<today, dir, content, handle, current, fresh, at, date, clears, restarts, history>>

ClearOpens ==
    /\ clear.at = "remove"
    /\ clear.doomed = {}
    /\ dir' = Opened(dir, Base)
    /\ content' = OpenContent(dir, Base)
    /\ clear' = [clear EXCEPT !.at = "install", !.file = dir'[Base]]
    /\ UNCHANGED <<today, handle, current, fresh, at, date, bounds, history>>

ClearInstalls ==
    /\ clear.at = "install"
    /\ handle' = clear.file
    /\ clear' = [NotClearing EXCEPT !.at = "date", !.today = today]
    /\ UNCHANGED <<today, dir, content, current, fresh, at, date, bounds, history>>

\* The day was read before the mutex is taken.
ClearSetsDate ==
    /\ clear.at = "date"
    /\ ~ Appending
    /\ current' = clear.today
    /\ clear' = NotClearing
    /\ UNCHANGED <<today, dir, content, handle, fresh, at, date, bounds, history>>

-----------------------------------------------------------------------------
Midnight ==
    /\ today < MaxDay
    /\ today' = today + 1
    /\ UNCHANGED <<dir, content, handle, current, fresh, at, date, clear, bounds, history>>

\* The process ends and Ledger::new runs: the base file is taken for today's.
Restart ==
    /\ restarts < MaxRestarts
    /\ restarts' = restarts + 1
    /\ dir' = Without(Opened(dir, Base), Expired(dir))
    /\ content' = OpenContent(dir, Base)
    /\ handle' = dir'[Base]
    /\ current' = today
    /\ fresh' = Closed
    /\ at' = [e \in Entries |->
                IF at[e] \in {"unmade", "ok", "error"} THEN at[e] ELSE "error"]
    /\ clear' = NotClearing
    /\ UNCHANGED <<today, date, failures, clears, history>>

AppendStep(e) ==
    \/ BeginAppend(e) \/ CloseBase(e) \/ RenameBase(e) \/ PruneOld(e)
    \/ ReopenBase(e) \/ InstallBase(e) \/ RotateFails(e) \/ WriteBase(e) \/ WriteDated(e)
    \/ WriteFails(e)

ClearAll ==
    \/ ClearStarts \/ ClearFails \/ ClearOpens \/ ClearInstalls \/ ClearSetsDate
    \/ \E name \in Names : ClearRemoves(name)

Next ==
    \/ \E e \in Entries : Make(e) \/ AppendStep(e)
    \/ ClearAll
    \/ Midnight
    \/ Restart

Spec == Init /\ [][Next]_vars

\* A handler that has called append, or clear_all, is not suspended for ever:
\* both run on the runtime's threads without an await.
FairSpec ==
    /\ Spec
    /\ \A e \in Entries : WF_vars(AppendStep(e))
    /\ WF_vars(ClearAll /\ Clearing)

-----------------------------------------------------------------------------
(***************************************************************************)
(* Properties                                                              *)
(***************************************************************************)

OnDisk(e) == \E name \in DOMAIN dir : e \in content[dir[name]]

Outdated(e) == today - date[e] > Retention

\* The type invariant; one append at a time is inside the mutex.
TypeOK ==
    /\ today \in Days /\ current \in Days
    /\ DOMAIN dir \subseteq Names
    /\ \A n \in DOMAIN dir : dir[n] \in DOMAIN content
    /\ {handle, fresh, clear.file} \subseteq {Closed} \cup DOMAIN content
    /\ content \in Seq(SUBSET Entries)
    /\ at \in [Entries -> InAppend \cup {"unmade", "made", "ok", "error"}]
    /\ date \in [Entries -> Days]
    /\ \A e, f \in Entries : at[e] \in InAppend /\ at[f] \in InAppend => e = f
    /\ fresh # Closed <=> \E e \in Entries : at[e] = "install"

\* An entry append accepted stays in the log until it has outlived the retention
\* or the log was cleared: through rotations that fail half way, late entries,
\* midnights, races with the clearing of others, and restarts.  Those accepted
\* while no file, or a file put aside, was open are excepted: clear_all and a
\* rotation that fails leave the ledger so (ledger.rs:80-83).
Kept ==
    \A e \in Entries :
        at[e] = "ok" => OnDisk(e) \/ Outdated(e) \/ e \in wiped \/ e \in astray

\* A rotated file holds nothing later than the day it is named for: pruning goes
\* by the name, and so never takes an entry before its time.
FiledInTime ==
    \A d \in DOMAIN dir \ {Base} : \A e \in content[dir[d]] :
        date[e] <= d \/ e \in wiped \/ e \in astray

\* ARCHITECTURE.md: retention pruning after ledger_retention_days.  A process
\* that starts has no entry in its files that outlived the retention.
RetentionEnforced ==
    [][restarts' > restarts => \A e \in Entries : OnDisk(e)' => ~ Outdated(e)']_vars
=============================================================================
