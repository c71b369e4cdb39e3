---------------------------- MODULE LifecycleProofs ----------------------------
(***************************************************************************)
(* Proofs about Lifecycle, for any number of processes, commands, clicks    *)
(* and mishaps, and about Setup, whose wiring and unwrapping its commands   *)
(* and trays call.                                                          *)
(*                                                                         *)
(* Lifecycle's invariant has a part for what owns what, one for the trays'  *)
(* menus, and one for a `deectx stop` that nothing crosses.  Setup's has     *)
(* one for where the originals are, one for an unwrap nobody interferes      *)
(* with, and one for what Codex can read.                                    *)
(***************************************************************************)
EXTENDS Lifecycle, Setup, Lemmas

-----------------------------------------------------------------------------
(* The inductive invariant                                                 *)

ServerPlaces == {"none", "bind", "write", "serve", "drain"}
SrvState == [at : ServerPlaces, stop : BOOLEAN, ready : BOOLEAN]

MenuState ==
    [at : {"idle", "wire", "wait", "unwrap", "join"},
     shown : {"Stopped", "Active", "Warning"}, handle : {0, 1, 2}, next : {0, 1, 2},
     bound : BOOLEAN, toggled : BOOLEAN, quits : BOOLEAN]

CmdState ==
    [op : {"none", "start", "stop"},
     at : {"idle", "unwrap", "kill", "clear", "wire", "install", "spawn", "await",
           "uninstall"},
     seen : Processes \cup {Nobody}, warned : BOOLEAN]

Types ==
    /\ os \in Systems
    /\ proc \in [Processes -> {"none", "serve", "headless", "tray"}]
    /\ srv \in [Servers -> SrvState]
    /\ port \in Servers \cup {NoServer}
    /\ pidfile \in Processes \cup {Nobody}
    /\ job \in [state : {"none", "running", "restart", "down"}, pid : Processes \cup {Nobody}]
    /\ tray \in [Processes -> MenuState]
    /\ cmd \in CmdState
    /\ untold \subseteq Processes /\ surprised \subseteq Processes

\* Servers, the job and menus are of processes that are up; the port is that of the
\* one server which is bound; only a tray tells a server to stop.
Owned ==
    /\ \A s \in Servers : /\ srv[s].at # "none" => Owner(s) \in Up
                          /\ srv[s].stop => proc[Owner(s)] = "tray"
                          /\ s = port <=> s \in Bound
    /\ job.state = "running" <=> job.pid # Nobody
    /\ job.pid \in Up \cup {Nobody}
    /\ \A p \in Processes : tray[p] # NoTray => proc[p] = "tray"

\* A tray that waits: the server it started is another than its handle's, is not
\* told to stop, and its news, when it has come, are those of a server that is
\* bound, or they surprise.
Started(p) ==
    LET s == <<p, tray[p].next>>
    IN /\ s \in Servers /\ tray[p].next # tray[p].handle
       /\ ~ srv[s].stop
       /\ At(s, "bind") => ~ srv[s].ready
       /\ s \in Bound => srv[s].ready
       /\ p \notin surprised /\ srv[s].ready => s \in Bound

\* A tray at rest: nobody tells its server to stop, nor is it late, or it surprises.
Rests(p) ==
    /\ tray[p].handle # 0 => ~ srv[Handle(p)].stop
    /\ p \notin surprised =>
        /\ tray[p].handle # 0 => ~ At(Handle(p), "bind")
        /\ tray[p].shown = "Active" <=> tray[p].handle # 0 /\ Handle(p) \in Bound

MenuRight(p) ==
    /\ tray[p].at = "wait" => Started(p)
    /\ tray[p].at = "idle" => Rests(p)
    /\ tray[p].at \in {"unwrap", "join"} => tray[p].handle # 0
    /\ tray[p].at = "join" => tray[p].shown # "Active"

Menus == \A p \in Processes : MenuRight(p)

\* Linux has no tray; on Windows the login, once, is all the service manager does.
Platform ==
    /\ os = "linux" => \A p \in Processes : proc[p] \in {"none", "serve"}
    /\ os = "windows" => job.state \in {"none", "restart"}

Stages ==
    /\ cmd.op = "stop" => cmd.at \in {"unwrap", "kill", "clear", "uninstall", "idle"}
    /\ cmd.op = "none" => cmd.at = "idle"

Solid == Types /\ Owned /\ PidfileTruth /\ Menus /\ Platform /\ Stages

\* A server that does not outlive the stop: the unit's, which goes with the unit, or
\* one that serves and is named in the pidfile, which is killed.
Units(s) == os = "linux" /\ Owner(s) = job.pid /\ ~ At(s, "drain")

Harmless(s) ==
    \/ At(s, "none")
    \/ Units(s) /\ cmd.at # "idle"
    \/ /\ At(s, "serve") /\ ~ srv[s].stop /\ pidfile = Owner(s)
       /\ cmd.at \in {"unwrap", "kill"}

\* A stop that nothing has crossed: what each of its steps leaves to the next.
Undisturbed ==
    /\ \A p \in Processes : tray[p].at = "idle"
    /\ job.state = "restart" => os = "linux" /\ cmd.at # "idle"
    /\ \A s \in Servers : Harmless(s)
    /\ cmd.at # "unwrap" => ~ wired
    /\ cmd.at = "idle" => ~ enabled /\ job.pid = Nobody

Stops == cmd.op = "stop" /\ calm /\ os # "macos"
Stopping == Stops => Undisturbed

IInv == Solid /\ Stopping

-----------------------------------------------------------------------------
(* Servers and their owners                                                *)

LEMMA Ranges ==
    /\ Processes \subseteq Nat /\ Nobody \notin Processes
    /\ \A s \in Servers : Owner(s) \in Processes /\ s[2] \in Slots /\ s = <<Owner(s), s[2]>>
    /\ \A p \in Processes : \A i \in Slots : <<p, i>> \in Servers /\ Owner(<<p, i>>) = p
    /\ \A p \in Processes : <<p, 0>> \notin Servers
    /\ NoServer \notin Servers /\ Owner(NoServer) = Nobody
BY BoundsAssumption DEF Processes, Nobody, Servers, Slots, Owner, NoServer

LEMMA FreeMin ==
    ASSUME Types, Free # {}
    PROVE  Min(Free) \in Free
<1>1. Free \in SUBSET (0..MaxProcesses)
  BY DEF Free, Processes
<1> HIDE DEF Free
<1> QED
  BY <1>1, MinOfBounded, BoundsAssumption

\* A process that comes is typed, and touches nobody else's state.
Came(p, kind) ==
    /\ p \in Processes \ Up /\ p # pidfile /\ p # cmd.seen /\ p # job.pid
    /\ proc' \in [Processes -> {"none", "serve", "headless", "tray"}]
    /\ proc' = [proc EXCEPT ![p] = kind]
    /\ srv' \in [Servers -> SrvState]
    /\ \A s \in Servers : s # <<p, 1>> \/ kind = "tray" => srv'[s] = srv[s]
    /\ kind # "tray" => /\ srv'[<<p, 1>>].at = "bind" /\ ~ srv'[<<p, 1>>].stop
                        /\ tray' = tray
    /\ tray' \in [Processes -> MenuState]
    /\ \A q \in Processes : q # p => tray'[q] = tray[q]
    /\ kind = "tray" => tray'[p].at = "wire"
    /\ untold' = untold \ {p} /\ surprised' = surprised \ {p}

LEMMA LaunchedEffect ==
    ASSUME Types, NEW p \in Free, NEW kind \in {"serve", "tray", "headless"}, Launched(p, kind)
    PROVE  Came(p, kind)
<1>1. p \in Processes \ Up /\ p # pidfile /\ p # cmd.seen /\ p # job.pid
  BY DEF Free
<1>2. <<p, 1>> \in Servers
  BY <1>1, Ranges DEF Slots
<1> QED
  BY <1>1, <1>2 DEF Launched, Binds, NoSrv, NoTray, Types, ServerPlaces, SrvState, Came, MenuState

\* What goes takes its servers, its menu and its port along.
Went(gone, j) ==
    /\ proc' \in [Processes -> {"none", "serve", "headless", "tray"}]
    /\ srv' \in [Servers -> SrvState]
    /\ tray' \in [Processes -> MenuState]
    /\ port' \in Servers \cup {NoServer}
    /\ \A p \in gone : proc'[p] = "none" /\ tray'[p] = NoTray
    /\ \A p \in Processes \ gone : proc'[p] = proc[p] /\ tray'[p] = tray[p]
    /\ \A s \in Servers : Owner(s) \in gone => srv'[s] = NoSrv
    /\ \A s \in Servers : Owner(s) \notin gone => srv'[s] = srv[s]
    /\ \A s \in Servers : s = port' <=> s = port /\ Owner(s) \notin gone
    /\ job' = j
    /\ Up' = Up \ gone

LEMMA EndedEffect ==
    ASSUME Types, NEW gone \in SUBSET Processes, NEW j, Ended(gone, j)
    PROVE  Went(gone, j)
<1>1. NoSrv \in SrvState /\ NoSrv.at = "none"
  BY DEF NoSrv, ServerPlaces, SrvState
<1>2. NoTray \in MenuState
  BY DEF NoTray, MenuState
<1> HIDE DEF NoSrv, NoTray
<1>3. tray \in [Processes -> MenuState]
  BY DEF Types
<1> QED
  BY <1>1, <1>2, <1>3, Ranges DEF Ended, Types, Up, Went

-----------------------------------------------------------------------------
(* Processes that come and go keep the parts of the invariant              *)

\* A job names a process that is up, unless it does not run.
JobSound(j, up) ==
    /\ j \in [state : {"none", "running", "restart", "down"}, pid : Processes \cup {Nobody}]
    /\ j.state = "running" <=> j.pid # Nobody
    /\ j.pid \in up \cup {Nobody}

LEMMA NoJobSound ==
    ASSUME NEW up, NEW state \in {"none", "restart", "down"}
    PROVE  JobSound([state |-> state, pid |-> Nobody], up)
BY DEF JobSound

LEMMA JobWithoutSound ==
    ASSUME Types, Owned, Platform, NEW gone \in SUBSET Processes, NEW failed \in BOOLEAN
    PROVE  LET j == JobWithout(gone, failed)
           IN /\ JobSound(j, Up \ gone)
              /\ j.pid \in {job.pid, Nobody} \ gone
              /\ os = "windows" => j = job
              /\ j = job \/ (job.pid \in gone /\ j.pid = Nobody)
              /\ ~ failed /\ os = "linux" => j = job \/ j.state = "down"
<1>1. Nobody \notin gone
  BY Ranges
<1>2. CASE job.pid \notin gone
  BY <1>1, <1>2 DEF JobWithout, JobSound, Types, Owned
<1>3. CASE job.pid \in gone
  <2>1. job.pid # Nobody /\ os # "windows"
    BY <1>1, <1>3 DEF Owned, Platform
  <2>2. \A state \in {"restart", "down"} :
            JobSound([state |-> state, pid |-> Nobody], Up \ gone)
    BY NoJobSound
  <2> QED
    BY <1>1, <1>3, <2>1, <2>2 DEF JobWithout
<1> QED
  BY <1>2, <1>3

\* A menu is right as long as nothing it looks at changes.
LEMMA MenuFrame ==
    ASSUME Types, NEW p \in Processes, MenuRight(p), tray'[p] = tray[p],
           \A i \in Slots : srv'[<<p, i>>] = srv[<<p, i>>],
           p \in surprised' <=> p \in surprised
    PROVE  MenuRight(p)'
<1>1. tray[p].handle \in {0, 1, 2} /\ tray[p].next \in {0, 1, 2}
  BY DEF Types, MenuState
<1>2. tray[p].at = "wait" => Started(p)'
  <2>1. SUFFICES ASSUME tray[p].at = "wait" PROVE Started(p)'
    OBVIOUS
  <2>2. Started(p) /\ <<p, tray[p].next>> \in Servers /\ tray[p].next \in Slots
    BY <1>1, <2>1, Ranges DEF MenuRight, Started, Slots
  <2> QED
    BY <2>2 DEF Started, At, Bound
<1>3. tray[p].at = "idle" => Rests(p)'
  <2>1. SUFFICES ASSUME tray[p].at = "idle" PROVE Rests(p)'
    OBVIOUS
  <2>2. Rests(p) /\ tray[p].handle \in Slots \cup {0}
    BY <1>1, <2>1 DEF MenuRight, Slots
  <2> QED
    BY <2>2, Ranges DEF Rests, At, Bound, Handle
<1> QED
  BY <1>2, <1>3 DEF MenuRight

LEMMA EndedKeeps ==
    ASSUME Types, Owned, Menus, NEW gone \in SUBSET Processes, NEW j, Ended(gone, j),
           JobSound(j, Up \ gone), surprised' \subseteq Processes,
           \A p \in Processes \ gone : p \in surprised' <=> p \in surprised
    PROVE  Owned' /\ Menus'
<1>e. Went(gone, j)
  BY EndedEffect
<1>0. NoSrv.at = "none" /\ ~ NoSrv.stop /\ NoTray.at = "idle" /\ NoTray.handle = 0
      /\ NoTray.shown = "Stopped"
  BY DEF NoSrv, NoTray
<1> HIDE DEF NoSrv, NoTray
<1>1. Owned'
  <2>1. ASSUME NEW s \in Servers
        PROVE  /\ srv'[s].at # "none" => Owner(s) \in Up'
               /\ srv'[s].stop => proc'[Owner(s)] = "tray"
               /\ s = port' <=> srv'[s].at \in {"write", "serve"}
    BY <1>0, <1>e, Ranges, ZenonT(60) DEF Owned, Bound, Went, SrvState
  <2>2. ASSUME NEW p \in Processes, tray'[p] # NoTray PROVE proc'[p] = "tray"
    BY <2>2, <1>e DEF Owned, Went
  <2>3. job'.state = "running" <=> job'.pid # Nobody
    BY <1>e DEF JobSound, Went
  <2>4. job'.pid \in Up' \cup {Nobody}
    BY <1>e DEF JobSound, Went
  <2> QED
    BY <2>1, <2>2, <2>3, <2>4 DEF Owned, Bound
<1>2. Menus'
  <2>1. ASSUME NEW p \in gone PROVE tray'[p] = NoTray
    BY <1>e DEF Went
  <2>2. ASSUME NEW p \in Processes \ gone
        PROVE  tray'[p] = tray[p] /\ \A i \in Slots : srv'[<<p, i>>] = srv[<<p, i>>]
    BY <1>e, Ranges DEF Went
  <2>3. ASSUME NEW p \in Processes
        PROVE  MenuRight(p)'
    <3>1. CASE p \in gone
      BY <1>0, <2>1, <3>1 DEF MenuRight, Started, Rests
    <3>2. CASE p \notin gone
      BY <2>2, <3>2, MenuFrame DEF Menus
    <3> QED
      BY <3>1, <3>2
  <2> QED
    BY <2>3 DEF Menus
<1> QED
  BY <1>1, <1>2

\* A server keeps the pidfile right while it keeps its place and its owner.
LEMMA EndedKeepsPidfile ==
    ASSUME Types, Owned, PidfileTruth, NEW gone \in SUBSET Processes, NEW j, Ended(gone, j),
           pidfile' = pidfile, untold' = untold
    PROVE  PidfileTruth'
<1>e. Went(gone, j)
  BY EndedEffect
<1>0. NoSrv.at = "none"
  BY DEF NoSrv
<1> HIDE DEF NoSrv
<1>1. ASSUME NEW s \in Servers, srv'[s].at = "serve"
      PROVE  pidfile' = Owner(s) \/ Owner(s) \in untold'
  BY <1>0, <1>1, <1>e DEF PidfileTruth, At, Went
<1>2. ASSUME pidfile' \in Up'
      PROVE  \E s \in ServersOf(pidfile') : srv'[s].at \in {"serve", "drain"}
  <2>1. pidfile \in Up /\ pidfile \notin gone /\ pidfile \in Processes
    BY <1>2, <1>e DEF Up, Went
  <2>2. PICK s \in ServersOf(pidfile) : srv[s].at \in {"serve", "drain"}
    BY <2>1 DEF PidfileTruth
  <2>3. s \in Servers /\ Owner(s) = pidfile
    BY <2>1, <2>2, Ranges DEF ServersOf
  <2>4. srv'[s] = srv[s]
    BY <2>1, <2>3, <1>e DEF Went
  <2> QED
    BY <2>2, <2>4
<1> QED
  BY <1>1, <1>2 DEF PidfileTruth, At

LEMMA LaunchedKeeps ==
    ASSUME Types, Owned, PidfileTruth, Menus, NEW p \in Free,
           NEW kind \in {"serve", "tray", "headless"}, Launched(p, kind),
           port' = port, pidfile' = pidfile, JobSound(job', Up')
    PROVE  Owned' /\ PidfileTruth' /\ Menus'
<1>e. Came(p, kind)
  BY LaunchedEffect
<1>0. /\ p \in Processes \ Up /\ Up' = Up \cup {p}
      /\ \A s \in Servers : Owner(s) = p => srv[s].at = "none"
      /\ proc[p] = "none"
  BY <1>e DEF Up, Owned, Types, Came
<1>1. ASSUME NEW s \in Servers, Owner(s) # p PROVE srv'[s] = srv[s]
  BY <1>0, <1>1, <1>e, Ranges DEF Slots, Came
<1>2. ASSUME NEW s \in Servers, Owner(s) = p
      PROVE  srv'[s].at \in {"none", "bind"} /\ ~ srv'[s].stop
  <2>1. ~ srv[s].stop
    BY <1>0, <1>2 DEF Owned
  <2> QED
    BY <1>0, <1>2, <2>1, <1>e DEF Came
<1>3. Owned'
  <2>1. ASSUME NEW s \in Servers
        PROVE  /\ srv'[s].at # "none" => Owner(s) \in Up'
               /\ srv'[s].stop => proc'[Owner(s)] = "tray"
               /\ s = port' <=> srv'[s].at \in {"write", "serve"}
    <3>1. CASE Owner(s) = p
      BY <1>0, <1>2, <3>1 DEF Owned, Bound
    <3>2. CASE Owner(s) # p
      BY <1>0, <1>1, <3>2, <1>e, Ranges DEF Owned, Bound, Types, Came
    <3> QED
      BY <3>1, <3>2
  <2>2. ASSUME NEW q \in Processes, tray'[q] # NoTray PROVE proc'[q] = "tray"
    <3> HIDE DEF NoTray
    <3>1. CASE q = p
      BY <1>0, <2>2, <3>1, <1>e DEF Owned, Types, Came
    <3>2. CASE q # p
      BY <1>0, <2>2, <3>2, <1>e DEF Owned, Types, Came
    <3> QED
      BY <3>1, <3>2
  <2>3. job'.state = "running" <=> job'.pid # Nobody
    BY DEF JobSound
  <2>4. job'.pid \in Up' \cup {Nobody}
    BY DEF JobSound
  <2> QED
    BY <2>1, <2>2, <2>3, <2>4 DEF Owned, Bound
<1>4. PidfileTruth'
  <2>1. ASSUME NEW s \in Servers, srv'[s].at = "serve"
        PROVE  pidfile' = Owner(s) \/ Owner(s) \in untold'
    <3>1. Owner(s) # p
      BY <1>2, <2>1
    <3> QED
      BY <1>1, <2>1, <3>1, <1>e DEF PidfileTruth, At, Came
  <2>2. ASSUME pidfile' \in Up'
        PROVE  \E s \in ServersOf(pidfile') : srv'[s].at \in {"serve", "drain"}
    <3>1. pidfile \in Up /\ pidfile # p /\ pidfile \in Processes
      BY <1>0, <2>2, <1>e DEF Up, Came
    <3>2. PICK s \in ServersOf(pidfile) : srv[s].at \in {"serve", "drain"}
      BY <3>1 DEF PidfileTruth
    <3>3. s \in Servers /\ Owner(s) = pidfile
      BY <3>1, <3>2, Ranges DEF ServersOf
    <3> QED
      BY <1>1, <3>1, <3>2, <3>3
  <2> QED
    BY <2>1, <2>2 DEF PidfileTruth, At
<1>5. Menus'
  <2>1. ASSUME NEW q \in Processes
        PROVE  MenuRight(q)'
    <3>0. NoTray.at = "idle" /\ NoTray.handle = 0 /\ NoTray.shown = "Stopped"
      BY DEF NoTray
    <3> HIDE DEF NoTray
    <3>1. CASE q = p
      <4>1. tray[p] = NoTray
        BY <1>0 DEF Owned
      <4>2. CASE kind = "tray"
        BY <3>1, <4>2, <1>e DEF Came, MenuRight
      <4>3. CASE kind # "tray"
        BY <3>0, <3>1, <4>1, <4>3, <1>e DEF MenuRight, Rests, Came
      <4> QED
        BY <4>2, <4>3
    <3>2. CASE q # p
      <4>1. tray'[q] = tray[q] /\ (q \in surprised' <=> q \in surprised)
        BY <1>e, <3>2 DEF Came
      <4>2. \A i \in Slots : srv'[<<q, i>>] = srv[<<q, i>>]
        BY <1>1, <3>2, Ranges
      <4> QED
        BY <4>1, <4>2, MenuFrame DEF Menus
    <3> QED
      BY <3>1, <3>2
  <2> QED
    BY <2>1 DEF Menus
<1> QED
  BY <1>3, <1>4, <1>5

-----------------------------------------------------------------------------
(* Each step keeps all but the part about `deectx stop`                    *)

LEMMA EndedStep ==
    ASSUME Solid, NEW gone \in SUBSET Processes, NEW j, Ended(gone, j),
           JobSound(j, Up \ gone), os = "windows" => j.state \in {"none", "restart"},
           surprised' \subseteq Processes,
           \A p \in Processes \ gone : p \in surprised' <=> p \in surprised,
           UNCHANGED <<os, pidfile, untold>>, cmd' \in CmdState, Stages'
    PROVE  Solid'
<1> USE DEF Solid
<1>1. Went(gone, j)
  BY EndedEffect
<1>2. Types'
  BY <1>1 DEF Types, Went, JobSound
<1>3. Owned' /\ Menus'
  BY EndedKeeps
<1>4. PidfileTruth'
  BY EndedKeepsPidfile
<1>5. Platform'
  BY <1>1 DEF Platform, Went
<1> QED
  BY <1>2, <1>3, <1>4, <1>5

LEMMA LaunchedStep ==
    ASSUME Solid, NEW p \in Free, NEW kind \in Kinds, Launched(p, kind),
           JobSound(job', Up'), os = "windows" => job'.state \in {"none", "restart"},
           UNCHANGED <<os, pidfile, port>>, cmd' \in CmdState, Stages'
    PROVE  Solid'
<1> USE DEF Solid
<1>1. kind \in {"serve", "tray", "headless"} /\ (os = "linux" => kind = "serve")
  BY DEF Kinds
<1>2. Came(p, kind)
  BY <1>1, LaunchedEffect
<1>3. Types'
  BY <1>2 DEF Types, Came, JobSound
<1>4. Owned' /\ Menus' /\ PidfileTruth'
  BY <1>1, LaunchedKeeps
<1>5. Platform'
  BY <1>1, <1>2 DEF Platform, Came
<1> QED
  BY <1>3, <1>4, <1>5

LEMMA CrashKeeps ==
    ASSUME Solid, NEW p \in Processes, Crash(p)
    PROVE  Solid'
<1>1. /\ {p} \in SUBSET Processes /\ Ended({p}, JobWithout({p}, TRUE))
      /\ UNCHANGED <<os, pidfile, untold, surprised, cmd>>
  BY DEF Crash, outside
<1>2. /\ JobSound(JobWithout({p}, TRUE), Up \ {p})
      /\ os = "windows" => JobWithout({p}, TRUE) = job
  BY <1>1, JobWithoutSound DEF Solid
<1>3. cmd' \in CmdState /\ Stages' /\ surprised' \subseteq Processes
  BY <1>1 DEF Solid, Types, Stages
<1> QED
  BY <1>1, <1>2, <1>3, EndedStep DEF Solid, Platform

LEMMA RebootKeeps ==
    ASSUME Solid, Reboot
    PROVE  Solid'
<1> DEFINE j == IF ~ enabled THEN NoJob ELSE [state |-> "restart", pid |-> Nobody]
<1>1. /\ Up \in SUBSET Processes /\ Ended(Up, j)
      /\ UNCHANGED <<os, pidfile, untold, surprised>> /\ cmd' = NoCmd
  BY DEF Reboot, outside, Up
<1>2. JobSound(j, Up \ Up) /\ j.state \in {"none", "restart"}
  BY NoJobSound DEF NoJob
<1>3. cmd' \in CmdState /\ Stages' /\ surprised' \subseteq Processes
  BY <1>1 DEF Solid, Types, Stages, NoCmd, CmdState
<1> HIDE DEF j
<1> QED
  BY <1>1, <1>2, <1>3, EndedStep

LEMMA RestartKeeps ==
    ASSUME Solid, Restart
    PROVE  Solid'
<1>0. /\ UNCHANGED <<os, pidfile, port, cmd>> /\ cmd' \in CmdState /\ Stages'
      /\ job.state = "restart" /\ job.pid = Nobody
  BY DEF Restart, Solid, Types, Stages, outside, Owned
<1>1. ASSUME Free # {}, NEW kind \in Kinds, Launched(Min(Free), kind),
             job' = IF os = "windows" THEN NoJob
                    ELSE [state |-> "running", pid |-> Min(Free)]
      PROVE  Solid'
  <2>1. Min(Free) \in Free /\ kind \in {"serve", "tray", "headless"}
    BY <1>1, FreeMin DEF Solid, Kinds
  <2>2. Came(Min(Free), kind)
    BY <1>1, <2>1, LaunchedEffect DEF Solid
  <2>3. Min(Free) \in Up' /\ Min(Free) \in Processes \ {Nobody}
    BY <2>1, <2>2, Ranges DEF Came, Up, Solid, Types
  <2>4. JobSound(job', Up')
    BY <1>1, <2>3 DEF JobSound, NoJob
  <2>5. os = "windows" => job'.state \in {"none", "restart"}
    BY <1>1 DEF NoJob
  <2> QED
    BY <1>0, <1>1, <2>1, <2>4, <2>5, LaunchedStep
<1>2. ASSUME os = "linux", job' = [state |-> "down", pid |-> Nobody],
             UNCHANGED <<proc, srv, tray, untold, surprised>>
      PROVE  Solid'
  <2>1. Types'
    BY <1>0, <1>2 DEF Solid, Types
  <2>2. Owned'
    BY <1>0, <1>2 DEF Solid, Owned, Up, Bound
  <2>3. PidfileTruth'
    BY <1>0, <1>2 DEF Solid, PidfileTruth, At, Up
  <2>4. Menus'
    BY <1>2 DEF Solid, Menus, MenuRight, Started, Rests, Handle, At, Bound
  <2>5. Platform'
    BY <1>0, <1>2 DEF Solid, Platform
  <2> QED
    BY <1>0, <2>1, <2>2, <2>3, <2>4, <2>5 DEF Solid
<1> QED
  BY <1>1, <1>2 DEF Restart

LEMMA QuitKeeps ==
    ASSUME Solid, NEW p \in Processes, Quit(p)
    PROVE  Solid'
<1>0. /\ UNCHANGED <<os, pidfile, untold, surprised, cmd>>
      /\ cmd' \in CmdState /\ Stages' /\ surprised' \subseteq Processes
  BY DEF Quit, Solid, Types, Stages, outside
<1>1. CASE IsRunning(p)
  <2>1. /\ tray' = [tray EXCEPT ![p].at = "unwrap", ![p].quits = TRUE]
        /\ UNCHANGED <<proc, srv, port, job>>
        /\ tray[p].handle # 0 /\ TrayAt(p, "idle")
    BY <1>1 DEF Quit, IsRunning
  <2>2. /\ tray' \in [Processes -> MenuState]
        /\ \A q \in Processes : q # p => tray'[q] = tray[q]
        /\ tray'[p].at = "unwrap" /\ tray'[p].handle # 0
    <3>1. tray \in [Processes -> MenuState] /\ tray[p] \in MenuState
      BY DEF Solid, Types
    <3>2. tray' = [tray EXCEPT ![p] = [tray[p] EXCEPT !.at = "unwrap", !.quits = TRUE]]
      BY <2>1, <3>1
    <3>3. /\ [tray[p] EXCEPT !.at = "unwrap", !.quits = TRUE] \in MenuState
          /\ [tray[p] EXCEPT !.at = "unwrap", !.quits = TRUE].at = "unwrap"
          /\ [tray[p] EXCEPT !.at = "unwrap", !.quits = TRUE].handle = tray[p].handle
      BY <3>1 DEF MenuState
    <3> QED
      BY <2>1, <3>1, <3>2, <3>3
  <2>3. Types'
    BY <1>0, <2>1, <2>2 DEF Solid, Types
  <2>4. Owned'
    BY <1>0, <2>1, <2>2 DEF Solid, Owned, Up, Bound, TrayAt
  <2>5. PidfileTruth'
    BY <1>0, <2>1 DEF Solid, PidfileTruth, At, Up
  <2>6. Menus'
    <3>1. MenuRight(p)'
      BY <2>2 DEF MenuRight
    <3>2. ASSUME NEW q \in Processes, q # p PROVE MenuRight(q)'
      BY <1>0, <2>1, <2>2, <3>2, MenuFrame DEF Solid, Menus
    <3> QED
      BY <3>1, <3>2 DEF Menus
  <2>7. Platform'
    BY <1>0, <2>1 DEF Solid, Platform
  <2> QED
    BY <1>0, <2>3, <2>4, <2>5, <2>6, <2>7 DEF Solid
<1>2. CASE ~ IsRunning(p)
  <2>1. {p} \in SUBSET Processes /\ Ended({p}, JobWithout({p}, FALSE))
    BY <1>2 DEF Quit
  <2>2. /\ JobSound(JobWithout({p}, FALSE), Up \ {p})
        /\ os = "windows" => JobWithout({p}, FALSE) = job
    BY <2>1, JobWithoutSound DEF Solid
  <2> QED
    BY <1>0, <2>1, <2>2, EndedStep DEF Solid, Platform
<1> QED
  BY <1>1, <1>2

\* A step of a command alone.
LEMMA QuietStep ==
    ASSUME Solid, UNCHANGED <<os, running, surprised>>, cmd' \in CmdState, Stages',
           PidfileTruth', pidfile' \in Processes \cup {Nobody}, untold' \subseteq Processes
    PROVE  Solid'
<1>0. UNCHANGED <<os, proc, srv, port, job, tray, surprised>>
  BY DEF running
<1>1. Types'
  BY <1>0 DEF Solid, Types
<1>2. Owned'
  BY <1>0 DEF Solid, Owned, Up, Bound
<1>3. Menus'
  BY <1>0 DEF Solid, Menus, MenuRight, Started, Rests, Handle, At, Bound
<1>4. Platform'
  BY <1>0 DEF Solid, Platform
<1> QED
  BY <1>1, <1>2, <1>3, <1>4 DEF Solid

LEMMA PidfileFrame ==
    ASSUME PidfileTruth, UNCHANGED <<running, pidfile, untold>>
    PROVE  PidfileTruth'
BY DEF PidfileTruth, At, Up, ServersOf, running

LEMMA CommandKeeps ==
    ASSUME Solid, BeginStart \/ BeginStop \/ Unwrap \/ WireTools \/ Await
    PROVE  Solid'
<1>1. UNCHANGED <<os, running, surprised, pidfile, untold>>
  BY DEF BeginStart, BeginStop, Begin, Unwrap, WireTools, Await, outside, history
<1>2. cmd' \in CmdState /\ Stages'
  <2>0. cmd \in CmdState
    BY DEF Solid, Types
  <2>1. CASE BeginStart \/ BeginStop
    BY <2>1, Ranges DEF BeginStart, BeginStop, Begin, NoCmd, CmdState, Stages
  <2>2. CASE Unwrap
    BY <2>0, <2>2 DEF Unwrap, CmdAt, Then, CmdState, Stages
  <2>3. CASE WireTools
    BY <2>0, <2>3 DEF WireTools, CmdAt, Then, CmdState, Stages
  <2>4. CASE Await
    BY <2>0, <2>4 DEF Await, CmdAt, Then, CmdState, Stages
  <2> QED
    BY <2>1, <2>2, <2>3, <2>4
<1>3. PidfileTruth'
  BY <1>1, PidfileFrame DEF Solid
<1>4. pidfile' \in Processes \cup {Nobody} /\ untold' \subseteq Processes
  BY <1>1 DEF Solid, Types
<1> QED
  BY <1>1, <1>2, <1>3, <1>4, QuietStep

LEMMA ClearPidfileKeeps ==
    ASSUME Solid, ClearPidfile
    PROVE  Solid'
<1>1. /\ UNCHANGED <<os, running, surprised>>
      /\ pidfile' = Nobody /\ untold' = untold \cup ({pidfile} \cap Up)
  BY DEF ClearPidfile, Removed
<1>2. cmd' \in CmdState /\ Stages'
  BY DEF Solid, Types, CmdState, ClearPidfile, AfterKill, Stages, Nobody
<1>3. PidfileTruth'
  <2>1. ASSUME NEW s \in Servers, At(s, "serve")' PROVE Owner(s) \in untold'
    <3>1. At(s, "serve") /\ Owner(s) \in Up
      BY <1>1, <2>1 DEF running, At, Solid, Owned
    <3> QED
      BY <1>1, <3>1 DEF Solid, PidfileTruth
  <2>2. pidfile' \notin Up'
    BY <1>1, Ranges DEF Up
  <2> QED
    BY <2>1, <2>2 DEF PidfileTruth
<1>4. pidfile' \in Processes \cup {Nobody} /\ untold' \subseteq Processes
  BY <1>1 DEF Solid, Types, Up
<1> QED
  BY <1>1, <1>2, <1>3, <1>4, QuietStep

LEMMA KillProxyKeeps ==
    ASSUME Solid, KillProxy
    PROVE  Solid'
<1>1. /\ UNCHANGED <<os, pidfile, untold, surprised>>
      /\ untold' \subseteq Processes /\ surprised' \subseteq Processes
      /\ pidfile' \in Processes \cup {Nobody}
  BY DEF KillProxy, outside, Solid, Types
<1>2. cmd' \in CmdState /\ Stages'
  BY DEF Solid, Types, CmdState, KillProxy, AfterKill, Stages, Then
<1>3. CASE UNCHANGED running
  BY <1>1, <1>2, <1>3, PidfileFrame, QuietStep DEF Solid
<1>4. CASE Ended({pidfile} \cap Up, JobWithout({pidfile} \cap Up, FALSE))
  <2>1. {pidfile} \cap Up \in SUBSET Processes
    BY DEF Up
  <2>2. /\ JobSound(JobWithout({pidfile} \cap Up, FALSE), Up \ ({pidfile} \cap Up))
        /\ os = "windows" => JobWithout({pidfile} \cap Up, FALSE) = job
    BY <2>1, JobWithoutSound DEF Solid
  <2> QED
    BY <1>1, <1>2, <1>4, <2>1, <2>2, EndedStep DEF Solid, Platform
<1> QED
  BY <1>3, <1>4 DEF KillProxy

LEMMA UninstallKeeps ==
    ASSUME Solid, Uninstall
    PROVE  Solid'
<1>1. /\ UNCHANGED <<os, pidfile, untold, surprised>>
      /\ untold' \subseteq Processes /\ surprised' \subseteq Processes
      /\ pidfile' \in Processes \cup {Nobody}
  BY DEF Uninstall, Solid, Types
<1>2. cmd' \in CmdState /\ Stages'
  BY DEF Solid, Types, CmdState, Uninstall, Stages, Then, CmdAt
<1>3. CASE UNCHANGED running
  BY <1>1, <1>2, <1>3, PidfileFrame, QuietStep DEF Solid
<1>4. CASE Ended({job.pid} \cap Up, NoJob)
  <2>1. {job.pid} \cap Up \in SUBSET Processes
    BY DEF Up
  <2>2. JobSound(NoJob, Up \ ({job.pid} \cap Up)) /\ NoJob.state = "none"
    BY NoJobSound DEF NoJob
  <2> HIDE DEF NoJob
  <2> QED
    BY <1>1, <1>2, <1>4, <2>1, <2>2, EndedStep
<1> QED
  BY <1>3, <1>4 DEF Uninstall

\* A process more, and the job that has it or had another.
LEMMA SpawnKeeps ==
    ASSUME Solid, Spawn
    PROVE  Solid'
<1>1. /\ UNCHANGED <<os, pidfile, port>> /\ job' = job
      /\ Free # {}
  BY DEF Spawn, outside
<1>2. cmd' \in CmdState /\ Stages'
  BY DEF Solid, Types, CmdState, Spawn, Stages, Then, CmdAt
<1>3. PICK kind \in Kinds : Launched(Min(Free), kind)
  BY DEF Spawn
<1>4. Min(Free) \in Free /\ kind \in {"serve", "tray", "headless"}
  BY <1>1, FreeMin DEF Solid, Kinds
<1>5. Came(Min(Free), kind)
  BY <1>3, <1>4, LaunchedEffect DEF Solid
<1>6. Up \subseteq Up'
  BY <1>4, <1>5 DEF Came, Up
<1>7. JobSound(job', Up')
  BY <1>1, <1>6 DEF JobSound, Solid, Types, Owned
<1> QED
  BY <1>1, <1>2, <1>3, <1>4, <1>7, LaunchedStep DEF Solid, Platform

LEMMA InstallDaemonKeeps ==
    ASSUME Solid, InstallDaemon
    PROVE  Solid'
<1>1. /\ UNCHANGED <<os, pidfile, port>>
      /\ pidfile' \in Processes \cup {Nobody}
  BY DEF InstallDaemon, Solid, Types
<1>2. cmd' \in CmdState /\ Stages'
  BY DEF Solid, Types, CmdState, InstallDaemon, Stages, Then, CmdAt
<1>3. CASE UNCHANGED <<proc, srv, tray, job, untold, surprised>>
  <2>1. UNCHANGED <<running, pidfile, untold, surprised>>
    BY <1>1, <1>3 DEF running
  <2>2. untold' \subseteq Processes
    BY <2>1 DEF Solid, Types
  <2> QED
    BY <1>1, <1>2, <2>1, <2>2, PidfileFrame, QuietStep DEF Solid
<1>4. ASSUME Free # {}, os # "windows", NEW kind \in Kinds, Launched(Min(Free), kind),
             job' = [state |-> "running", pid |-> Min(Free)]
      PROVE  Solid'
  <2>1. Min(Free) \in Free /\ kind \in {"serve", "tray", "headless"}
    BY <1>4, FreeMin DEF Solid, Kinds
  <2>2. Came(Min(Free), kind)
    BY <1>4, <2>1, LaunchedEffect DEF Solid
  <2>3. Min(Free) \in Up' /\ Min(Free) \in Processes \ {Nobody}
    BY <2>1, <2>2, Ranges DEF Came, Up, Solid, Types
  <2>4. JobSound(job', Up')
    BY <1>4, <2>3 DEF JobSound
  <2> QED
    BY <1>1, <1>2, <1>4, <2>1, <2>4, LaunchedStep
<1> QED
  BY <1>3, <1>4 DEF InstallDaemon

-----------------------------------------------------------------------------
(* The steps of a server                                                   *)

\* What a server's step does to the other servers, and to its owner's menu.
OnlyMoves(s) ==
    /\ srv' \in [Servers -> SrvState]
    /\ \A t \in Servers : t # s => srv'[t] = srv[t]
    /\ srv'[s].stop => srv[s].stop
    /\ tray' = tray
    /\ surprised' \in {surprised, surprised \cup {Owner(s)}}

\* The tray waits for it: it has the news, or none are to come.
Awaited(s) ==
    /\ At(s, "bind")' => ~ srv'[s].ready
    /\ srv'[s].at \in {"write", "serve"} => srv'[s].ready
    /\ Owner(s) \notin surprised' /\ srv'[s].ready => srv'[s].at \in {"write", "serve"}

\* The tray has it for its handle: it is bound as before.
Kept(s) ==
    Owner(s) \notin surprised' =>
        /\ ~ At(s, "bind")'
        /\ srv'[s].at \in {"write", "serve"} <=> s \in Bound

LEMMA MovesKeepMenus ==
    ASSUME Types, Menus, NEW s \in Servers, OnlyMoves(s),
           LET p == Owner(s)
           IN /\ tray[p].at = "wait" /\ s = <<p, tray[p].next>> => Awaited(s)
              /\ tray[p].at = "idle" /\ s = Handle(p) => Kept(s)
    PROVE  Menus'
<1> DEFINE p == Owner(s)
<1>1. /\ p \in Processes /\ s[2] \in Slots /\ s = <<p, s[2]>>
      /\ tray' = tray
  BY Ranges DEF OnlyMoves
<1>2. ASSUME NEW q \in Processes, q # p PROVE MenuRight(q)'
  <2>1. \A i \in Slots : srv'[<<q, i>>] = srv[<<q, i>>]
    BY <1>1, <1>2, Ranges DEF OnlyMoves
  <2>2. tray'[q] = tray[q] /\ (q \in surprised' <=> q \in surprised)
    BY <1>1, <1>2 DEF OnlyMoves
  <2> QED
    BY <1>2, <2>1, <2>2, MenuFrame DEF Menus
<1>3. MenuRight(p)'
  <2>0. /\ MenuRight(p) /\ (p \notin surprised' => p \notin surprised)
        /\ tray[p].handle \in {0, 1, 2} /\ tray[p].next \in {0, 1, 2}
    BY <1>1 DEF Menus, OnlyMoves, Types, MenuState
  <2>1. tray[p].at = "wait" => Started(p)'
    <3>1. SUFFICES ASSUME tray[p].at = "wait" PROVE Started(p)'
      OBVIOUS
    <3>2. Started(p) /\ <<p, tray[p].next>> \in Servers
      BY <2>0, <3>1 DEF MenuRight, Started
    <3>3. CASE s = <<p, tray[p].next>>
      <4>1. Awaited(s)
        BY <3>1, <3>3
      <4>2. ~ srv'[s].stop
        BY <3>2, <3>3 DEF Started, OnlyMoves
      <4> HIDE DEF p
      <4> QED
        BY <1>1, <3>2, <3>3, <4>1, <4>2 DEF p, Started, Awaited, At, Bound
    <3>4. CASE s # <<p, tray[p].next>>
      <4>1. srv'[<<p, tray[p].next>>] = srv[<<p, tray[p].next>>]
        BY <3>2, <3>4 DEF OnlyMoves
      <4> QED
        BY <1>1, <2>0, <3>2, <4>1 DEF Started, At, Bound
    <3> QED
      BY <3>3, <3>4
  <2>2. tray[p].at = "idle" => Rests(p)'
    <3>1. SUFFICES ASSUME tray[p].at = "idle" PROVE Rests(p)'
      OBVIOUS
    <3>2. Rests(p)
      BY <2>0, <3>1 DEF MenuRight
    <3>3. CASE s = Handle(p)
      <4>1. Kept(s)
        BY <3>1, <3>3
      <4>2. tray[p].handle # 0
        BY <1>1, <3>3, Ranges DEF Handle
      <4>3. ~ srv'[s].stop
        BY <3>2, <3>3, <4>2 DEF Rests, OnlyMoves
      <4> QED
        BY <1>1, <2>0, <3>2, <3>3, <4>1, <4>2, <4>3 DEF Rests, Kept, At, Bound, Handle
    <3>4. CASE s # Handle(p) /\ tray[p].handle # 0
      <4>1. Handle(p) \in Servers /\ srv'[Handle(p)] = srv[Handle(p)]
        BY <1>1, <2>0, <3>4, Ranges DEF OnlyMoves, Handle, Slots
      <4> QED
        BY <1>1, <2>0, <3>2, <4>1 DEF Rests, At, Bound, Handle
    <3>5. CASE tray[p].handle = 0
      BY <1>1, <2>0, <3>2, <3>5 DEF Rests
    <3> QED
      BY <3>3, <3>4, <3>5
  <2> QED
    BY <1>1, <2>0, <2>1, <2>2 DEF MenuRight
<1> QED
  BY <1>1, <1>2, <1>3 DEF Menus

LEMMA SrvFacts ==
    ASSUME Solid, NEW s \in Servers
    PROVE  /\ srv \in [Servers -> SrvState] /\ srv[s] \in SrvState
           /\ proc[Owner(s)] = "tray" \/ tray[Owner(s)] = NoTray
           /\ s \in Bound <=> s = port
           /\ Owner(s) \in Processes
BY Ranges DEF Solid, Types, Owned

LEMMA BindKeeps ==
    ASSUME Solid, NEW s \in Servers, Bind(s)
    PROVE  Solid'
<1>0. /\ UNCHANGED <<os, proc, job, tray, pidfile, cmd, untold, surprised>>
      /\ port = NoServer /\ port' = s /\ At(s, "bind")
  BY DEF Bind, outside, history
<1>1. /\ srv' \in [Servers -> SrvState]
      /\ \A t \in Servers : t # s => srv'[t] = srv[t]
      /\ srv'[s].at = "write" /\ srv'[s].stop = srv[s].stop
      /\ srv'[s].ready <=> proc[Owner(s)] = "tray"
  <2>1. srv' = [srv EXCEPT ![s] = [srv[s] EXCEPT !.at = "write", !.ready = proc[Owner(s)] = "tray"]]
    BY SrvFacts DEF Bind
  <2>2. [srv[s] EXCEPT !.at = "write", !.ready = proc[Owner(s)] = "tray"] \in SrvState
    BY SrvFacts DEF SrvState, ServerPlaces
  <2> QED
    BY <2>1, <2>2, SrvFacts DEF SrvState
<1>2. Types'
  BY <1>0, <1>1 DEF Solid, Types
<1>3. Owned'
  BY <1>0, <1>1, Ranges DEF Solid, Owned, Up, Bound, At
<1>4. PidfileTruth'
  <2>1. ASSUME NEW t \in Servers, At(t, "serve")'
        PROVE  pidfile = Owner(t) \/ Owner(t) \in untold
    BY <1>1, <2>1 DEF Solid, PidfileTruth, At
  <2>2. ASSUME pidfile \in Up'
        PROVE  \E t \in ServersOf(pidfile) : srv'[t].at \in {"serve", "drain"}
    <3>1. pidfile \in Up /\ pidfile \in Processes
      BY <1>0, <2>2 DEF Up
    <3>2. PICK t \in ServersOf(pidfile) : srv[t].at \in {"serve", "drain"}
      BY <3>1 DEF Solid, PidfileTruth
    <3>3. t \in Servers /\ t # s
      BY <1>0, <3>1, <3>2 DEF ServersOf, Servers, At
    <3> QED
      BY <1>1, <3>2, <3>3
  <2> QED
    BY <1>0, <2>1, <2>2 DEF PidfileTruth, ServersOf
<1>5. Menus'
  <2>1. OnlyMoves(s)
    BY <1>0, <1>1 DEF OnlyMoves
  <2>2. tray[Owner(s)].at = "wait" => Awaited(s)
    <3>1. NoTray.at = "idle"
      BY DEF NoTray
    <3> QED
      BY <1>1, <3>1, SrvFacts DEF Awaited, At, Solid, Owned, Types, SrvState
  <2>3. tray[Owner(s)].at = "idle" /\ s = Handle(Owner(s)) => Kept(s)
    <3>1. SUFFICES ASSUME tray[Owner(s)].at = "idle", s = Handle(Owner(s)) PROVE Kept(s)
      OBVIOUS
    <3>2. tray[Owner(s)].handle # 0
      BY <3>1, Ranges DEF Handle
    <3>3. Owner(s) \in surprised
      BY <1>0, <3>1, <3>2, SrvFacts DEF Solid, Menus, MenuRight, Rests
    <3> QED
      BY <1>0, <3>3 DEF Kept
  <2> QED
    BY <2>1, <2>2, <2>3, MovesKeepMenus DEF Solid
<1>6. Platform' /\ Stages'
  BY <1>0 DEF Solid, Platform, Stages
<1> QED
  BY <1>2, <1>3, <1>4, <1>5, <1>6 DEF Solid

\* A server that is done leaves nothing but the news for its tray.
LEMMA OverEffect ==
    ASSUME Solid, NEW s \in Servers, Over(s)
    PROVE  /\ srv' \in [Servers -> SrvState]
           /\ \A t \in Servers : t # s => srv'[t] = srv[t]
           /\ srv'[s].at = "none" /\ ~ srv'[s].stop /\ srv'[s].ready = srv[s].ready
<1>1. [NoSrv EXCEPT !.ready = srv[s].ready] \in SrvState
  BY SrvFacts DEF SrvState, ServerPlaces, NoSrv
<1> QED
  BY <1>1, SrvFacts DEF Over, NoSrv

LEMMA OverKeeps ==
    ASSUME Solid, NEW s \in Servers, Over(s), At(s, "bind") \/ At(s, "drain"),
           UNCHANGED <<os, proc, port, job, tray, cmd, surprised>>
    PROVE  Owned' /\ Menus' /\ Platform' /\ Stages'
<1>1. /\ srv' \in [Servers -> SrvState]
      /\ \A t \in Servers : t # s => srv'[t] = srv[t]
      /\ srv'[s].at = "none" /\ ~ srv'[s].stop /\ srv'[s].ready = srv[s].ready
  BY OverEffect
<1>2. s \notin Bound
  BY DEF Bound, At
<1>3. Owned'
  BY <1>1, <1>2, Ranges DEF Solid, Owned, Up, Bound
<1>4. Menus'
  <2>1. OnlyMoves(s)
    BY <1>1 DEF OnlyMoves
  <2>2. tray[Owner(s)].at = "wait" /\ s = <<Owner(s), tray[Owner(s)].next>> => Awaited(s)
    <3>1. SUFFICES ASSUME tray[Owner(s)].at = "wait", s = <<Owner(s), tray[Owner(s)].next>>
                   PROVE  Awaited(s)
      OBVIOUS
    <3>2. Started(Owner(s))
      BY <3>1, SrvFacts DEF Solid, Menus, MenuRight
    <3>3. srv[s].ready => Owner(s) \in surprised
      BY <1>2, <3>1, <3>2 DEF Started, At
    <3> QED
      BY <1>1, <3>3 DEF Awaited, At
  <2>3. tray[Owner(s)].at = "idle" /\ s = Handle(Owner(s)) => Kept(s)
    BY <1>1, <1>2 DEF Kept, At
  <2> QED
    BY <2>1, <2>2, <2>3, MovesKeepMenus DEF Solid
<1>5. Platform' /\ Stages'
  BY DEF Solid, Platform, Stages
<1> QED
  BY <1>3, <1>4, <1>5

LEMMA BindFailsKeeps ==
    ASSUME Solid, NEW s \in Servers, BindFails(s)
    PROVE  Solid'
<1>0. /\ UNCHANGED <<os, pidfile, cmd, untold, surprised>> /\ At(s, "bind")
      /\ cmd' \in CmdState /\ Stages'
  BY DEF BindFails, outside, history, Solid, Types, Stages
<1>1. CASE proc[Owner(s)] = "tray"
  <2>1. Over(s) /\ UNCHANGED <<proc, port, job, tray>>
    BY <1>1 DEF BindFails
  <2>2. /\ srv' \in [Servers -> SrvState]
        /\ \A t \in Servers : t # s => srv'[t] = srv[t]
        /\ srv'[s].at = "none"
    BY <2>1, OverEffect
  <2>3. PidfileTruth'
    <3>1. \A t \in Servers : srv[t].at \in {"serve", "drain"} => t # s
      BY <1>0 DEF At
    <3>2. \A p \in Processes : ServersOf(p) \subseteq Servers
      BY DEF ServersOf, Servers
    <3> QED
      BY <1>0, <2>1, <2>2, <3>1, <3>2 DEF Solid, PidfileTruth, At, Up, ServersOf
  <2>4. Types'
    BY <1>0, <2>1, <2>2 DEF Solid, Types
  <2> QED
    BY <1>0, <2>1, <2>3, <2>4, OverKeeps DEF Solid
<1>2. CASE proc[Owner(s)] # "tray"
  <2> DEFINE gone == {Owner(s)}
  <2>1. gone \in SUBSET Processes /\ Ended(gone, JobWithout(gone, TRUE))
    BY <1>2, SrvFacts DEF BindFails
  <2>2. /\ JobSound(JobWithout(gone, TRUE), Up \ gone)
        /\ os = "windows" => JobWithout(gone, TRUE) = job
    BY <2>1, JobWithoutSound DEF Solid
  <2> HIDE DEF gone
  <2> QED
    BY <1>0, <2>1, <2>2, EndedStep DEF Solid, Types, Platform
<1> QED
  BY <1>1, <1>2

LEMMA MoveEffect ==
    ASSUME Solid, NEW s \in Servers, NEW place \in ServerPlaces, Move(s, place)
    PROVE  /\ srv' \in [Servers -> SrvState]
           /\ \A t \in Servers : t # s => srv'[t] = srv[t]
           /\ srv'[s].at = place
           /\ srv'[s].stop = srv[s].stop /\ srv'[s].ready = srv[s].ready
<1>1. srv' = [srv EXCEPT ![s] = [srv[s] EXCEPT !.at = place]]
  BY SrvFacts DEF Move
<1>2. [srv[s] EXCEPT !.at = place] \in SrvState
  BY SrvFacts DEF SrvState
<1> QED
  BY <1>1, <1>2, SrvFacts DEF SrvState

LEMMA WritePidKeeps ==
    ASSUME Solid, NEW s \in Servers, WritePid(s)
    PROVE  Solid'
<1>0. UNCHANGED <<os, proc, port, job, tray, cmd, surprised>> /\ At(s, "write")
  BY DEF WritePid
<1>1. /\ srv' \in [Servers -> SrvState]
      /\ \A t \in Servers : t # s => srv'[t] = srv[t]
      /\ srv'[s].at = "serve"
      /\ srv'[s].stop = srv[s].stop /\ srv'[s].ready = srv[s].ready
  BY MoveEffect DEF WritePid, ServerPlaces
<1>2. s \in Bound /\ s = port /\ Owner(s) \in Processes /\ Owner(s) \in Up
  BY <1>0, SrvFacts DEF Bound, At, Solid, Owned
<1>3. \/ pidfile' = Owner(s) /\ untold' = untold \ {Owner(s)}
      \/ pidfile' = pidfile /\ untold' = untold \cup {Owner(s)}
  BY DEF WritePid
<1>4. Types'
  BY <1>0, <1>1, <1>2, <1>3 DEF Solid, Types
<1>5. Owned'
  BY <1>0, <1>1, <1>2 DEF Solid, Owned, Up, Bound
<1>6. PidfileTruth'
  <2>1. ASSUME NEW t \in Servers, At(t, "serve")' PROVE t = s
    BY <1>1, <1>2, <2>1, SrvFacts DEF At, Bound
  <2>2. pidfile' = Owner(s) \/ Owner(s) \in untold'
    BY <1>3
  <2>3. ASSUME pidfile' \in Up'
        PROVE  \E t \in ServersOf(pidfile') : srv'[t].at \in {"serve", "drain"}
    <3>1. CASE pidfile' = Owner(s)
      <4>1. s \in ServersOf(Owner(s))
        BY Ranges DEF ServersOf
      <4> QED
        BY <1>1, <3>1, <4>1
    <3>2. CASE pidfile' = pidfile
      <4>1. pidfile \in Up /\ pidfile \in Processes
        BY <1>0, <2>3, <3>2 DEF Up
      <4>2. PICK t \in ServersOf(pidfile) : srv[t].at \in {"serve", "drain"}
        BY <4>1 DEF Solid, PidfileTruth
      <4>3. t \in Servers /\ t # s
        BY <1>0, <4>1, <4>2 DEF ServersOf, Servers, At
      <4> QED
        BY <1>1, <3>2, <4>2, <4>3
    <3> QED
      BY <1>3, <3>1, <3>2
  <2> QED
    BY <2>1, <2>2, <2>3 DEF PidfileTruth
<1>7. Menus'
  <2>1. OnlyMoves(s)
    BY <1>0, <1>1 DEF OnlyMoves
  <2>2. tray[Owner(s)].at = "wait" /\ s = <<Owner(s), tray[Owner(s)].next>> => Awaited(s)
    BY <1>1, <1>2 DEF Solid, Menus, MenuRight, Started, Awaited, At
  <2>3. Kept(s)
    BY <1>1, <1>2 DEF Kept, At
  <2> QED
    BY <2>1, <2>2, <2>3, MovesKeepMenus DEF Solid
<1>8. Platform' /\ Stages'
  BY <1>0 DEF Solid, Platform, Stages
<1> QED
  BY <1>4, <1>5, <1>6, <1>7, <1>8 DEF Solid

LEMMA CloseListenerKeeps ==
    ASSUME Solid, NEW s \in Servers, CloseListener(s)
    PROVE  Solid'
<1>0. /\ UNCHANGED <<os, proc, job, tray, pidfile, cmd, untold>>
      /\ At(s, "serve") /\ port' = NoServer
      /\ (srv[s].stop /\ surprised' = surprised) \/ surprised' = surprised \cup {Owner(s)}
  BY DEF CloseListener, outside
<1>1. /\ srv' \in [Servers -> SrvState]
      /\ \A t \in Servers : t # s => srv'[t] = srv[t]
      /\ srv'[s].at = "drain"
      /\ srv'[s].stop = srv[s].stop /\ srv'[s].ready = srv[s].ready
  BY MoveEffect DEF CloseListener, ServerPlaces
<1>2. s \in Bound /\ s = port /\ Owner(s) \in Processes /\ Owner(s) \in Up
  BY <1>0, SrvFacts DEF Bound, At, Solid, Owned
<1>3. Types'
  BY <1>0, <1>1, <1>2 DEF Solid, Types
<1>4. Owned'
  BY <1>0, <1>1, <1>2, Ranges DEF Solid, Owned, Up, Bound
<1>5. PidfileTruth'
  <2>1. ASSUME NEW t \in Servers PROVE ~ At(t, "serve")'
    BY <1>1, <1>2, SrvFacts DEF At, Bound
  <2>2. ASSUME pidfile' \in Up'
        PROVE  \E t \in ServersOf(pidfile') : srv'[t].at \in {"serve", "drain"}
    <3>1. pidfile \in Up /\ pidfile \in Processes
      BY <1>0, <2>2 DEF Up
    <3>2. PICK t \in ServersOf(pidfile) : srv[t].at \in {"serve", "drain"}
      BY <3>1 DEF Solid, PidfileTruth
    <3>3. t \in Servers
      BY <3>1, <3>2 DEF ServersOf, Servers
    <3> QED
      BY <1>0, <1>1, <3>2, <3>3
  <2> QED
    BY <2>1, <2>2 DEF PidfileTruth
<1>6. Menus'
  <2>1. OnlyMoves(s)
    BY <1>0, <1>1 DEF OnlyMoves
  <2>2. tray[Owner(s)].at = "wait" /\ s = <<Owner(s), tray[Owner(s)].next>> => Awaited(s)
    BY <1>0, <1>1, <1>2 DEF Solid, Menus, MenuRight, Started, Awaited, At
  <2>3. tray[Owner(s)].at = "idle" /\ s = Handle(Owner(s)) => Kept(s)
    <3>1. SUFFICES ASSUME tray[Owner(s)].at = "idle", s = Handle(Owner(s)) PROVE Kept(s)
      OBVIOUS
    <3>2. tray[Owner(s)].handle # 0
      BY <1>2, <3>1, Ranges DEF Handle
    <3>3. ~ srv[s].stop
      BY <1>2, <3>1, <3>2 DEF Solid, Menus, MenuRight, Rests
    <3> QED
      BY <1>0, <3>3 DEF Kept
  <2> QED
    BY <2>1, <2>2, <2>3, MovesKeepMenus DEF Solid
<1>7. Platform' /\ Stages'
  BY <1>0 DEF Solid, Platform, Stages
<1> QED
  BY <1>3, <1>4, <1>5, <1>6, <1>7 DEF Solid

LEMMA FinishKeeps ==
    ASSUME Solid, NEW s \in Servers, Finish(s)
    PROVE  Solid'
<1> DEFINE p == Owner(s)
           by == IF \E t \in ServersOf(p) : At(t, "serve") THEN {} ELSE {p}
           unread == {pidfile} \cap (Up \ by)
<1>0. /\ UNCHANGED <<os, cmd, surprised>> /\ At(s, "drain")
      /\ pidfile' = Nobody /\ untold' = untold \cup unread
  BY DEF Finish, Removed
<1>1. p \in Processes /\ unread \subseteq Processes
  BY Ranges DEF Up
<1>2. ASSUME NEW t \in Servers, At(t, "serve") PROVE Owner(t) \in untold'
  <2>1. Owner(t) \in Up
    BY <1>2 DEF Solid, Owned, At
  <2>2. CASE Owner(t) \in untold
    BY <1>0, <2>2
  <2>3. CASE pidfile = Owner(t)
    <3>1. Owner(t) \notin by
      <4>1. t \in ServersOf(Owner(t))
        BY Ranges DEF ServersOf
      <4> QED
        BY <1>2, <4>1
    <3> HIDE DEF by
    <3> QED
      BY <1>0, <2>1, <2>3, <3>1
  <2> QED
    BY <1>2, <2>2, <2>3 DEF Solid, PidfileTruth
<1>3. pidfile' \notin Up'
  BY <1>0, Ranges DEF Up
<1> HIDE DEF by, unread
<1>4. CASE proc[p] = "tray"
  <2>1. Over(s) /\ UNCHANGED <<proc, port, job, tray>>
    BY <1>4 DEF Finish
  <2>2. /\ srv' \in [Servers -> SrvState]
        /\ \A t \in Servers : t # s => srv'[t] = srv[t]
        /\ srv'[s].at = "none"
    BY <2>1, OverEffect
  <2>3. PidfileTruth'
    BY <1>2, <1>3, <2>2 DEF PidfileTruth, At
  <2>4. Types'
    BY <1>0, <1>1, <2>1, <2>2 DEF Solid, Types
  <2> QED
    BY <1>0, <2>1, <2>3, <2>4, OverKeeps DEF Solid
<1>5. CASE proc[p] # "tray"
  <2> DEFINE gone == {p}
             j == JobWithout(gone, TRUE)
  <2>1. gone \in SUBSET Processes /\ Ended(gone, j)
    BY <1>1, <1>5 DEF Finish
  <2>2. JobSound(j, Up \ gone) /\ (os = "windows" => j = job)
    BY <2>1, JobWithoutSound DEF Solid
  <2> HIDE DEF gone, j
  <2>3. Went(gone, j)
    BY <2>1, EndedEffect DEF Solid
  <2>4. Owned' /\ Menus'
    BY <1>0, <2>1, <2>2, EndedKeeps DEF Solid, Types
  <2>5. Types'
    BY <1>0, <1>1, <2>2, <2>3 DEF Solid, Types, Went, JobSound
  <2>6. PidfileTruth'
    <3>1. ASSUME NEW t \in Servers, At(t, "serve")' PROVE Owner(t) \in untold'
      <4>1. srv'[t] = srv[t]
        BY <2>3, <3>1 DEF Went, At, NoSrv
      <4> QED
        BY <1>2, <3>1, <4>1 DEF At
    <3> QED
      BY <1>3, <3>1 DEF PidfileTruth
  <2>7. Platform' /\ Stages'
    BY <1>0, <2>2, <2>3 DEF Solid, Platform, Stages, Went
  <2> QED
    BY <2>4, <2>5, <2>6, <2>7 DEF Solid
<1> QED
  BY <1>4, <1>5

-----------------------------------------------------------------------------
(* The steps of a menu                                                     *)

LEMMA TrayFacts ==
    ASSUME Solid, NEW p \in Processes
    PROVE  /\ tray \in [Processes -> MenuState] /\ tray[p] \in MenuState
           /\ tray[p].handle # 0 => Handle(p) \in Servers
           /\ tray[p].handle \in {0, 1, 2}
           /\ MenuRight(p)
<1>1. tray \in [Processes -> MenuState] /\ tray[p] \in MenuState
  BY DEF Solid, Types
<1>2. tray[p].handle \in {0, 1, 2}
  BY <1>1 DEF MenuState
<1> QED
  BY <1>1, <1>2, Ranges DEF Solid, Menus, Handle, Slots

\* A step of one menu: what it does to that menu, and not to the others' servers.
LEMMA MenuStep ==
    ASSUME Solid, NEW p \in Processes, proc[p] = "tray",
           UNCHANGED <<os, proc, port, job, pidfile, cmd, untold>>,
           tray' \in [Processes -> MenuState],
           \A q \in Processes : q # p => tray'[q] = tray[q],
           srv' \in [Servers -> SrvState],
           \A s \in Servers :
                /\ Owner(s) # p => srv'[s] = srv[s]
                /\ srv'[s].at = srv[s].at \/ (srv[s].at = "none" /\ srv'[s].at = "bind"),
           surprised' \in {surprised, surprised \cup {p}, surprised \ {p}},
           MenuRight(p)'
    PROVE  Solid'
<1>1. Types'
  BY DEF Solid, Types
<1>2. Owned'
  <2>1. ASSUME NEW s \in Servers
        PROVE  /\ srv'[s].at # "none" => Owner(s) \in Up'
               /\ srv'[s].stop => proc'[Owner(s)] = "tray"
               /\ s = port' <=> srv'[s].at \in {"write", "serve"}
    <3>1. CASE Owner(s) = p
      BY <3>1 DEF Solid, Owned, Up, Bound
    <3>2. CASE Owner(s) # p
      BY <3>2 DEF Solid, Owned, Up, Bound
    <3> QED
      BY <3>1, <3>2
  <2>2. ASSUME NEW q \in Processes, tray'[q] # NoTray PROVE proc'[q] = "tray"
    <3> HIDE DEF NoTray
    <3> QED
      BY <2>2 DEF Solid, Owned
  <2>3. (job.state = "running" <=> job.pid # Nobody) /\ job.pid \in Up' \cup {Nobody}
    BY DEF Solid, Owned, Up
  <2> QED
    BY <2>1, <2>2, <2>3 DEF Owned, Bound
<1>3. PidfileTruth'
  <2>1. ASSUME NEW s \in Servers
        PROVE  /\ srv'[s].at = "serve" => srv[s].at = "serve"
               /\ srv[s].at \in {"serve", "drain"} => srv'[s].at = srv[s].at
    OBVIOUS
  <2>2. \A q \in Processes : ServersOf(q) \subseteq Servers
    BY DEF ServersOf, Servers
  <2> QED
    BY <2>1, <2>2 DEF Solid, PidfileTruth, At, Up, ServersOf
<1>4. Menus'
  <2>1. ASSUME NEW q \in Processes, q # p PROVE MenuRight(q)'
    <3>1. \A i \in Slots : srv'[<<q, i>>] = srv[<<q, i>>]
      BY <2>1, Ranges
    <3> QED
      BY <2>1, <3>1, MenuFrame DEF Solid, Menus
  <2> QED
    BY <2>1 DEF Menus
<1>5. Platform' /\ Stages'
  BY DEF Solid, Platform, Stages
<1> QED
  BY <1>1, <1>2, <1>3, <1>4, <1>5 DEF Solid

LEMMA TrayWiresKeeps ==
    ASSUME Solid, NEW p \in Processes, TrayWires(p)
    PROVE  Solid'
<1>1. PICK i \in Slots \ {tray[p].handle} :
        /\ At(<<p, i>>, "none")
        /\ srv' = Binds(srv, <<p, i>>)
        /\ tray' = [tray EXCEPT ![p].at = "wait", ![p].next = i]
  <2> DEFINE free == {i \in Slots \ {tray[p].handle} : At(<<p, i>>, "none")}
  <2>1. /\ free # {} /\ srv' = Binds(srv, <<p, Min(free)>>)
        /\ tray' = [tray EXCEPT ![p].at = "wait", ![p].next = Min(free)]
    BY DEF TrayWires
  <2>2. free \in SUBSET (0..2)
    BY DEF Slots
  <2>3. Min(free) \in free
    <3> HIDE DEF free
    <3> QED
      BY <2>1, <2>2, MinOfBounded
  <2> QED
    BY <2>1, <2>3
<1> DEFINE s == <<p, i>>
<1>2. s \in Servers /\ i \in {1, 2} /\ s # NoServer /\ Owner(s) = p
  BY Ranges DEF Slots
<1>3. /\ UNCHANGED <<os, proc, port, job, pidfile, cmd, untold, surprised>>
      /\ TrayAt(p, "wire")
  BY DEF TrayWires, history
<1>4. /\ srv' \in [Servers -> SrvState]
      /\ \A t \in Servers : t # s => srv'[t] = srv[t]
      /\ srv'[s].at = "bind" /\ ~ srv'[s].stop /\ ~ srv'[s].ready
  <2>1. [NoSrv EXCEPT !.at = "bind"] \in SrvState
    BY DEF NoSrv, SrvState, ServerPlaces
  <2>2. srv' = [srv EXCEPT ![s] = [NoSrv EXCEPT !.at = "bind"]]
    BY <1>1 DEF Binds
  <2> HIDE DEF s
  <2> QED
    BY <1>2, <2>1, <2>2 DEF Solid, Types, NoSrv
<1>5. /\ tray' \in [Processes -> MenuState]
      /\ \A q \in Processes : q # p => tray'[q] = tray[q]
      /\ tray'[p].at = "wait" /\ tray'[p].next = i /\ tray'[p].handle = tray[p].handle
  <2>1. tray' = [tray EXCEPT ![p] = [tray[p] EXCEPT !.at = "wait", !.next = i]]
    BY <1>1, TrayFacts
  <2>2. [tray[p] EXCEPT !.at = "wait", !.next = i] \in MenuState
    BY <1>2, TrayFacts DEF MenuState
  <2> QED
    BY <2>1, <2>2, TrayFacts DEF MenuState
<1>6. MenuRight(p)'
  BY <1>1, <1>2, <1>4, <1>5 DEF MenuRight, Started, At, Bound
<1>7. \A t \in Servers :
        /\ Owner(t) # p => srv'[t] = srv[t]
        /\ srv'[t].at = srv[t].at \/ (srv[t].at = "none" /\ srv'[t].at = "bind")
  <2>1. At(s, "none")
    BY <1>1
  <2> HIDE DEF s
  <2> QED
    BY <1>2, <1>4, <2>1 DEF At
<1>8. proc[p] = "tray"
  BY <1>3 DEF TrayAt
<1> QED
  BY <1>3, <1>4, <1>5, <1>6, <1>7, <1>8, MenuStep

\* The sender of the handle before is dropped, so its server is told to stop; the
\* menu's new handle is bound, or failed, or is late.
LEMMA TrayStartedKeeps ==
    ASSUME Solid, NEW p \in Processes, TrayStarted(p)
    PROVE  Solid'
<1> DEFINE s == <<p, tray[p].next>>
           bound == srv[s].ready
           late == At(s, "bind")
           menu == [NoTray EXCEPT !.handle = tray[p].next, !.bound = bound,
                                  !.shown = Shown(p, bound)]
<1>1. /\ UNCHANGED <<os, proc, port, job, pidfile, cmd, untold>>
      /\ proc[p] = "tray" /\ tray[p].at = "wait"
      /\ tray' = [tray EXCEPT ![p] = menu]
      /\ srv' = [t \in Servers |->
                    [srv[t] EXCEPT !.stop = @ \/ (t = Handle(p)), !.ready = @ /\ t # s]]
      /\ surprised' =
            IF late \/ (~ bound /\ tray[p].toggled) THEN surprised \cup {p}
            ELSE IF ~ bound \/ s \in Bound THEN surprised \ {p} ELSE surprised
  BY DEF TrayStarted, TrayAt, outside
<1>2. /\ Started(p) /\ tray[p].next \in {1, 2} /\ s \in Servers /\ Owner(s) = p
      /\ s # Handle(p)
  <2>1. tray[p].next \in {0, 1, 2} /\ Started(p)
    BY <1>1, TrayFacts DEF MenuRight, MenuState
  <2> QED
    BY <2>1, Ranges DEF Started, Handle
<1>3. /\ srv' \in [Servers -> SrvState]
      /\ \A t \in Servers :
            /\ t # s /\ t # Handle(p) => srv'[t] = srv[t]
            /\ srv'[t].at = srv[t].at
            /\ t # Handle(p) => srv'[t].stop = srv[t].stop
  <2>1. ASSUME NEW t \in Servers, NEW b1 \in BOOLEAN, NEW b2 \in BOOLEAN
        PROVE  /\ [srv[t] EXCEPT !.stop = b1, !.ready = b2] \in SrvState
               /\ [srv[t] EXCEPT !.stop = srv[t].stop, !.ready = srv[t].ready] = srv[t]
    BY SrvFacts DEF SrvState
  <2>2. ASSUME NEW t \in Servers
        PROVE  /\ srv[t].stop \in BOOLEAN /\ srv[t].ready \in BOOLEAN
               /\ srv'[t] = [srv[t] EXCEPT !.stop = srv[t].stop \/ (t = Handle(p)),
                                           !.ready = srv[t].ready /\ t # s]
    BY <1>1, SrvFacts DEF SrvState
  <2> HIDE DEF s
  <2>3. srv' \in [Servers -> SrvState]
    BY <1>1, <2>1, <2>2
  <2>4. ASSUME NEW t \in Servers
        PROVE  /\ t # s /\ t # Handle(p) => srv'[t] = srv[t]
               /\ srv'[t].at = srv[t].at
               /\ t # Handle(p) => srv'[t].stop = srv[t].stop
    <3> DEFINE b1 == srv[t].stop \/ (t = Handle(p))
               b2 == srv[t].ready /\ t # s
    <3>0. /\ b1 \in BOOLEAN /\ b2 \in BOOLEAN
          /\ srv'[t] = [srv[t] EXCEPT !.stop = b1, !.ready = b2]
          /\ t # Handle(p) => b1 = srv[t].stop
          /\ t # s => b2 = srv[t].ready
      BY <2>2
    <3> HIDE DEF b1, b2
    <3>1. srv'[t].at = srv[t].at /\ srv'[t].stop = b1
      BY <3>0, SrvFacts DEF SrvState
    <3>2. t # s /\ t # Handle(p) => srv'[t] = srv[t]
      BY <2>1, <3>0
    <3> QED
      BY <3>0, <3>1, <3>2
  <2> QED
    BY <2>3, <2>4
<1>4. /\ tray' \in [Processes -> MenuState]
      /\ \A q \in Processes : q # p => tray'[q] = tray[q]
      /\ tray'[p].at = "idle" /\ tray'[p].handle = tray[p].next
      /\ tray'[p].shown = "Active" <=> bound \/ tray[p].toggled
  <2>1. bound \in BOOLEAN /\ Shown(p, bound) \in {"Active", "Stopped"}
    BY <1>2, SrvFacts DEF SrvState, Shown
  <2>2. menu \in MenuState /\ menu.at = "idle" /\ menu.handle = tray[p].next
        /\ menu.shown = Shown(p, bound)
    <3> HIDE DEF bound, s
    <3> QED
      BY <1>2, <2>1 DEF MenuState, NoTray
  <2>3. tray' = [tray EXCEPT ![p] = menu]
    BY <1>1
  <2> HIDE DEF menu, bound, s
  <2> QED
    BY <2>2, <2>3, TrayFacts DEF Shown
<1>5. MenuRight(p)'
  <2>1. Handle(p)' = s /\ tray'[p].handle # 0
    BY <1>2, <1>4 DEF Handle
  <2>2. ~ srv'[s].stop /\ srv'[s].at = srv[s].at
    BY <1>2, <1>3 DEF Started
  <2>3. ASSUME p \notin surprised'
        PROVE  /\ srv'[s].at # "bind"
               /\ tray'[p].shown = "Active" <=> srv'[s].at \in {"write", "serve"}
    <3>1. ~ late /\ (bound \/ ~ tray[p].toggled)
      BY <1>1, <2>3
    <3>2. bound => s \in Bound
      BY <1>1, <1>2, <2>3, <3>1 DEF Started
    <3>3. ~ bound => s \notin Bound
      BY <1>2 DEF Started
    <3> QED
      BY <1>2, <1>4, <2>2, <3>1, <3>2, <3>3 DEF At, Bound
  <2>4. Rests(p)'
    <3> HIDE DEF s
    <3> QED
      BY <1>2, <2>1, <2>2, <2>3 DEF Rests, At, Bound
  <2> QED
    BY <1>4, <2>4 DEF MenuRight
<1>6. surprised' \in {surprised, surprised \cup {p}, surprised \ {p}}
  BY <1>1
<1>7. \A t \in Servers :
        /\ Owner(t) # p => srv'[t] = srv[t]
        /\ srv'[t].at = srv[t].at \/ (srv[t].at = "none" /\ srv'[t].at = "bind")
  <2>1. ASSUME NEW t \in Servers, Owner(t) # p PROVE t # s /\ t # Handle(p)
    BY <1>2, <2>1 DEF Handle, Owner
  <2> HIDE DEF s
  <2> QED
    BY <1>3, <2>1
<1> QED
  BY <1>1, <1>3, <1>4, <1>5, <1>6, <1>7, MenuStep

LEMMA ToggleKeeps ==
    ASSUME Solid, NEW p \in Processes, Toggle(p)
    PROVE  Solid'
<1>1. /\ UNCHANGED <<os, proc, srv, port, job, pidfile, cmd, untold, surprised>>
      /\ proc[p] = "tray"
      /\ tray' = IF IsRunning(p) THEN [tray EXCEPT ![p].at = "unwrap"]
                 ELSE [tray EXCEPT ![p].at = "wire", ![p].toggled = TRUE]
  BY DEF Toggle, TrayAt, outside
<1>2. PICK menu \in MenuState :
        /\ tray' = [tray EXCEPT ![p] = menu]
        /\ menu.handle = tray[p].handle
        /\ menu.at = "wire" \/ (menu.at = "unwrap" /\ menu.handle # 0)
  <2>1. CASE IsRunning(p)
    <3>1. tray' = [tray EXCEPT ![p] = [tray[p] EXCEPT !.at = "unwrap"]]
      BY <1>1, <2>1, TrayFacts
    <3>2. /\ [tray[p] EXCEPT !.at = "unwrap"] \in MenuState
          /\ [tray[p] EXCEPT !.at = "unwrap"].handle = tray[p].handle
          /\ [tray[p] EXCEPT !.at = "unwrap"].at = "unwrap"
      BY TrayFacts DEF MenuState
    <3> QED
      BY <2>1, <3>1, <3>2 DEF IsRunning
  <2>2. CASE ~ IsRunning(p)
    <3>1. tray' = [tray EXCEPT ![p] = [tray[p] EXCEPT !.at = "wire", !.toggled = TRUE]]
      BY <1>1, <2>2, TrayFacts
    <3>2. /\ [tray[p] EXCEPT !.at = "wire", !.toggled = TRUE] \in MenuState
          /\ [tray[p] EXCEPT !.at = "wire", !.toggled = TRUE].handle = tray[p].handle
          /\ [tray[p] EXCEPT !.at = "wire", !.toggled = TRUE].at = "wire"
      BY TrayFacts DEF MenuState
    <3> QED
      BY <3>1, <3>2
  <2> QED
    BY <2>1, <2>2
<1>3. /\ tray' \in [Processes -> MenuState] /\ tray'[p] = menu
      /\ \A q \in Processes : q # p => tray'[q] = tray[q]
  BY <1>2, TrayFacts
<1>4. MenuRight(p)'
  BY <1>2, <1>3 DEF MenuRight
<1>5. srv' \in [Servers -> SrvState]
  BY <1>1 DEF Solid, Types
<1> QED
  BY <1>1, <1>3, <1>4, <1>5, MenuStep

LEMMA TrayUnwrapsKeeps ==
    ASSUME Solid, NEW p \in Processes, TrayUnwraps(p)
    PROVE  Solid'
<1>1. /\ UNCHANGED <<os, proc, port, job, pidfile, cmd, untold, surprised>>
      /\ proc[p] = "tray" /\ tray[p].at = "unwrap"
      /\ srv' = [srv EXCEPT ![Handle(p)].stop = TRUE]
  BY DEF TrayUnwraps, TrayAt
<1>2. tray[p].handle # 0 /\ Handle(p) \in Servers /\ Owner(Handle(p)) = p
  BY <1>1, TrayFacts DEF MenuRight, Handle, Owner
<1>3. /\ tray' \in [Processes -> MenuState]
      /\ \A q \in Processes : q # p => tray'[q] = tray[q]
      /\ tray'[p].at = "join" /\ tray'[p].handle = tray[p].handle
      /\ tray'[p].shown # "Active"
  <2>1. PICK word \in {"Stopped", "Warning"} :
            tray' = [tray EXCEPT ![p].at = "join", ![p].shown = word]
    BY DEF TrayUnwraps
  <2>2. tray' = [tray EXCEPT ![p] = [tray[p] EXCEPT !.at = "join", !.shown = word]]
    BY <2>1, TrayFacts
  <2>3. /\ [tray[p] EXCEPT !.at = "join", !.shown = word] \in MenuState
        /\ [tray[p] EXCEPT !.at = "join", !.shown = word].at = "join"
        /\ [tray[p] EXCEPT !.at = "join", !.shown = word].handle = tray[p].handle
        /\ [tray[p] EXCEPT !.at = "join", !.shown = word].shown = word
    BY TrayFacts DEF MenuState
  <2> QED
    BY <2>2, <2>3, TrayFacts
<1>4. /\ srv' \in [Servers -> SrvState]
      /\ \A t \in Servers : t # Handle(p) => srv'[t] = srv[t]
      /\ srv'[Handle(p)].at = srv[Handle(p)].at
  <2>1. srv' = [srv EXCEPT ![Handle(p)] = [srv[Handle(p)] EXCEPT !.stop = TRUE]]
    BY <1>1, <1>2, SrvFacts
  <2>2. [srv[Handle(p)] EXCEPT !.stop = TRUE] \in SrvState
    BY <1>2, SrvFacts DEF SrvState
  <2> QED
    BY <1>2, <2>1, <2>2, SrvFacts DEF SrvState
<1>5. MenuRight(p)'
  BY <1>2, <1>3 DEF MenuRight
<1>6. \A t \in Servers :
        /\ Owner(t) # p => srv'[t] = srv[t]
        /\ srv'[t].at = srv[t].at \/ (srv[t].at = "none" /\ srv'[t].at = "bind")
  BY <1>2, <1>4
<1> QED
  BY <1>1, <1>3, <1>4, <1>5, <1>6, MenuStep

LEMMA TrayJoinsKeeps ==
    ASSUME Solid, NEW p \in Processes, TrayJoins(p)
    PROVE  Solid'
<1>1. /\ UNCHANGED <<os, pidfile, cmd, untold>> /\ surprised' = surprised \ {p}
      /\ proc[p] = "tray" /\ tray[p].at = "join"
      /\ cmd' \in CmdState /\ Stages' /\ surprised' \subseteq Processes
  BY DEF TrayJoins, TrayAt, outside, Solid, Types, Stages
<1>2. CASE tray[p].quits
  <2> DEFINE gone == {p}
             j == JobWithout(gone, FALSE)
  <2>1. gone \in SUBSET Processes /\ Ended(gone, j)
    BY <1>2 DEF TrayJoins
  <2>2. JobSound(j, Up \ gone) /\ (os = "windows" => j = job)
    BY <2>1, JobWithoutSound DEF Solid
  <2>3. \A q \in Processes \ gone : q \in surprised' <=> q \in surprised
    BY <1>1
  <2> HIDE DEF gone, j
  <2> QED
    BY <1>1, <2>1, <2>2, <2>3, EndedStep DEF Solid, Platform
<1>3. CASE ~ tray[p].quits
  <2> DEFINE menu == [NoTray EXCEPT !.shown = tray[p].shown]
  <2>1. tray' = [tray EXCEPT ![p] = menu] /\ UNCHANGED <<proc, srv, port, job>>
    BY <1>3 DEF TrayJoins
  <2>2. /\ menu \in MenuState /\ menu.at = "idle" /\ menu.handle = 0
        /\ menu.shown = tray[p].shown
    BY TrayFacts DEF MenuState, NoTray
  <2> HIDE DEF menu
  <2>3. /\ tray' \in [Processes -> MenuState] /\ tray'[p] = menu
        /\ \A q \in Processes : q # p => tray'[q] = tray[q]
    BY <2>1, <2>2, TrayFacts
  <2>4. MenuRight(p)'
    <3>1. tray[p].shown # "Active"
      BY <1>1, TrayFacts DEF MenuRight
    <3> QED
      BY <2>2, <2>3, <3>1 DEF MenuRight, Rests
  <2>5. srv' \in [Servers -> SrvState]
    BY <2>1 DEF Solid, Types
  <2> QED
    BY <1>1, <2>1, <2>3, <2>4, <2>5, MenuStep
<1> QED
  BY <1>2, <1>3

LEMMA InitSolid ==
    ASSUME Init
    PROVE  Solid
<1>0. NoSrv \in SrvState /\ NoSrv.at = "none" /\ ~ NoSrv.stop
  BY DEF NoSrv, SrvState, ServerPlaces
<1>1. NoTray \in MenuState /\ NoTray.at = "idle" /\ NoTray.handle = 0
      /\ NoTray.shown = "Stopped"
  BY DEF NoTray, MenuState
<1>2. NoCmd \in CmdState /\ NoCmd.op = "none" /\ NoCmd.at = "idle"
  BY DEF NoCmd, CmdState
<1>3. NoJob \in [state : {"none", "running", "restart", "down"}, pid : Processes \cup {Nobody}]
      /\ NoJob.state = "none" /\ NoJob.pid = Nobody
  BY DEF NoJob
<1> HIDE DEF NoSrv, NoTray, NoCmd, NoJob
<1>4. Types
  BY <1>0, <1>1, <1>2, <1>3 DEF Init, Types
<1>5. Owned
  BY <1>0, <1>3, Ranges DEF Init, Owned, Bound
<1>6. PidfileTruth
  BY <1>0, Ranges DEF Init, PidfileTruth, At, Up
<1>7. Menus
  BY <1>1 DEF Init, Menus, MenuRight, Rests
<1>8. Platform /\ Stages
  BY <1>2, <1>3 DEF Init, Platform, Stages
<1> QED
  BY <1>4, <1>5, <1>6, <1>7, <1>8 DEF Solid

-----------------------------------------------------------------------------
(* `deectx stop` is not disturbed                                          *)

\* What holds of a state of a stop that nothing has crossed.
LEMMA StopFacts ==
    ASSUME IInv, Stops
    PROVE  /\ Undisturbed
           /\ os = "linux" \/ os = "windows"
           /\ cmd.at \in {"unwrap", "kill", "clear", "uninstall", "idle"}
           /\ os = "linux" => /\ \A p \in Processes : proc[p] # "tray"
                              /\ \A s \in Servers : ~ srv[s].stop
           /\ \A s \in Servers : ~ At(s, "drain")
           /\ \A s \in Servers : At(s, "bind") \/ At(s, "write") => Units(s) /\ cmd.at # "idle"
<1>1. Undisturbed
  BY DEF IInv, Stopping, Stops
<1>2. os = "linux" \/ os = "windows"
  BY SystemsAssumption DEF IInv, Solid, Types, Stops
<1>3. cmd.at \in {"unwrap", "kill", "clear", "uninstall", "idle"}
  BY DEF IInv, Solid, Stages, Stops
<1>4. os = "linux" => /\ \A p \in Processes : proc[p] # "tray"
                      /\ \A s \in Servers : ~ srv[s].stop
  BY Ranges DEF IInv, Solid, Platform, Owned
<1>5. ASSUME NEW s \in Servers
      PROVE  /\ ~ At(s, "drain")
             /\ At(s, "bind") \/ At(s, "write") => Units(s) /\ cmd.at # "idle"
  <2>1. Harmless(s)
    BY <1>1 DEF Undisturbed
  <2> QED
    BY <2>1 DEF Harmless, Units, At
<1> QED
  BY <1>1, <1>2, <1>3, <1>4, <1>5

LEMMA ServerStops ==
    ASSUME IInv, NEW s \in Servers, Server(s), Stops'
    PROVE  Undisturbed'
<1>0. /\ UNCHANGED <<os, cmd, wired, enabled>> /\ (calm' => calm)
  <2>1. CASE Bind(s)
    BY <2>1 DEF Bind, outside, history
  <2>2. CASE BindFails(s)
    BY <2>2 DEF BindFails, outside, history
  <2>3. CASE Finish(s)
    BY <2>3 DEF Finish
  <2>4. CASE WritePid(s)
    BY <2>4 DEF WritePid, NoMishap, Mishap
  <2>5. CASE CloseListener(s)
    BY <2>5 DEF CloseListener, outside, NoMishap, Mishap
  <2> QED
    BY <2>1, <2>2, <2>3, <2>4, <2>5 DEF Server
<1>1. Stops
  BY <1>0 DEF Stops
<1>2. /\ Undisturbed /\ ~ At(s, "drain")
      /\ At(s, "bind") \/ At(s, "write") => Units(s) /\ cmd.at # "idle"
      /\ os = "linux" => /\ \A p \in Processes : proc[p] # "tray"
                         /\ \A t \in Servers : ~ srv[t].stop
  BY <1>1, StopFacts
<1>3. CASE Bind(s)
  <2>1. /\ UNCHANGED <<job, tray, pidfile>> /\ At(s, "bind")
    BY <1>3 DEF Bind, outside
  <2>2. /\ \A t \in Servers : t # s => srv'[t] = srv[t]
        /\ srv'[s].at = "write"
    BY <1>3, SrvFacts DEF Bind, IInv, SrvState
  <2>3. ASSUME NEW t \in Servers PROVE Harmless(t)'
    <3>1. CASE t = s
      BY <1>0, <1>2, <2>1, <2>2, <3>1 DEF Harmless, Units, At
    <3>2. CASE t # s
      BY <1>0, <1>2, <2>1, <2>2, <3>2 DEF Undisturbed, Harmless, Units, At
    <3> QED
      BY <3>1, <3>2
  <2> QED
    BY <1>0, <1>2, <2>1, <2>3 DEF Undisturbed
<1>4. CASE BindFails(s)
  <2>1. At(s, "bind") /\ pidfile' = pidfile /\ os = "linux" /\ Owner(s) = job.pid
        /\ cmd.at # "idle"
    BY <1>2, <1>4 DEF BindFails, outside, Units
  <2> DEFINE gone == {job.pid}
             j == JobWithout(gone, TRUE)
  <2>2. gone \in SUBSET Processes /\ Ended(gone, j)
    <3>1. gone = {Owner(s)} /\ Owner(s) \in Processes /\ proc[Owner(s)] # "tray"
      BY <1>2, <2>1, Ranges
    <3>2. Ended({Owner(s)}, JobWithout({Owner(s)}, TRUE))
      BY <1>4, <3>1 DEF BindFails
    <3> HIDE DEF gone
    <3> QED
      BY <3>1, <3>2
  <2>3. j.pid \notin gone
    BY <2>2, JobWithoutSound DEF IInv, Solid
  <2> HIDE DEF j
  <2>4. Went(gone, j)
    BY <2>2, EndedEffect DEF IInv, Solid
  <2>5. ASSUME NEW t \in Servers PROVE Harmless(t)'
    <3>1. CASE Owner(t) = job.pid
      BY <2>4, <3>1 DEF Went, Harmless, At, NoSrv
    <3>2. CASE Owner(t) # job.pid
      BY <1>0, <1>2, <2>1, <2>4, <3>2 DEF Went, Undisturbed, Harmless, Units, At
    <3> QED
      BY <3>1, <3>2
  <2>6. \A p \in Processes : tray'[p].at = "idle"
    BY <1>2, <2>4 DEF Went, Undisturbed, NoTray
  <2> QED
    BY <1>0, <1>2, <2>1, <2>5, <2>6 DEF Undisturbed
<1>5. CASE WritePid(s)
  <2>1. /\ UNCHANGED <<job, tray>> /\ At(s, "write")
    BY <1>5 DEF WritePid
  <2>2. /\ \A t \in Servers : t # s => srv'[t] = srv[t]
        /\ srv'[s].at = "serve"
    BY <1>5, MoveEffect DEF WritePid, IInv, ServerPlaces
  <2>3. ASSUME NEW t \in Servers PROVE Harmless(t)'
    <3>1. CASE t = s
      BY <1>0, <1>2, <2>1, <2>2, <3>1 DEF Harmless, Units, At
    <3>2. CASE t # s
      <4>1. ~ At(t, "serve")
        BY <2>1, <3>2, SrvFacts DEF IInv, Bound, At
      <4> QED
        BY <1>0, <1>2, <2>1, <2>2, <3>2, <4>1 DEF Undisturbed, Harmless, Units, At
    <3> QED
      BY <3>1, <3>2
  <2> QED
    BY <1>0, <1>2, <2>1, <2>3 DEF Undisturbed
<1>6. CASE CloseListener(s)
  <2>1. At(s, "serve") /\ srv[s].stop
    BY <1>6 DEF CloseListener, Mishap, Stops
  <2> QED
    BY <1>2, <2>1 DEF Undisturbed, Harmless, Units, At
<1>7. CASE Finish(s)
  BY <1>2, <1>7 DEF Finish
<1> QED
  BY <1>3, <1>4, <1>5, <1>6, <1>7 DEF Server

LEMMA MenuStops ==
    ASSUME IInv, NEW p \in Processes, Menu(p), Stops'
    PROVE  Undisturbed'
<1>1. UNCHANGED <<os, cmd>> /\ (calm' => calm)
  <2>1. CASE TrayWires(p)
    BY <2>1 DEF TrayWires, history
  <2>2. CASE TrayStarted(p)
    BY <2>2 DEF TrayStarted, NoMishap, Mishap
  <2>3. CASE TrayUnwraps(p)
    BY <2>3 DEF TrayUnwraps, NoMishap, Mishap
  <2>4. CASE TrayJoins(p)
    BY <2>4 DEF TrayJoins
  <2> QED
    BY <2>1, <2>2, <2>3, <2>4 DEF Menu
<1>2. tray[p].at = "idle"
  BY <1>1, StopFacts DEF Stops, Undisturbed
<1> QED
  BY <1>2 DEF Menu, TrayWires, TrayStarted, TrayUnwraps, TrayJoins, TrayAt

LEMMA RestartStops ==
    ASSUME IInv, Restart, Stops'
    PROVE  Undisturbed'
<1>0. UNCHANGED <<os, cmd, wired, enabled, pidfile, calm>> /\ job.state = "restart"
  BY DEF Restart, outside
<1>1. Stops
  BY <1>0 DEF Stops
<1>2. Undisturbed /\ os = "linux" /\ cmd.at # "idle" /\ job.pid = Nobody
  BY <1>0, <1>1, StopFacts DEF Undisturbed, IInv, Solid, Owned
<1>3. ASSUME NEW s \in Servers PROVE ~ Units(s)
  BY <1>2, Ranges DEF Units
<1>4. ASSUME Free # {}, NEW kind \in Kinds, Launched(Min(Free), kind),
             job' = IF os = "windows" THEN NoJob
                    ELSE [state |-> "running", pid |-> Min(Free)]
      PROVE  Undisturbed'
  <2> DEFINE p == Min(Free)
  <2>1. p \in Free /\ kind = "serve"
    BY <1>2, <1>4, FreeMin DEF IInv, Solid, Kinds
  <2>2. Came(p, "serve")
    BY <1>4, <2>1, LaunchedEffect DEF IInv, Solid
  <2>3. job'.state = "running" /\ job'.pid = p
    BY <1>2, <1>4
  <2> HIDE DEF p
  <2>4. \A q \in Processes : tray'[q].at = "idle"
    BY <1>2, <2>2 DEF Came, Undisturbed
  <2>5. ASSUME NEW s \in Servers PROVE Harmless(s)'
    <3>1. CASE s = <<p, 1>>
      BY <1>0, <1>2, <2>2, <2>3, <3>1 DEF Came, Harmless, Units, At, Owner
    <3>2. CASE s # <<p, 1>>
      BY <1>0, <1>2, <1>3, <2>2, <3>2 DEF Came, Undisturbed, Harmless, At
    <3> QED
      BY <3>1, <3>2
  <2> QED
    BY <1>0, <1>2, <2>3, <2>4, <2>5 DEF Undisturbed
<1>5. ASSUME job' = [state |-> "down", pid |-> Nobody], UNCHANGED <<proc, srv, tray>>
      PROVE  Undisturbed'
  BY <1>0, <1>2, <1>3, <1>5 DEF Undisturbed, Harmless, At
<1> QED
  BY <1>4, <1>5 DEF Restart

LEMMA BeginStops ==
    ASSUME IInv, BeginStart \/ BeginStop, Stops'
    PROVE  Undisturbed'
<1>1. /\ UNCHANGED <<os, running, outside>> /\ Settled
      /\ cmd' = [NoCmd EXCEPT !.op = "stop", !.at = "unwrap"]
  BY DEF BeginStart, BeginStop, Begin, Stops, NoCmd
<1>2. cmd'.at = "unwrap" /\ UNCHANGED <<srv, pidfile, job, tray, proc>>
  BY <1>1 DEF NoCmd, running, outside
<1>3. ASSUME NEW s \in Servers PROVE Harmless(s)'
  <2>1. At(s, "serve") => pidfile = Owner(s)
    <3>1. SUFFICES ASSUME At(s, "serve") PROVE pidfile = Owner(s)
      OBVIOUS
    <3>2. s = port
      BY <3>1, SrvFacts DEF IInv, Bound, At
    <3> QED
      BY <1>1, <3>2, Ranges DEF Settled
  <2> QED
    BY <1>1, <1>2, <2>1 DEF Settled, Harmless, Units, At
<1> QED
  BY <1>1, <1>2, <1>3 DEF Settled, Undisturbed

LEMMA UnwrapStops ==
    ASSUME IInv, Unwrap, Stops'
    PROVE  Undisturbed'
<1>1. /\ UNCHANGED <<os, srv, pidfile, job, tray>> /\ cmd.at = "unwrap" /\ cmd.op = "stop"
      /\ ~ wired' /\ calm /\ cmd' = [cmd EXCEPT !.at = "kill"]
  BY DEF Unwrap, CmdAt, Then, Stops, Mishap, NoMishap, running
<1>2. Undisturbed
  BY <1>1, StopFacts DEF Stops
<1>3. cmd'.at = "kill"
  BY <1>1 DEF IInv, Solid, Types, CmdState
<1> QED
  BY <1>1, <1>2, <1>3 DEF Undisturbed, Harmless, Units, At

LEMMA KillProxyStops ==
    ASSUME IInv, KillProxy, Stops'
    PROVE  Undisturbed'
<1>1. /\ UNCHANGED <<os, outside>> /\ cmd.at = "kill"
      /\ calm /\ calm'
  BY DEF KillProxy, Stops, Mishap, NoMishap
<1>2. /\ cmd.op = "stop"
      /\ cmd'.at = IF pidfile = Nobody THEN "uninstall" ELSE "clear"
  BY DEF KillProxy, Then, AfterKill, Stops, IInv, Solid, Types, CmdState
<1>3. Undisturbed
  BY <1>1, <1>2, StopFacts DEF Stops
<1>4. UNCHANGED <<pidfile, wired, enabled>>
  BY <1>1 DEF outside
<1>5. CASE pidfile = Nobody
  <2>1. UNCHANGED <<srv, job, tray>>
    BY <1>5 DEF KillProxy, running
  <2>2. ASSUME NEW s \in Servers PROVE Harmless(s)'
    <3>1. pidfile # Owner(s)
      BY <1>5, Ranges
    <3> QED
      BY <1>1, <1>2, <1>3, <1>5, <2>1, <3>1 DEF Undisturbed, Harmless, Units, At
  <2> QED
    BY <1>1, <1>2, <1>3, <1>4, <1>5, <2>1, <2>2 DEF Undisturbed
<1>6. CASE pidfile # Nobody
  <2> DEFINE gone == {pidfile} \cap Up
             j == JobWithout(gone, FALSE)
  <2>1. gone \in SUBSET Processes /\ Ended(gone, j)
    BY <1>1, <1>6 DEF KillProxy, Mishap, Up
  <2>2. /\ os = "windows" => j = job
        /\ j = job \/ (job.pid \in gone /\ j.pid = Nobody)
        /\ os = "linux" => j = job \/ j.state = "down"
    BY <2>1, JobWithoutSound DEF IInv, Solid
  <2>3. Went(gone, j)
    <3> HIDE DEF j, gone
    <3> QED
      BY <2>1, EndedEffect DEF IInv, Solid
  <2> HIDE DEF j
  <2>4. ASSUME NEW s \in Servers PROVE Harmless(s)'
    <3>1. CASE Owner(s) \in gone
      <4> HIDE DEF gone
      <4> QED
        BY <2>3, <3>1 DEF Went, Harmless, At, NoSrv
    <3>2. CASE Owner(s) \notin gone
      <4>1. srv'[s] = srv[s]
        BY <2>3, <3>2 DEF Went
      <4>2. pidfile = Owner(s) => At(s, "none")
        BY <3>2, SrvFacts DEF IInv, Solid, Owned, At, Up
      <4>3. Units(s) => j = job
        BY <2>2, <3>2 DEF Units
      <4>4. job' = j
        BY <2>3 DEF Went
      <4> QED
        BY <1>1, <1>2, <1>3, <1>6, <4>1, <4>2, <4>3, <4>4 DEF Undisturbed, Harmless, Units, At
    <3> QED
      BY <3>1, <3>2
  <2>5. \A p \in Processes : tray'[p].at = "idle"
    BY <1>3, <2>3 DEF Went, Undisturbed, NoTray
  <2>6. job'.state = "restart" => os = "linux"
    <3>1. os = "linux" \/ os = "windows"
      BY <1>1, <1>2, StopFacts DEF Stops
    <3>2. job' = j
      BY <2>3 DEF Went
    <3> QED
      BY <1>3, <2>2, <3>1, <3>2 DEF Undisturbed
  <2> QED
    BY <1>1, <1>2, <1>3, <1>4, <1>6, <2>4, <2>5, <2>6 DEF Undisturbed
<1> QED
  BY <1>5, <1>6

LEMMA ClearPidfileStops ==
    ASSUME IInv, ClearPidfile, Stops'
    PROVE  Undisturbed'
<1>1. /\ UNCHANGED <<os, srv, job, tray, wired, enabled, calm>> /\ cmd.at = "clear"
      /\ cmd' = [cmd EXCEPT !.at = AfterKill, !.seen = Nobody]
  BY DEF ClearPidfile, running
<1>2. cmd.op = "stop" /\ cmd'.at = "uninstall"
  BY <1>1 DEF AfterKill, Stops, IInv, Solid, Types, CmdState
<1>3. Undisturbed
  BY <1>1, <1>2, StopFacts DEF Stops
<1> QED
  BY <1>1, <1>2, <1>3 DEF Undisturbed, Harmless, Units, At

LEMMA UninstallStops ==
    ASSUME IInv, Uninstall, Stops'
    PROVE  Undisturbed'
<1> DEFINE gone == {job.pid} \cap Up
<1>1. /\ UNCHANGED <<os, pidfile, wired>> /\ ~ enabled' /\ calm
      /\ cmd.op = "stop" /\ cmd.at = "uninstall"
      /\ gone \in SUBSET Processes /\ Ended(gone, NoJob)
  BY DEF Uninstall, CmdAt, Stops, Mishap, NoMishap, Up
<1>2. Undisturbed
  BY <1>1, StopFacts DEF Stops
<1>3. cmd'.at = "idle"
  BY DEF Uninstall, Then, IInv, Solid, Types, CmdState
<1>4. Went(gone, NoJob)
  <2> HIDE DEF gone
  <2> QED
    BY <1>1, EndedEffect DEF IInv, Solid
<1>5. NoJob.state = "none" /\ NoJob.pid = Nobody /\ job' = NoJob
  BY <1>4 DEF NoJob, Went
<1>6. ASSUME NEW s \in Servers PROVE Harmless(s)'
  <2>1. CASE Owner(s) \in gone
    <3> HIDE DEF gone
    <3> QED
      BY <1>4, <2>1 DEF Went, Harmless, At, NoSrv
  <2>2. CASE Owner(s) \notin gone
    <3>1. srv'[s] = srv[s]
      BY <1>4, <2>2 DEF Went
    <3>2. Units(s) => At(s, "none")
      BY <2>2, SrvFacts DEF Units, IInv, Solid, Owned, At
    <3> QED
      BY <1>1, <1>2, <3>1, <3>2 DEF Undisturbed, Harmless, At
  <2> QED
    BY <2>1, <2>2
<1>7. \A p \in Processes : tray'[p].at = "idle"
  BY <1>2, <1>4 DEF Went, Undisturbed, NoTray
<1> QED
  BY <1>1, <1>2, <1>3, <1>5, <1>6, <1>7 DEF Undisturbed

-----------------------------------------------------------------------------
(* The invariant and its theorems                                          *)

LEMMA NextSolid ==
    ASSUME Solid, Next
    PROVE  Solid'
<1>1. ASSUME NEW s \in Servers, Server(s) PROVE Solid'
  BY <1>1, BindKeeps, BindFailsKeeps, WritePidKeeps, CloseListenerKeeps, FinishKeeps DEF Server
<1>2. ASSUME NEW p \in Processes, Menu(p) \/ Toggle(p) \/ Quit(p) \/ Crash(p) PROVE Solid'
  BY <1>2, TrayWiresKeeps, TrayStartedKeeps, TrayUnwrapsKeeps, TrayJoinsKeeps, ToggleKeeps,
     QuitKeeps, CrashKeeps DEF Menu
<1>3. ASSUME Command PROVE Solid'
  BY <1>3, CommandKeeps, KillProxyKeeps, ClearPidfileKeeps, InstallDaemonKeeps, SpawnKeeps,
     UninstallKeeps DEF Command
<1> QED
  BY <1>1, <1>2, <1>3, RestartKeeps, RebootKeeps, CommandKeeps DEF Next

\* A click, a crash, or a reboot: the command is not calm any more.
LEMMA CrossedStops ==
    ASSUME Reboot \/ \E p \in Processes : Toggle(p) \/ Quit(p) \/ Crash(p)
    PROVE  ~ calm'
BY DEF Reboot, Toggle, Quit, Crash, Click, Mishap

\* A step of `deectx start` is none of a stop.
LEMMA StartStops ==
    ASSUME IInv, WireTools \/ InstallDaemon \/ Spawn \/ Await
    PROVE  ~ Stops'
<1>1. cmd.op = "start" /\ \E place \in {"install", "spawn", "await", "idle"} : Then(place)
  <2>1. CASE WireTools
    BY <2>1 DEF WireTools, CmdAt
  <2>2. CASE InstallDaemon
    BY <2>2 DEF InstallDaemon, CmdAt
  <2>3. CASE Spawn
    BY <2>3 DEF Spawn, CmdAt
  <2>4. CASE Await
    BY <2>4 DEF Await, CmdAt
  <2> QED
    BY <2>1, <2>2, <2>3, <2>4
<1> QED
  BY <1>1 DEF Then, Stops, IInv, Solid, Types, CmdState

LEMMA NextStopping ==
    ASSUME IInv, Next
    PROVE  Stopping'
<1>1. SUFFICES ASSUME Stops' PROVE Undisturbed'
  BY DEF Stopping, Stops
<1>2. calm'
  BY <1>1 DEF Stops
<1>3. ASSUME Command PROVE Undisturbed'
  BY <1>1, <1>3, UnwrapStops, KillProxyStops, ClearPidfileStops, UninstallStops, StartStops
  DEF Command
<1> QED
  BY <1>1, <1>2, <1>3, ServerStops, MenuStops, RestartStops, BeginStops, CrossedStops DEF Next

LEMMA StutterKeeps ==
    ASSUME IInv, UNCHANGED vars
    PROVE  IInv'
<1>1. /\ UNCHANGED <<os, running, pidfile, untold, surprised, cmd, wired, enabled, calm>>
      /\ UNCHANGED <<proc, srv, port, job, tray>>
  BY DEF vars, running
<1>2. cmd' \in CmdState /\ Stages' /\ pidfile' \in Processes \cup {Nobody}
      /\ untold' \subseteq Processes
  BY <1>1 DEF IInv, Solid, Types, Stages
<1>3. PidfileTruth'
  BY <1>1, PidfileFrame DEF IInv, Solid
<1>4. Solid'
  BY <1>1, <1>2, <1>3, QuietStep DEF IInv
<1>5. Stopping'
  BY <1>1 DEF IInv, Stopping, Stops, Undisturbed, Harmless, Units, At
<1> QED
  BY <1>4, <1>5 DEF IInv

\* The inductive invariant holds of every state the processes can be in.
LEMMA Invariance == Spec => []IInv
<1>1. Init => IInv
  BY InitSolid DEF Init, IInv, Stopping, Stops, NoCmd
<1>2. IInv /\ [Next]_vars => IInv'
  BY NextSolid, NextStopping, StutterKeeps DEF IInv
<1> QED
  BY <1>1, <1>2, PTL DEF Spec

\* The state is well typed, the port belongs to the one server that is bound, and
\* only processes that are up have servers, jobs and menus.
THEOREM TypeCorrect == Spec => []TypeOK
<1>1. IInv => TypeOK
  <2>1. SUFFICES ASSUME IInv PROVE TypeOK
    OBVIOUS
  <2>2. \A s \in Servers : srv[s].at \in ServerPlaces
    BY <2>1, SrvFacts DEF IInv, SrvState
  <2>3. job.pid \in Up \cup {Nobody} /\ (job.state = "running" <=> job.pid # Nobody)
    BY <2>1 DEF IInv, Solid, Owned
  <2> QED
    BY <2>1, <2>2, <2>3 DEF TypeOK, IInv, Solid, Types, Owned, ServerPlaces
<1> QED
  BY <1>1, Invariance, PTL

\* `deectx stop` means off (lifecycle.rs:137-141), with any number of processes and
\* after any history: once it ends, and nothing crossed it, no proxy serves or will,
\* no tool is wired, and nothing starts at login (but for macOS).
THEOREM StopEndsAll == Spec => []StopMeansOff
<1>1. IInv => StopMeansOff
  <2>1. SUFFICES ASSUME IInv, CmdAt("stop", "idle"), calm, os # "macos"
                 PROVE  /\ \A s \in Servers : srv[s].at = "none"
                        /\ ~ wired /\ ~ enabled
                        /\ job.pid = Nobody /\ job.state # "restart"
    BY DEF StopMeansOff
  <2>2. Undisturbed /\ cmd.at = "idle"
    BY <2>1 DEF IInv, Stopping, Stops, CmdAt
  <2> QED
    BY <2>2 DEF Undisturbed, Harmless, At
<1> QED
  BY <1>1, Invariance, PTL

\* What `status` makes of the pidfile is right, however many processes race for the
\* port, crash and come back (lifecycle.rs, run_proxy).
THEOREM PidfileIsTrue == Spec => []PidfileTruth
<1>1. IInv => PidfileTruth
  BY DEF IInv, Solid
<1> QED
  BY <1>1, Invariance, PTL

\* The menu at rest shows whether its proxy runs (tray/mod.rs), but for the trays
\* the code does not keep up with.
THEOREM MenusAreTrue == Spec => []TrayShows
<1>1. IInv => TrayShows
  <2>1. SUFFICES ASSUME IInv, NEW p \in Processes \ surprised, TrayAt(p, "idle")
                 PROVE  tray[p].shown = "Active" <=> tray[p].handle # 0 /\ Handle(p) \in Bound
    BY DEF TrayShows
  <2>2. Rests(p)
    BY <2>1, TrayFacts DEF IInv, TrayAt, MenuRight
  <2> QED
    BY <2>1, <2>2 DEF Rests
<1> QED
  BY <1>1, Invariance, PTL

-----------------------------------------------------------------------------
(* The proxies of a tray and its menu                                      *)

Attended(p, i) ==
    proc[p] = "tray" /\ srv[<<p, i>>].at # "none" /\ ~ srv[<<p, i>>].stop =>
        \/ i = tray[p].handle
        \/ TrayAt(p, "wait") /\ i = tray[p].next

\* A server that was there and a menu that stays as it is.
LEMMA AttendedFrame ==
    ASSUME NEW p \in Processes, NEW i \in Slots, Attended(p, i),
           proc'[p] = "tray" =>
               /\ proc[p] = "tray" /\ tray'[p] = tray[p]
               /\ srv'[<<p, i>>].at # "none" /\ ~ srv'[<<p, i>>].stop =>
                      srv[<<p, i>>].at # "none" /\ ~ srv[<<p, i>>].stop
    PROVE  Attended(p, i)'
BY DEF Attended, TrayAt

LEMMA EndedAttends ==
    ASSUME Solid, NoneUnattended, NEW gone \in SUBSET Processes, NEW j, Ended(gone, j)
    PROVE  NoneUnattended'
<1>1. Went(gone, j)
  BY EndedEffect DEF Solid
<1>2. ASSUME NEW p \in Processes, NEW i \in Slots PROVE Attended(p, i)'
  <2>1. CASE p \in gone
    BY <1>1, <2>1 DEF Went, Attended
  <2>2. CASE p \notin gone
    <3>1. srv'[<<p, i>>] = srv[<<p, i>>] /\ tray'[p] = tray[p] /\ proc'[p] = proc[p]
      BY <1>1, <2>2, Ranges DEF Went
    <3>2. Attended(p, i)
      BY DEF NoneUnattended, Attended
    <3> QED
      BY <3>1, <3>2, AttendedFrame
  <2> QED
    BY <2>1, <2>2
<1> QED
  BY <1>2 DEF NoneUnattended, Attended

LEMMA LaunchedAttends ==
    ASSUME Solid, NoneUnattended, NEW q \in Free, NEW kind \in Kinds, Launched(q, kind)
    PROVE  NoneUnattended'
<1>1. Came(q, kind)
  BY LaunchedEffect DEF Solid, Kinds
<1>2. \A s \in Servers : Owner(s) = q => srv[s].at = "none"
  BY <1>1 DEF Came, Solid, Owned
<1>3. ASSUME NEW p \in Processes, NEW i \in Slots PROVE Attended(p, i)'
  <2>1. CASE p = q
    <3>1. kind # "tray" => proc'[p] # "tray"
      BY <1>1, <2>1 DEF Came, Solid, Types
    <3>2. kind = "tray" => srv'[<<p, i>>] = srv[<<p, i>>] /\ srv[<<p, i>>].at = "none"
      BY <1>1, <1>2, <2>1, Ranges DEF Came
    <3> QED
      BY <3>1, <3>2 DEF Attended
  <2>2. CASE p # q
    <3>1. srv'[<<p, i>>] = srv[<<p, i>>] /\ tray'[p] = tray[p] /\ proc'[p] = proc[p]
      BY <1>1, <2>2, Ranges DEF Came, Solid, Types
    <3>2. Attended(p, i)
      BY DEF NoneUnattended, Attended
    <3> QED
      BY <3>1, <3>2, AttendedFrame
  <2> QED
    BY <2>1, <2>2
<1> QED
  BY <1>3 DEF NoneUnattended, Attended

\* One server moves on, or is over.
LEMMA MovedAttends ==
    ASSUME Solid, NoneUnattended, NEW s \in Servers, srv[s].at # "none",
           UNCHANGED <<proc, tray>>, \A t \in Servers : t # s => srv'[t] = srv[t],
           srv'[s].at = "none" \/ srv'[s].stop = srv[s].stop
    PROVE  NoneUnattended'
<1>1. ASSUME NEW p \in Processes, NEW i \in Slots PROVE Attended(p, i)'
  <2>1. Attended(p, i) /\ <<p, i>> \in Servers
    BY Ranges DEF NoneUnattended, Attended
  <2>2. srv'[<<p, i>>].at # "none" /\ ~ srv'[<<p, i>>].stop =>
            srv[<<p, i>>].at # "none" /\ ~ srv[<<p, i>>].stop
    BY <2>1
  <2> QED
    BY <2>1, <2>2, AttendedFrame
<1> QED
  BY <1>1 DEF NoneUnattended, Attended

LEMMA ServerAttends ==
    ASSUME Solid, NoneUnattended, NEW s \in Servers, Server(s)
    PROVE  NoneUnattended'
<1>1. ASSUME Over(s), srv[s].at # "none", UNCHANGED <<proc, tray>> PROVE NoneUnattended'
  BY <1>1, OverEffect, MovedAttends
<1>2. ASSUME NEW place \in ServerPlaces, Move(s, place), srv[s].at # "none",
             UNCHANGED <<proc, tray>>
      PROVE  NoneUnattended'
  BY <1>2, MoveEffect, MovedAttends
<1>3. ASSUME Ended({Owner(s)}, JobWithout({Owner(s)}, TRUE)) PROVE NoneUnattended'
  BY <1>3, EndedAttends, Ranges
<1>4. CASE Bind(s)
  <2>1. srv[s].at # "none" /\ UNCHANGED <<proc, tray>>
    BY <1>4 DEF Bind, At
  <2>2. /\ \A t \in Servers : t # s => srv'[t] = srv[t]
        /\ srv'[s].stop = srv[s].stop
    BY <1>4, SrvFacts DEF Bind, SrvState
  <2> QED
    BY <2>1, <2>2, MovedAttends
<1>5. CASE BindFails(s)
  BY <1>1, <1>3, <1>5 DEF BindFails, At
<1>6. CASE WritePid(s)
  BY <1>2, <1>6 DEF WritePid, At, ServerPlaces
<1>7. CASE CloseListener(s)
  BY <1>2, <1>7 DEF CloseListener, At, ServerPlaces
<1>8. CASE Finish(s)
  BY <1>1, <1>3, <1>8 DEF Finish, At
<1> QED
  BY <1>4, <1>5, <1>6, <1>7, <1>8 DEF Server

\* What a menu does to its own servers; nobody else's change.
LEMMA MenuAttends ==
    ASSUME Solid, NoneUnattended, NEW q \in Processes, Menu(q) \/ Toggle(q)
    PROVE  NoneUnattended'
<1>0. /\ tray \in [Processes -> MenuState] /\ srv \in [Servers -> SrvState]
      /\ \A i \in Slots : Attended(q, i) /\ <<q, i>> \in Servers
      /\ MenuRight(q)
  BY TrayFacts, Ranges DEF Solid, Types, NoneUnattended, Attended
<1>1. ASSUME UNCHANGED proc, \A p \in Processes : p # q => tray'[p] = tray[p],
             \A s \in Servers : Owner(s) # q => srv'[s] = srv[s],
             \A i \in Slots : Attended(q, i)'
      PROVE  NoneUnattended'
  <2>1. ASSUME NEW p \in Processes, NEW i \in Slots PROVE Attended(p, i)'
    <3>1. CASE p = q
      BY <1>1, <3>1
    <3>2. CASE p # q
      <4>1. srv'[<<p, i>>] = srv[<<p, i>>] /\ tray'[p] = tray[p] /\ Attended(p, i)
        BY <1>1, <3>2, Ranges DEF NoneUnattended, Attended
      <4> QED
        BY <1>1, <4>1, AttendedFrame
    <3> QED
      BY <3>1, <3>2
  <2> QED
    BY <2>1 DEF NoneUnattended, Attended
<1>2. CASE TrayWires(q)
  <2>1. PICK n \in Slots : srv' = Binds(srv, <<q, n>>)
                           /\ tray' = [tray EXCEPT ![q].at = "wait", ![q].next = n]
                           /\ tray[q].at = "wire" /\ UNCHANGED proc
    <3> DEFINE free == {i \in Slots \ {tray[q].handle} : At(<<q, i>>, "none")}
    <3>1. /\ free # {} /\ srv' = Binds(srv, <<q, Min(free)>>)
          /\ tray' = [tray EXCEPT ![q].at = "wait", ![q].next = Min(free)]
      BY <1>2 DEF TrayWires
    <3>2. free \in SUBSET (0..2)
      BY DEF Slots
    <3>3. Min(free) \in free
      <4> HIDE DEF free
      <4> QED
        BY <3>1, <3>2, MinOfBounded
    <3>4. tray[q].at = "wire" /\ UNCHANGED proc
      BY <1>2 DEF TrayWires, TrayAt
    <3> QED
      BY <3>1, <3>3, <3>4
  <2>2. /\ \A i \in Slots \ {n} : srv'[<<q, i>>] = srv[<<q, i>>]
        /\ \A s \in Servers : Owner(s) # q => srv'[s] = srv[s]
    BY <1>0, <2>1, Ranges DEF Binds
  <2>3. tray'[q].at = "wait" /\ tray'[q].next = n /\ tray'[q].handle = tray[q].handle
    BY <1>0, <2>1 DEF MenuState
  <2>4. \A i \in Slots : Attended(q, i)'
    BY <1>0, <2>1, <2>2, <2>3 DEF Attended, TrayAt
  <2> QED
    BY <1>0, <1>1, <2>1, <2>2, <2>4
<1>3. CASE TrayStarted(q)
  <2>1. /\ UNCHANGED proc
        /\ \A p \in Processes : p # q => tray'[p] = tray[p]
        /\ tray'[q].handle = tray[q].next
    BY <1>0, <1>3 DEF TrayStarted, NoTray
  <2>2. \A s \in Servers : /\ srv'[s].at = srv[s].at
                           /\ srv'[s].stop = (srv[s].stop \/ (s = Handle(q)))
                           /\ Owner(s) # q => srv'[s] = srv[s]
    <3> SUFFICES ASSUME NEW s \in Servers
                 PROVE  /\ srv'[s].at = srv[s].at
                        /\ srv'[s].stop = (srv[s].stop \/ (s = Handle(q)))
                        /\ Owner(s) # q => srv'[s] = srv[s]
      OBVIOUS
    <3> DEFINE told == srv[s].stop \/ (s = Handle(q))
               news == srv[s].ready /\ s # <<q, tray[q].next>>
    <3>1. srv'[s] = [srv[s] EXCEPT !.stop = told, !.ready = news]
      BY <1>3 DEF TrayStarted
    <3>2. told \in BOOLEAN /\ news \in BOOLEAN
      OBVIOUS
    <3>3. Owner(s) # q => told = srv[s].stop /\ news = srv[s].ready
      <4>1. Owner(s) # q => s # Handle(q) /\ s # <<q, tray[q].next>>
        BY DEF Owner, Handle
      <4>2. srv[s].stop \in BOOLEAN /\ srv[s].ready \in BOOLEAN
        BY <1>0 DEF SrvState
      <4> QED
        BY <4>1, <4>2
    <3>4. srv'[s].at = srv[s].at /\ srv'[s].stop = told
      <4> HIDE DEF told, news
      <4> QED
        BY <1>0, <3>1, <3>2 DEF SrvState
    <3>5. Owner(s) # q => srv'[s] = srv[s]
      <4> HIDE DEF told, news
      <4> QED
        BY <1>0, <3>1, <3>2, <3>3 DEF SrvState
    <3> QED
      BY <3>4, <3>5
  <2>3. \A i \in Slots : Attended(q, i)'
    BY <1>0, <2>1, <2>2 DEF Attended, TrayAt, Handle
  <2> QED
    BY <1>1, <2>1, <2>2, <2>3
<1>4. CASE TrayUnwraps(q)
  <2>1. /\ UNCHANGED proc
        /\ \A p \in Processes : p # q => tray'[p] = tray[p]
        /\ tray'[q].handle = tray[q].handle /\ tray[q].at = "unwrap"
    BY <1>0, <1>4 DEF TrayUnwraps, TrayAt, MenuState
  <2>2. \A s \in Servers : /\ srv'[s].at = srv[s].at
                           /\ srv[s].stop => srv'[s].stop
                           /\ Owner(s) # q => srv'[s] = srv[s]
    BY <1>0, <1>4 DEF TrayUnwraps, SrvState, Owner, Handle
  <2>3. \A i \in Slots : Attended(q, i)'
    BY <1>0, <2>1, <2>2 DEF Attended, TrayAt
  <2> QED
    BY <1>1, <2>1, <2>2, <2>3
<1>5. CASE TrayJoins(q) /\ tray[q].quits
  BY <1>5, EndedAttends DEF TrayJoins
<1>6. CASE TrayJoins(q) /\ ~ tray[q].quits
  <2>1. /\ UNCHANGED <<proc, srv>> /\ tray[q].at = "join" /\ At(Handle(q), "none")
        /\ \A p \in Processes : p # q => tray'[p] = tray[p]
    BY <1>0, <1>6 DEF TrayJoins, TrayAt
  <2>2. \A i \in Slots : Attended(q, i)'
    BY <1>0, <2>1 DEF Attended, TrayAt, At, Handle
  <2> QED
    BY <1>1, <2>1, <2>2
<1>7. CASE Toggle(q)
  <2>1. /\ UNCHANGED <<proc, srv>> /\ tray[q].at = "idle"
        /\ \A p \in Processes : p # q => tray'[p] = tray[p]
        /\ tray'[q].handle = tray[q].handle
    BY <1>0, <1>7 DEF Toggle, TrayAt, MenuState
  <2>2. \A i \in Slots : Attended(q, i)'
    BY <1>0, <2>1 DEF Attended, TrayAt
  <2> QED
    BY <1>1, <2>1, <2>2
<1> QED
  BY <1>2, <1>3, <1>4, <1>5, <1>6, <1>7 DEF Menu

LEMMA StillAttends ==
    ASSUME NoneUnattended, UNCHANGED <<proc, srv, tray>>
    PROVE  NoneUnattended'
BY DEF NoneUnattended, TrayAt

LEMMA CommandAttends ==
    ASSUME Solid, NoneUnattended, Command
    PROVE  NoneUnattended'
<1>1. CASE Unwrap \/ ClearPidfile \/ WireTools \/ Await
  BY <1>1, StillAttends DEF Unwrap, ClearPidfile, WireTools, Await, running
<1>2. CASE KillProxy
  <2>1. {pidfile} \cap Up \in SUBSET Processes
    BY DEF Up
  <2> QED
    BY <1>2, <2>1, StillAttends, EndedAttends DEF KillProxy, running
<1>3. CASE Uninstall
  <2>1. {job.pid} \cap Up \in SUBSET Processes
    BY DEF Up
  <2> QED
    BY <1>3, <2>1, StillAttends, EndedAttends DEF Uninstall, running
<1>4. CASE InstallDaemon
  BY <1>4, FreeMin, StillAttends, LaunchedAttends DEF InstallDaemon, Solid
<1>5. CASE Spawn
  BY <1>5, FreeMin, LaunchedAttends DEF Spawn, Solid
<1> QED
  BY <1>1, <1>2, <1>3, <1>4, <1>5 DEF Command

LEMMA NextAttends ==
    ASSUME Solid, NoneUnattended, Next
    PROVE  NoneUnattended'
<1>1. ASSUME NEW p \in Processes, Quit(p) \/ Crash(p) PROVE NoneUnattended'
  <2>1. CASE Quit(p) /\ IsRunning(p)
    <3>1. /\ tray \in [Processes -> MenuState]
          /\ \A q \in Processes, i \in Slots : Attended(q, i)
      BY DEF Solid, Types, NoneUnattended, Attended
    <3>2. ASSUME NEW q \in Processes, NEW i \in Slots PROVE Attended(q, i)'
      BY <2>1, <3>1 DEF Quit, TrayAt, Attended, MenuState
    <3> QED
      BY <3>2 DEF NoneUnattended, Attended
  <2>2. CASE Quit(p) /\ ~ IsRunning(p)
    BY <2>2, EndedAttends DEF Quit
  <2>3. CASE Crash(p)
    BY <2>3, EndedAttends DEF Crash
  <2> QED
    BY <1>1, <2>1, <2>2, <2>3
<1>2. CASE Restart
  BY <1>2, FreeMin, StillAttends, LaunchedAttends DEF Restart, Solid
<1>3. CASE Reboot
  <2>1. Up \in SUBSET Processes
    BY DEF Up
  <2> QED
    BY <1>3, <2>1, EndedAttends DEF Reboot
<1>4. CASE BeginStart \/ BeginStop
  BY <1>4, StillAttends DEF BeginStart, BeginStop, Begin, running
<1> QED
  BY <1>1, <1>2, <1>3, <1>4, ServerAttends, MenuAttends, CommandAttends DEF Next

\* Whatever became of its starts - late, failed, or of a thread still draining - no
\* proxy of a tray goes on running that the menu does not hold: what the handle
\* lets go of is told to stop (proxy_handle.rs:23, 33-35; tray/mod.rs:153).
THEOREM MenusHoldTheirProxies == Spec => []NoneUnattended
<1>1. Init => NoneUnattended
  BY DEF Init, NoneUnattended
<1>2. IInv /\ NoneUnattended /\ [Next]_vars => NoneUnattended'
  BY NextAttends, StillAttends DEF IInv, vars
<1> QED
  BY <1>1, <1>2, Invariance, PTL DEF Spec

-----------------------------------------------------------------------------
(***************************************************************************)
(* Proofs about Setup, which `deectx start`, `deectx stop` and the tray     *)
(* call, for any tools, texts, wirers, edits and mishaps.                    *)
(***************************************************************************)
-----------------------------------------------------------------------------
(* The inductive invariant of Setup                                          *)

Files == [Tools -> Seq(Lines) \cup {NoFile}]

WirerState ==
    [at : Places, todo : Seq(Tools), text : Seq(Lines) \cup {NoFile}, sawNone : BOOLEAN,
     failures : SUBSET Tools, alone : BOOLEAN]

WithText == {"backup", "copy", "write"}

FilesTyped ==
    /\ conf \in Files /\ bak \in Files /\ own \in Files
    /\ \A t \in Tools : own[t] \in UserTexts[t] \cup {NoFile}
    /\ plugin \in BOOLEAN /\ outdated \cup torn \cup raced \subseteq Tools

\* A wirer has a text from the moment it has read one until it has written it, and
\* copies only what it saw no backup of.
WirersTyped ==
    /\ wirer \in [Wirers -> WirerState]
    /\ \A w \in Wirers :
        /\ wirer[w].text # NoFile <=> wirer[w].at \in WithText
        /\ wirer[w].at = "copy" => wirer[w].sawNone

\* Nobody is at work beside a wirer that is alone.
Lonely == \A w, u \in Wirers : wirer[w].alone /\ Busy(u) => u = w

\* Of an unwrap nobody interfered with: what has a backup still is to come, or failed.
Restoring ==
    \A w \in Wirers :
        wirer[w].alone /\ wirer[w].at = "restore" =>
            \A t \in Tools : conf[t] # NoFile /\ bak[t] # NoFile =>
                t \in wirer[w].failures \cup Range(wirer[w].todo)

WiringInv == FilesTyped /\ WirersTyped /\ OriginalsKept /\ Lonely /\ Restoring /\ UnwrapRestores

-----------------------------------------------------------------------------
(* Texts                                                                   *)

Leaving(A, some) == [x \in A |-> IF x \in some THEN <<>> ELSE <<x>>]

LEMMA LeavingPuts == \A A, some : Puts(Leaving(A, some), A, A)
BY DEF Leaving, Puts

LEMMA WithoutIsSpread ==
    ASSUME NEW A, NEW some, NEW seq \in Seq(A)
    PROVE  Without(seq, some) = Spread(Leaving(A, some), seq)
<1>1. \A i \in DOMAIN seq : seq[i] \in A
  BY ElementOfSeq, LenProperties
<1>2. [i \in DOMAIN seq |-> IF seq[i] \in some THEN <<>> ELSE <<seq[i]>>]
        = [i \in DOMAIN seq |-> Leaving(A, some)[seq[i]]]
  BY <1>1 DEF Leaving
<1> QED
  BY <1>2 DEF Without, Spread

LEMMA WithoutType ==
    ASSUME NEW A, NEW some, NEW seq \in Seq(A)
    PROVE  Without(seq, some) \in Seq(A)
<1>1. Without(seq, some) = Spread(Leaving(A, some), seq)
  BY WithoutIsSpread
<1>2. Puts(Leaving(A, some), A, A)
  BY LeavingPuts
<1>3. Spread(Leaving(A, some), seq) \in Seq(A)
  BY <1>2, SpreadType
<1> QED
  BY <1>1, <1>3

\* What is not left out stays.
LEMMA WithoutKeeps ==
    ASSUME NEW A, NEW some, NEW seq \in Seq(A)
    PROVE  \A x \in Range(seq) \ some : x \in Range(Without(seq, some))
<1> DEFINE Out(s) == Spread(Leaving(A, some), s)
           Good == {s \in Seq(A) : \A x \in Range(s) \ some : x \in Range(Out(s))}
<1>1. <<>> \in Good
  <2>1. <<>> \in Seq(A) /\ DOMAIN <<>> = {}
    BY EmptySeq
  <2> QED
    BY <2>1 DEF Range
<1>2. ASSUME NEW s \in Seq(A), NEW a \in A, s \in Good PROVE Append(s, a) \in Good
  <2> DEFINE new == IF a \in some THEN <<>> ELSE <<a>>
  <2>1. Out(s) \in Seq(A) /\ new \in Seq(A)
    BY LeavingPuts, SpreadType
  <2>2. Out(Append(s, a)) = Out(s) \o new
    <3>1. Leaving(A, some)[a] = new
      BY DEF Leaving
    <3>2. Spread(Leaving(A, some), Append(s, a)) = Spread(Leaving(A, some), s) \o Leaving(A, some)[a]
      BY LeavingPuts, SpreadAppend
    <3> HIDE DEF new
    <3> QED
      BY <3>1, <3>2
  <2>3. Range(Out(s) \o new) = Range(Out(s)) \cup Range(new)
    BY <2>1, RangeConcatenation, ZenonT(60)
  <2>4. Append(s, a) \in Seq(A) /\ Range(Append(s, a)) = Range(s) \cup {a}
    <3>1. Len(s) \in Nat /\ DOMAIN s = 1..Len(s)
      BY LenProperties
    <3>2. /\ Append(s, a) \in Seq(A) /\ DOMAIN Append(s, a) = 1..Len(s) + 1
          /\ \A i \in 1..Len(s) : Append(s, a)[i] = s[i]
          /\ Append(s, a)[Len(s) + 1] = a
      BY <3>1, AppendProperties, LenProperties
    <3>3. \A i \in 1..Len(s) + 1 : i \in 1..Len(s) \/ i = Len(s) + 1
      BY <3>1
    <3>4. \A i \in 1..Len(s) : i \in 1..Len(s) + 1
      BY <3>1
    <3>5. Len(s) + 1 \in 1..Len(s) + 1
      BY <3>1
    <3> QED
      BY <3>1, <3>2, <3>3, <3>4, <3>5 DEF Range
  <2>5. a \notin some => a \in Range(new)
    BY DEF Range
  <2> HIDE DEF Out, new
  <2>6. \A x \in Range(Append(s, a)) \ some : x \in Range(Out(Append(s, a)))
    BY <1>2, <2>2, <2>3, <2>4, <2>5
  <2> QED
    BY <2>4, <2>6
<1> HIDE DEF Good
<1>3. Seq(A) \subseteq Good
  BY <1>1, <1>2, SeqInduction
<1>4. seq \in Good
  BY <1>3
<1> QED
  BY <1>4, WithoutIsSpread DEF Good

LEMMA PatchedType ==
    ASSUME NEW t, NEW text \in Seq(Lines)
    PROVE  Patched(t, text) \in Seq(Lines)
<1>1. TableKeys \in Seq(Lines) /\ Block \in Seq(Lines) /\ <<"base">> \in Seq(Lines)
      /\ <<"provider">> \in Seq(Lines) /\ <<"table">> \in Seq(Lines) /\ <<>> \in Seq(Lines)
  BY ConcatProperties DEF TableKeys, Block, Lines
<1>2. PatchedJson(text) \in Seq(Lines)
  BY <1>1, WithoutType, ConcatProperties DEF PatchedJson
<1>3. <<"table">> \o Missing(text) \in Seq(Lines)
  BY <1>1, WithoutType, ConcatProperties DEF Missing
<1>4. Reselected(text) \in Seq(Lines)
  <2> DEFINE line(i) ==
               CASE i \in Selections(text) ->
                      IF i = Min(Selections(text)) THEN <<"provider">> ELSE <<>>
                 [] text[i] = "table" -> <<"table">> \o Missing(text)
                 [] OTHER -> <<text[i]>>
             lines == [i \in DOMAIN text |-> line(i)]
  <2>1. DOMAIN text = 1..Len(text) /\ Len(text) \in Nat /\ \A i \in 1..Len(text) : text[i] \in Lines
    BY LenProperties, ElementOfSeq
  <2>2. \A i \in DOMAIN text : line(i) \in Seq(Lines)
    BY <1>1, <1>3, <2>1
  <2>3. lines \in Seq(Seq(Lines))
    <3> HIDE DEF line
    <3> QED
      BY <2>1, <2>2
  <2>4. FlattenSeq(lines) \in Seq(Lines)
    <3> HIDE DEF lines
    <3> QED
      BY <2>3, FlattenType
  <2>5. Reselected(text) = IF Selections(text) = {} THEN <<"provider">> \o FlattenSeq(lines)
                           ELSE FlattenSeq(lines)
    BY Zenon DEF Reselected
  <2> HIDE DEF lines
  <2> QED
    BY <1>1, <2>4, <2>5, ConcatProperties
<1>5. PatchedCodex(text) \in Seq(Lines)
  BY <1>1, <1>4, ConcatProperties DEF PatchedCodex
<1> QED
  BY <1>2, <1>5 DEF Patched

-----------------------------------------------------------------------------
(* Steps of one wirer                                                      *)

LEMMA NextTool ==
    ASSUME WirersTyped, NEW w \in Wirers, wirer[w].todo # <<>>
    PROVE  /\ Tool(w) \in Tools /\ Tail(wirer[w].todo) \in Seq(Tools)
           /\ Range(wirer[w].todo) = {Tool(w)} \cup Range(Tail(wirer[w].todo))
<1> DEFINE todo == wirer[w].todo
<1>1. todo \in Seq(Tools) /\ todo # <<>>
  BY DEF WirersTyped, WirerState
<1> HIDE DEF todo
<1>2. /\ Len(todo) \in Nat /\ Len(todo) > 0 /\ DOMAIN todo = 1..Len(todo)
      /\ Head(todo) = todo[1] /\ \A i \in 1..Len(todo) : todo[i] \in Tools
  BY <1>1, EmptySeq, LenProperties, ElementOfSeq, HeadTailProperties
<1>3. /\ Tail(todo) \in Seq(Tools) /\ Len(Tail(todo)) = Len(todo) - 1
      /\ \A i \in 1..Len(Tail(todo)) : Tail(todo)[i] = todo[i + 1]
  BY <1>1, HeadTailProperties
<1>4. DOMAIN Tail(todo) = 1..Len(todo) - 1
  BY <1>3, LenProperties
<1>5. \A x \in Range(todo) : x = todo[1] \/ x \in Range(Tail(todo))
  <2>1. ASSUME NEW i \in 1..Len(todo), i # 1 PROVE todo[i] \in Range(Tail(todo))
    <3>1. PICK j \in 1..Len(todo) - 1 : j = i - 1
      BY <1>2, <2>1
    <3>2. j + 1 = i
      BY <1>2, <3>1
    <3>3. Tail(todo)[j] = todo[j + 1]
      BY <1>3, <3>1
    <3> QED
      BY <1>4, <3>1, <3>2, <3>3 DEF Range
  <2> QED
    BY <1>2, <2>1 DEF Range
<1>6. todo[1] \in Range(todo)
  BY <1>2 DEF Range
<1>7. \A x \in Range(Tail(todo)) : x \in Range(todo)
  <2>1. \A j \in 1..Len(todo) - 1 : j + 1 \in 1..Len(todo)
    BY <1>2
  <2> QED
    BY <1>2, <1>3, <1>4, <2>1 DEF Range
<1>8. Head(todo) \in Tools
  BY <1>2
<1>9. Range(todo) = {Head(todo)} \cup Range(Tail(todo))
  BY <1>2, <1>5, <1>6, <1>7
<1> QED
  BY <1>3, <1>8, <1>9 DEF todo, Tool

\* What became of w, and that nobody else has moved.
LEMMA Skipped ==
    ASSUME WirersTyped, NEW w \in Wirers, wirer[w].todo # <<>>,
           NEW place \in {"look", "restore"}, SkipFrom(w, place)
    PROVE  /\ wirer' \in [Wirers -> WirerState]
           /\ \A u \in Wirers : u # w => wirer'[u] = wirer[u]
           /\ wirer'[w].at = place /\ wirer'[w].todo = Tail(wirer[w].todo)
           /\ wirer'[w].text = NoFile /\ wirer'[w].failures = wirer[w].failures
           /\ wirer'[w].alone = wirer[w].alone
<1>1. Tail(wirer[w].todo) \in Seq(Tools)
  BY NextTool
<1>2. place \in Places
  BY DEF Places
<1> QED
  BY <1>1, <1>2 DEF WirersTyped, WirerState, SkipFrom

LEMMA WentOn ==
    ASSUME WirersTyped, NEW w \in Wirers, NEW place \in Places, Goto(w, place)
    PROVE  /\ wirer' \in [Wirers -> WirerState]
           /\ \A u \in Wirers : u # w => wirer'[u] = wirer[u]
           /\ wirer'[w] = [wirer[w] EXCEPT !.at = place]
           /\ wirer'[w].at = place /\ wirer'[w].todo = wirer[w].todo
           /\ wirer'[w].text = wirer[w].text /\ wirer'[w].failures = wirer[w].failures
           /\ wirer'[w].alone = wirer[w].alone /\ wirer'[w].sawNone = wirer[w].sawNone
BY DEF WirersTyped, WirerState, Goto

Working == {"look", "read", "backup", "copy", "write", "restore"}

LEMMA BusyIs ==
    ASSUME WirersTyped, NEW w \in Wirers
    PROVE  Busy(w) <=> wirer[w].at \in Working
BY DEF WirersTyped, WirerState, Busy, Places, Working

\* Who is alone has nobody beside it that stops being so.
LEMMA StillLonely ==
    ASSUME Lonely, NEW w \in Wirers, Busy(w),
           \A u \in Wirers : u # w => wirer'[u] = wirer[u],
           wirer'[w].alone => wirer[w].alone
    PROVE  Lonely'
<1>1. ASSUME NEW v \in Wirers, NEW u \in Wirers, wirer'[v].alone, Busy(u)', u # v PROVE FALSE
  <2>1. wirer[v].alone
    BY <1>1
  <2>2. CASE u = w
    BY <1>1, <2>1, <2>2 DEF Lonely
  <2>3. CASE u # w
    <3>1. Busy(u)
      BY <1>1, <2>3 DEF Busy
    <3> QED
      BY <1>1, <2>1, <3>1 DEF Lonely
  <2> QED
    BY <2>2, <2>3
<1> QED
  BY <1>1 DEF Lonely

\* Whatever one does to the files, no other that is alone is at work.
LEMMA OthersUnwrap ==
    ASSUME Lonely, NEW w \in Wirers, Busy(w), NEW u \in Wirers, u # w,
           wirer'[u] = wirer[u]
    PROVE  ~ wirer'[u].alone
BY DEF Lonely

LEMMA WiringUnwraps ==
    ASSUME Lonely, NEW w \in Wirers, Busy(w),
           \A u \in Wirers : u # w => wirer'[u] = wirer[u],
           wirer'[w].at \notin {"restore", "done"}
    PROVE  Restoring' /\ UnwrapRestores'
<1>1. \A u \in Wirers : wirer'[u].alone => u = w
  BY OthersUnwrap
<1>2. Restoring'
  BY <1>1 DEF Restoring
<1>3. UnwrapRestores'
  BY <1>1 DEF UnwrapRestores
<1> QED
  BY <1>2, <1>3

LEMMA SameFiles ==
    ASSUME FilesTyped, OriginalsKept, UNCHANGED <<conf, bak, setupHistory>>, plugin' \in BOOLEAN
    PROVE  FilesTyped' /\ OriginalsKept'
BY DEF FilesTyped, OriginalsKept, setupHistory

\* The original of t, and that it is what it should be.
Original(t) == IF bak[t] # NoFile THEN bak[t] ELSE conf[t]

OwnKept(t) == IF t \in outdated THEN Original(t) \in UserTexts[t] ELSE Original(t) = own[t]

LEMMA OwnKeptIs == OriginalsKept <=> \A t \in Tools \ (torn \cup raced) : OwnKept(t)
BY DEF OriginalsKept, OwnKept, Original

\* A backup, whole or not, of a file that is there.
LEMMA BacksKeeps ==
    ASSUME FilesTyped, OriginalsKept, NEW w \in Wirers, Tool(w) \in Tools, wirer[w].sawNone,
           conf[Tool(w)] # NoFile, NEW text \in Seq(Lines), Backs(w, text),
           (text = conf[Tool(w)] /\ torn' = torn) \/ torn' = torn \cup {Tool(w)},
           UNCHANGED <<conf, plugin, own, outdated>>
    PROVE  FilesTyped' /\ OriginalsKept'
<1> DEFINE t == Tool(w)
<1>1. /\ bak' = [bak EXCEPT ![t] = text] /\ UNCHANGED <<conf, plugin, own, outdated>>
      /\ raced' = IF bak[t] # NoFile THEN raced \cup {t} ELSE raced
      /\ (text = conf[t] /\ torn' = torn) \/ torn' = torn \cup {t}
      /\ t \in Tools /\ conf[t] # NoFile
  BY DEF Backs
<1> HIDE DEF t
<1>2. FilesTyped'
  BY <1>1 DEF FilesTyped, Files
<1>3. ASSUME NEW s \in Tools \ (torn' \cup raced') PROVE OwnKept(s)'
  <2>1. s \notin torn \cup raced /\ OwnKept(s)
    BY <1>1, <1>3, OwnKeptIs
  <2>2. CASE s = t
    <3>1. text = conf[t] /\ bak[t] = NoFile
      BY <1>1, <1>3, <2>2
    <3>2. Original(s) = conf[s] /\ Original(s)' = conf[s]
      BY <1>1, <2>2, <3>1 DEF FilesTyped, Files, Original
    <3> QED
      BY <1>1, <2>1, <3>2 DEF OwnKept
  <2>3. CASE s # t
    <3>1. Original(s)' = Original(s)
      BY <1>1, <2>3 DEF FilesTyped, Files, Original
    <3> QED
      BY <1>1, <2>1, <3>1 DEF OwnKept
  <2> QED
    BY <2>2, <2>3
<1>4. OriginalsKept'
  BY <1>3, OwnKeptIs DEF OriginalsKept, OwnKept, Original
<1> QED
  BY <1>2, <1>4

LEMMA WritesKeeps ==
    ASSUME FilesTyped, OriginalsKept, NEW w \in Wirers, Tool(w) \in Tools,
           NEW text \in Seq(Lines), Writes(w, text),
           UNCHANGED <<bak, plugin, own, outdated, torn>>
    PROVE  FilesTyped' /\ OriginalsKept'
<1> DEFINE t == Tool(w)
<1>1. /\ conf' = [conf EXCEPT ![t] = text] /\ UNCHANGED <<bak, plugin, own, outdated, torn>>
      /\ raced' = IF bak[t] = NoFile THEN raced \cup {t} ELSE raced
      /\ t \in Tools
  BY DEF Writes
<1> HIDE DEF t
<1>2. FilesTyped'
  BY <1>1 DEF FilesTyped, Files
<1>3. ASSUME NEW s \in Tools \ (torn' \cup raced') PROVE OwnKept(s)'
  <2>1. s \notin torn \cup raced /\ OwnKept(s) /\ (s = t => bak[s] # NoFile)
    BY <1>1, <1>3, OwnKeptIs
  <2>2. Original(s)' = Original(s)
    BY <1>1, <2>1 DEF FilesTyped, Files, Original
  <2> QED
    BY <1>1, <2>1, <2>2 DEF OwnKept
<1>4. OriginalsKept'
  BY <1>3, OwnKeptIs DEF OriginalsKept, OwnKept, Original
<1> QED
  BY <1>2, <1>4

LEMMA CutType ==
    ASSUME NEW text \in Seq(Lines), NEW part \in Cut(text)
    PROVE  part \in Seq(Lines) /\ Has(part, "broken")
<1>1. PICK n \in 0..Len(text) : part = SubSeq(text, 1, n) \o <<"broken">>
  BY DEF Cut
<1>2. SubSeq(text, 1, n) \in Seq(Lines)
  <2>1. Len(text) \in Nat
    BY LenProperties
  <2> QED
    BY <1>1, <2>1, SubSeqProperties
<1> DEFINE s == SubSeq(text, 1, n)
           b == <<"broken">>
<1>3. b \in Seq(Lines) /\ "broken" \in Range(b)
  BY DEF Lines, Range
<1> HIDE DEF s, b
<1>4. s \o b \in Seq(Lines) /\ Range(s \o b) = Range(s) \cup Range(b)
  <2>1. s \in Seq(Lines)
    BY <1>2 DEF s
  <2> QED
    BY <1>3, <2>1, ConcatProperties, RangeConcatenation
<1>5. part \in Seq(Lines) /\ "broken" \in Range(part)
  <2>1. part = s \o b
    BY <1>1 DEF s, b
  <2> QED
    BY <1>3, <1>4, <2>1
<1> QED
  BY <1>5 DEF Has, ToSet, Range

\* Whatever is left half way, the original is still there - or torn.
LEMMA BrokenOffKeeps ==
    ASSUME WirersTyped, FilesTyped, OriginalsKept, NEW w \in Wirers, BrokenOff(w),
           UNCHANGED <<plugin, own, outdated>>
    PROVE  FilesTyped' /\ OriginalsKept'
<1> DEFINE t == Tool(w)
<1>1. CASE UNCHANGED <<conf, bak, torn, raced>>
  BY <1>1, SameFiles DEF FilesTyped, setupHistory
<1>2. ASSUME WirerAt(w, "copy"), conf[t] # NoFile, NEW part \in Cut(conf[t]), Backs(w, part),
             torn' = torn \cup {t}, UNCHANGED conf
      PROVE  FilesTyped' /\ OriginalsKept'
  <2>1. t \in Tools /\ wirer[w].sawNone
    BY <1>2, NextTool DEF WirerAt, WirersTyped
  <2>2. conf[t] \in Seq(Lines)
    BY <1>2, <2>1 DEF FilesTyped, Files
  <2>3. part \in Seq(Lines)
    BY <1>2, <2>2, CutType
  <2> QED
    BY <1>2, <2>1, <2>3, BacksKeeps
<1>3. ASSUME WirerAt(w, "write"), NEW part \in Cut(Patch(w)), Writes(w, part),
             UNCHANGED <<bak, torn>>
      PROVE  FilesTyped' /\ OriginalsKept'
  <2>1. t \in Tools /\ wirer[w].text \in Seq(Lines)
    BY <1>3, NextTool DEF WirerAt, WirersTyped, WirerState, WithText
  <2>2. Patch(w) \in Seq(Lines)
    BY <2>1, PatchedType DEF Patch
  <2>3. part \in Seq(Lines)
    BY <1>3, <2>2, CutType
  <2> QED
    BY <1>3, <2>1, <2>3, WritesKeeps
<1> QED
  BY <1>1, <1>2, <1>3 DEF BrokenOff

-----------------------------------------------------------------------------
(* Wiring                                                                  *)

LEMMA LookInv == ASSUME WiringInv, NEW w \in Wirers, Look(w) PROVE WiringInv'
<1>1. /\ wirer[w].at = "look" /\ wirer[w].todo # <<>>
      /\ SkipFrom(w, "look") \/ Goto(w, "read")
      /\ UNCHANGED <<conf, bak, plugin, setupHistory>>
  BY DEF Look, WirerAt
<1>2. FilesTyped' /\ OriginalsKept'
  BY <1>1, SameFiles DEF WiringInv, FilesTyped
<1>3. WirersTyped
  BY DEF WiringInv
<1>4. Busy(w)
  BY <1>1, <1>3, BusyIs DEF Working
<1>5. /\ wirer' \in [Wirers -> WirerState]
      /\ \A u \in Wirers : u # w => wirer'[u] = wirer[u]
      /\ wirer'[w].at \in {"look", "read"} /\ wirer'[w].text = NoFile
      /\ wirer'[w].alone = wirer[w].alone
  <2>1. CASE SkipFrom(w, "look")
    BY <1>1, <1>3, <2>1, Skipped
  <2>2. CASE Goto(w, "read")
    <3>1. wirer[w].text = NoFile /\ "read" \in Places
      BY <1>1, <1>3 DEF WirersTyped, WithText, Places
    <3> QED
      BY <1>3, <2>2, <3>1, WentOn
  <2> QED
    BY <1>1, <2>1, <2>2
<1>6. WirersTyped'
  BY <1>3, <1>5 DEF WirersTyped, WithText
<1>7. Lonely'
  BY <1>4, <1>5, StillLonely DEF WiringInv
<1>8. Restoring' /\ UnwrapRestores'
  BY <1>4, <1>5, WiringUnwraps DEF WiringInv
<1> QED
  BY <1>2, <1>6, <1>7, <1>8 DEF WiringInv

LEMMA ReadInv == ASSUME WiringInv, NEW w \in Wirers, Read(w) PROVE WiringInv'
<1> DEFINE text == conf[Tool(w)]
           x == [wirer[w] EXCEPT !.at = "backup", !.text = text]
<1>1. /\ wirer[w].at = "read" /\ wirer[w].todo # <<>>
      /\ UNCHANGED <<conf, bak, plugin, setupHistory>>
      /\ IF text = NoFile \/ Wired(Tool(w), text) THEN SkipFrom(w, "look")
         ELSE wirer' = [wirer EXCEPT ![w].at = "backup", ![w].text = text]
  BY DEF Read, WirerAt
<1>2. FilesTyped' /\ OriginalsKept'
  BY <1>1, SameFiles DEF WiringInv, FilesTyped
<1>3. WirersTyped
  BY DEF WiringInv
<1>4. Busy(w)
  BY <1>1, <1>3, BusyIs DEF Working
<1>5. text \in Seq(Lines) \cup {NoFile}
  <2>1. Tool(w) \in Tools
    BY <1>1, <1>3, NextTool
  <2> QED
    BY <2>1 DEF WiringInv, FilesTyped, Files
<1> HIDE DEF text
<1>6. /\ wirer' \in [Wirers -> WirerState]
      /\ \A u \in Wirers : u # w => wirer'[u] = wirer[u]
      /\ wirer'[w].alone = wirer[w].alone
      /\ \/ wirer'[w].at = "look" /\ wirer'[w].text = NoFile
         \/ wirer'[w].at = "backup" /\ wirer'[w].text # NoFile
  <2>1. CASE SkipFrom(w, "look")
    BY <1>1, <1>3, <2>1, Skipped
  <2>2. CASE text # NoFile /\ wirer' = [wirer EXCEPT ![w].at = "backup", ![w].text = text]
    BY <1>3, <1>5, <2>2, ZenonT(60) DEF WirersTyped, WirerState, Places
  <2> QED
    BY <1>1, <2>1, <2>2
<1>7. WirersTyped'
  BY <1>3, <1>6 DEF WirersTyped, WithText
<1>8. Lonely'
  BY <1>4, <1>6, StillLonely DEF WiringInv
<1>9. Restoring' /\ UnwrapRestores'
  BY <1>4, <1>6, WiringUnwraps DEF WiringInv
<1> QED
  BY <1>2, <1>7, <1>8, <1>9 DEF WiringInv

LEMMA LookForBackupInv == ASSUME WiringInv, NEW w \in Wirers, LookForBackup(w) PROVE WiringInv'
<1> DEFINE none == bak[Tool(w)] = NoFile
<1>1. /\ wirer[w].at = "backup" /\ wirer[w].todo # <<>>
      /\ UNCHANGED <<conf, bak, plugin, setupHistory>>
      /\ wirer' = [wirer EXCEPT ![w].at = IF none THEN "copy" ELSE "write", ![w].sawNone = none]
  BY DEF LookForBackup, WirerAt, NeedsBackup
<1>2. FilesTyped' /\ OriginalsKept'
  BY <1>1, SameFiles DEF WiringInv, FilesTyped
<1>3. WirersTyped
  BY DEF WiringInv
<1>4. Busy(w)
  BY <1>1, <1>3, BusyIs DEF Working
<1>5. /\ wirer' \in [Wirers -> WirerState]
      /\ \A u \in Wirers : u # w => wirer'[u] = wirer[u]
      /\ wirer'[w].alone = wirer[w].alone /\ wirer'[w].text = wirer[w].text
      /\ (none /\ wirer'[w].at = "copy" /\ wirer'[w].sawNone) \/ wirer'[w].at = "write"
  <2>1. none \in BOOLEAN
    OBVIOUS
  <2> HIDE DEF none
  <2>2. PICK place \in Places : place = IF none THEN "copy" ELSE "write"
    BY DEF Places
  <2>3. wirer' = [wirer EXCEPT ![w].at = place, ![w].sawNone = none]
    BY <1>1, <2>2
  <2> DEFINE next == [wirer[w] EXCEPT !.at = place, !.sawNone = none]
  <2>4. next \in WirerState /\ next.at = place /\ next.sawNone = none
        /\ next.alone = wirer[w].alone /\ next.text = wirer[w].text
    BY <1>3, <2>1, <2>2 DEF WirersTyped, WirerState
  <2>5. wirer' = [wirer EXCEPT ![w] = next]
    BY <1>3, <2>3 DEF WirersTyped
  <2> HIDE DEF next
  <2>6. /\ wirer' \in [Wirers -> WirerState] /\ wirer'[w] = next
        /\ \A u \in Wirers : u # w => wirer'[u] = wirer[u]
    BY <1>3, <2>4, <2>5 DEF WirersTyped
  <2> QED
    BY <2>2, <2>4, <2>6
<1>6. WirersTyped'
  BY <1>1, <1>3, <1>5 DEF WirersTyped, WithText
<1>7. Lonely'
  BY <1>4, <1>5, StillLonely DEF WiringInv
<1>8. Restoring' /\ UnwrapRestores'
  BY <1>4, <1>5, WiringUnwraps DEF WiringInv
<1> QED
  BY <1>2, <1>6, <1>7, <1>8 DEF WiringInv

LEMMA CopyInv == ASSUME WiringInv, NEW w \in Wirers, Copy(w) PROVE WiringInv'
<1> DEFINE t == Tool(w)
<1>1. /\ wirer[w].at = "copy" /\ wirer[w].todo # <<>>
      /\ UNCHANGED <<conf, plugin, own, outdated, torn>>
      /\ IF conf[t] = NoFile
         THEN SkipFrom(w, "look") /\ UNCHANGED <<bak, raced>>
         ELSE Backs(w, conf[t]) /\ Goto(w, "write")
  BY DEF Copy, WirerAt
<1>2. WirersTyped /\ FilesTyped /\ OriginalsKept
  BY DEF WiringInv
<1>3. Busy(w) /\ wirer[w].sawNone
  BY <1>1, <1>2, BusyIs DEF Working, WirersTyped
<1>4. t \in Tools
  BY <1>1, <1>2, NextTool
<1>5. FilesTyped' /\ OriginalsKept'
  <2>1. CASE conf[t] = NoFile
    BY <1>1, <1>2, <2>1, SameFiles DEF FilesTyped, setupHistory
  <2>2. CASE conf[t] # NoFile
    <3>1. conf[t] \in Seq(Lines)
      BY <1>2, <1>4, <2>2 DEF FilesTyped, Files
    <3> QED
      BY <1>1, <1>2, <1>3, <1>4, <2>2, <3>1, BacksKeeps
  <2> QED
    BY <2>1, <2>2
<1> HIDE DEF t
<1>6. /\ wirer' \in [Wirers -> WirerState]
      /\ \A u \in Wirers : u # w => wirer'[u] = wirer[u]
      /\ wirer'[w].alone = wirer[w].alone
      /\ \/ wirer'[w].at = "look" /\ wirer'[w].text = NoFile
         \/ wirer'[w].at = "write" /\ wirer'[w].text # NoFile
  <2>1. CASE SkipFrom(w, "look")
    BY <1>1, <1>2, <2>1, Skipped
  <2>2. CASE Goto(w, "write")
    <3>1. wirer[w].text # NoFile /\ "write" \in Places
      BY <1>1, <1>2 DEF WirersTyped, WithText, Places
    <3> QED
      BY <1>2, <2>2, <3>1, WentOn
  <2> QED
    BY <1>1, <2>1, <2>2
<1>7. WirersTyped'
  BY <1>2, <1>6 DEF WirersTyped, WithText
<1>8. Lonely'
  BY <1>3, <1>6, StillLonely DEF WiringInv
<1>9. Restoring' /\ UnwrapRestores'
  BY <1>3, <1>6, WiringUnwraps DEF WiringInv
<1> QED
  BY <1>5, <1>7, <1>8, <1>9 DEF WiringInv

LEMMA WriteInv == ASSUME WiringInv, NEW w \in Wirers, Write(w) PROVE WiringInv'
<1>1. /\ wirer[w].at = "write" /\ wirer[w].todo # <<>>
      /\ UNCHANGED <<bak, plugin, own, outdated, torn>> /\ SkipFrom(w, "look")
      /\ Writes(w, Patch(w)) \/ UNCHANGED <<conf, raced>>
  BY DEF Write, WirerAt
<1>2. WirersTyped /\ FilesTyped /\ OriginalsKept
  BY DEF WiringInv
<1>3. Busy(w)
  BY <1>1, <1>2, BusyIs DEF Working
<1>4. Tool(w) \in Tools
  BY <1>1, <1>2, NextTool
<1>5. Patch(w) \in Seq(Lines)
  <2>1. wirer[w].text \in Seq(Lines)
    BY <1>1, <1>2 DEF WirersTyped, WirerState, WithText
  <2> QED
    BY <2>1, PatchedType DEF Patch
<1>6. FilesTyped' /\ OriginalsKept'
  <2>1. CASE UNCHANGED <<conf, raced>>
    BY <1>1, <1>2, <2>1, SameFiles DEF FilesTyped, setupHistory
  <2>2. CASE Writes(w, Patch(w))
    BY <1>1, <1>2, <1>4, <1>5, <2>2, WritesKeeps
  <2> QED
    BY <1>1, <2>1, <2>2
<1>7. /\ wirer' \in [Wirers -> WirerState]
      /\ \A u \in Wirers : u # w => wirer'[u] = wirer[u]
      /\ wirer'[w].alone = wirer[w].alone
      /\ wirer'[w].at = "look" /\ wirer'[w].text = NoFile
  BY <1>1, <1>2, Skipped
<1>8. WirersTyped'
  BY <1>2, <1>7 DEF WirersTyped, WithText
<1>9. Lonely'
  BY <1>3, <1>7, StillLonely DEF WiringInv
<1>10. Restoring' /\ UnwrapRestores'
  BY <1>3, <1>7, WiringUnwraps DEF WiringInv
<1> QED
  BY <1>6, <1>8, <1>9, <1>10 DEF WiringInv

LEMMA WireFailsInv == ASSUME WiringInv, NEW w \in Wirers, WireFails(w) PROVE WiringInv'
<1>1. /\ wirer[w].at \in {"read", "copy", "write"} /\ wirer[w].todo # <<>>
      /\ BrokenOff(w) /\ UNCHANGED <<plugin, own, outdated>> /\ SkipFrom(w, "look")
  BY DEF WireFails, WirerAt
<1>2. WirersTyped /\ FilesTyped /\ OriginalsKept
  BY DEF WiringInv
<1>3. Busy(w)
  BY <1>1, <1>2, BusyIs DEF Working
<1>4. FilesTyped' /\ OriginalsKept'
  BY <1>1, <1>2, BrokenOffKeeps
<1>5. /\ wirer' \in [Wirers -> WirerState]
      /\ \A u \in Wirers : u # w => wirer'[u] = wirer[u]
      /\ wirer'[w].alone = wirer[w].alone
      /\ wirer'[w].at = "look" /\ wirer'[w].text = NoFile
  BY <1>1, <1>2, Skipped
<1>6. WirersTyped'
  BY <1>2, <1>5 DEF WirersTyped, WithText
<1>7. Lonely'
  BY <1>3, <1>5, StillLonely DEF WiringInv
<1>8. Restoring' /\ UnwrapRestores'
  BY <1>3, <1>5, WiringUnwraps DEF WiringInv
<1> QED
  BY <1>4, <1>6, <1>7, <1>8 DEF WiringInv

LEMMA IdleState == IdleWirer \in WirerState
<1>1. <<>> \in Seq(Tools) /\ "idle" \in Places
  BY DEF Places
<1> QED
  BY <1>1 DEF IdleWirer, WirerState

\* A wirer that is through, or killed.
LEMMA LeavesInv ==
    ASSUME WiringInv, NEW w \in Wirers, Busy(w), wirer' = [wirer EXCEPT ![w] = IdleWirer],
           FilesTyped' /\ OriginalsKept'
    PROVE  WiringInv'
<1>1. WirersTyped
  BY DEF WiringInv
<1>2. FilesTyped' /\ OriginalsKept'
  OBVIOUS
<1>3. /\ wirer' \in [Wirers -> WirerState]
      /\ \A u \in Wirers : u # w => wirer'[u] = wirer[u]
      /\ wirer'[w] = IdleWirer
  BY <1>1, IdleState DEF WirersTyped
<1>4. /\ wirer'[w].at = "idle" /\ wirer'[w].text = NoFile /\ ~ wirer'[w].alone
  BY <1>3 DEF IdleWirer
<1>5. WirersTyped'
  BY <1>1, <1>3, <1>4 DEF WirersTyped, WithText
<1>6. Lonely'
  BY <1>3, <1>4, StillLonely DEF WiringInv
<1>7. Restoring' /\ UnwrapRestores'
  BY <1>3, <1>4, WiringUnwraps DEF WiringInv
<1> QED
  BY <1>2, <1>5, <1>6, <1>7 DEF WiringInv

LEMMA EndWireInv == ASSUME WiringInv, NEW w \in Wirers, EndWire(w) PROVE WiringInv'
<1>1. Busy(w)
  BY DEF EndWire, Busy
<1>2. FilesTyped' /\ OriginalsKept'
  BY SameFiles DEF EndWire, WiringInv, FilesTyped
<1> QED
  BY <1>1, <1>2, LeavesInv DEF EndWire

LEMMA KilledInv == ASSUME WiringInv, NEW w \in Wirers, Killed(w) PROVE WiringInv'
<1>1. FilesTyped' /\ OriginalsKept'
  BY BrokenOffKeeps DEF Killed, WiringInv
<1> QED
  BY <1>1, LeavesInv DEF Killed

-----------------------------------------------------------------------------
(* Beginning, unwrapping and the user                                      *)

LEMMA AllDiscovered ==
    /\ Discovered \in Seq(Tools)
    /\ \A t \in Tools : conf[t] # NoFile => t \in Range(Discovered)
<1> DEFINE gone == {t \in Tools : conf[t] = NoFile}
<1>1. ToolOrder \in Seq(Tools) /\ Tools = Range(ToolOrder)
  BY ToolsAssumption DEF ToolsAssumption, Tools, ToSet, Range
<1>2. Discovered = Without(ToolOrder, gone)
  BY DEF Discovered
<1>3. \A t \in Tools : conf[t] # NoFile => t \notin gone
  OBVIOUS
<1> HIDE DEF gone
<1>4. Without(ToolOrder, gone) \in Seq(Tools)
  BY <1>1, WithoutType
<1>5. \A t \in Range(ToolOrder) \ gone : t \in Range(Without(ToolOrder, gone))
  BY <1>1, WithoutKeeps
<1> QED
  BY <1>1, <1>2, <1>3, <1>4, <1>5

LEMMA BeginInv ==
    ASSUME WiringInv, NEW w \in Wirers, NEW place \in {"look", "restore"},
           BeginRun(w, place)
    PROVE  WiringInv'
<1> DEFINE alone == \A u \in Wirers : ~ Busy(u)
           begun == [IdleWirer EXCEPT !.at = place, !.todo = Discovered, !.alone = alone]
<1>1. /\ UNCHANGED <<conf, bak, plugin, setupHistory>>
      /\ wirer' = [v \in Wirers |-> IF v = w THEN begun ELSE [wirer[v] EXCEPT !.alone = FALSE]]
  BY DEF BeginRun
<1>2. WirersTyped /\ FilesTyped /\ OriginalsKept
  BY DEF WiringInv
<1>3. FilesTyped' /\ OriginalsKept'
  BY <1>1, <1>2, SameFiles DEF FilesTyped
<1>4. /\ begun \in WirerState /\ begun.at = place /\ begun.text = NoFile
      /\ begun.todo = Discovered /\ begun.alone = alone
  <2>1. alone \in BOOLEAN /\ place \in Places
    BY DEF Places
  <2> HIDE DEF alone
  <2> QED
    BY <2>1, AllDiscovered, IdleState DEF IdleWirer, WirerState
<1>5. \A v \in Wirers : v # w =>
          /\ wirer'[v] \in WirerState /\ ~ wirer'[v].alone
          /\ wirer'[v].at = wirer[v].at /\ wirer'[v].text = wirer[v].text
          /\ wirer'[v].sawNone = wirer[v].sawNone
  <2> HIDE DEF begun
  <2> QED
    BY <1>1, <1>2 DEF WirersTyped, WirerState
<1>6. wirer'[w] = begun
  BY <1>1
<1>7. WirersTyped'
  <2>1. wirer' \in [Wirers -> WirerState]
    <3> HIDE DEF begun
    <3> QED
      BY <1>1, <1>4, <1>5, <1>6
  <2> HIDE DEF begun
  <2> QED
    BY <1>2, <1>4, <1>5, <1>6, <2>1 DEF WirersTyped, WithText
<1>8. Lonely'
  <2>1. ASSUME NEW v \in Wirers, NEW u \in Wirers, wirer'[v].alone, Busy(u)', u # v PROVE FALSE
    <3>1. v = w /\ alone
      BY <1>4, <1>5, <1>6, <2>1
    <3>2. wirer'[u].at = wirer[u].at /\ ~ Busy(u)
      BY <1>5, <2>1, <3>1
    <3> QED
      BY <2>1, <3>2 DEF Busy
  <2> QED
    BY <2>1 DEF Lonely
<1>9. Restoring'
  <2>1. \A t \in Tools : conf'[t] # NoFile => t \in Range(Discovered)
    BY <1>1, AllDiscovered
  <2> HIDE DEF begun, alone
  <2> QED
    BY <1>4, <1>5, <1>6, <2>1 DEF Restoring
<1>10. UnwrapRestores'
  <2> HIDE DEF begun, alone
  <2> QED
    BY <1>4, <1>5, <1>6 DEF UnwrapRestores
<1> QED
  BY <1>3, <1>7, <1>8, <1>9, <1>10 DEF WiringInv

LEMMA RestoreInv == ASSUME WiringInv, NEW w \in Wirers, Restore(w) PROVE WiringInv'
<1> DEFINE t == Tool(w)
<1>1. /\ wirer[w].at = "restore" /\ wirer[w].todo # <<>>
      /\ UNCHANGED <<plugin, setupHistory>> /\ SkipFrom(w, "restore")
      /\ IF bak[t] = NoFile THEN UNCHANGED <<conf, bak>>
         ELSE conf' = [conf EXCEPT ![t] = bak[t]] /\ bak' = [bak EXCEPT ![t] = NoFile]
  BY DEF Restore, WirerAt
<1>2. WirersTyped /\ FilesTyped /\ OriginalsKept
  BY DEF WiringInv
<1>3. Busy(w)
  BY <1>1, <1>2, BusyIs DEF Working
<1>4. t \in Tools /\ Range(wirer[w].todo) = {t} \cup Range(Tail(wirer[w].todo))
  BY <1>1, <1>2, NextTool
<1> HIDE DEF t
<1>5. FilesTyped' /\ OriginalsKept'
  <2>1. FilesTyped'
    BY <1>1, <1>2, <1>4 DEF FilesTyped, Files, setupHistory
  <2>2. \A s \in Tools : Original(s)' = Original(s)
    BY <1>1, <1>2, <1>4 DEF FilesTyped, Files, Original
  <2>3. UNCHANGED <<own, outdated, torn, raced>>
    BY <1>1 DEF setupHistory
  <2>4. OriginalsKept'
    BY <1>2, <2>2, <2>3, OwnKeptIs DEF OriginalsKept, OwnKept, Original
  <2> QED
    BY <2>1, <2>4
<1>6. /\ wirer' \in [Wirers -> WirerState]
      /\ \A u \in Wirers : u # w => wirer'[u] = wirer[u]
      /\ wirer'[w].at = "restore" /\ wirer'[w].todo = Tail(wirer[w].todo)
      /\ wirer'[w].text = NoFile /\ wirer'[w].failures = wirer[w].failures
      /\ wirer'[w].alone = wirer[w].alone
  BY <1>1, <1>2, Skipped
<1>7. WirersTyped'
  BY <1>2, <1>6 DEF WirersTyped, WithText
<1>8. Lonely'
  BY <1>3, <1>6, StillLonely DEF WiringInv
<1>9. \A u \in Wirers : wirer'[u].alone => u = w
  BY <1>3, <1>6, OthersUnwrap DEF WiringInv
<1>10. Restoring'
  <2>1. ASSUME wirer'[w].alone, NEW s \in Tools, conf'[s] # NoFile, bak'[s] # NoFile
        PROVE  s \in wirer'[w].failures \cup Range(wirer'[w].todo)
    <3>1. s # t
      BY <1>1, <1>2, <1>4, <2>1 DEF FilesTyped, Files
    <3>2. conf[s] # NoFile /\ bak[s] # NoFile
      BY <1>1, <1>2, <2>1, <3>1 DEF FilesTyped, Files
    <3>3. s \in wirer[w].failures \cup Range(wirer[w].todo)
      BY <1>1, <1>6, <2>1, <3>2 DEF WiringInv, Restoring
    <3> QED
      BY <1>4, <1>6, <3>1, <3>3
  <2> QED
    BY <1>9, <2>1 DEF Restoring
<1>11. UnwrapRestores'
  BY <1>6, <1>9 DEF UnwrapRestores
<1> QED
  BY <1>5, <1>7, <1>8, <1>10, <1>11 DEF WiringInv

LEMMA RestoreFailsInv == ASSUME WiringInv, NEW w \in Wirers, RestoreFails(w) PROVE WiringInv'
<1>1. /\ wirer[w].at = "restore" /\ wirer[w].todo # <<>>
      /\ UNCHANGED <<conf, bak, plugin, setupHistory>>
      /\ wirer' = [wirer EXCEPT ![w].failures = @ \cup {Tool(w)}, ![w].todo = Tail(wirer[w].todo)]
  BY DEF RestoreFails, WirerAt, AfterFailure
<1>2. WirersTyped /\ FilesTyped /\ OriginalsKept
  BY DEF WiringInv
<1>3. Busy(w)
  BY <1>1, <1>2, BusyIs DEF Working
<1>4. /\ Tool(w) \in Tools /\ Tail(wirer[w].todo) \in Seq(Tools)
      /\ Range(wirer[w].todo) = {Tool(w)} \cup Range(Tail(wirer[w].todo))
  BY <1>1, <1>2, NextTool
<1>5. FilesTyped' /\ OriginalsKept'
  BY <1>1, <1>2, SameFiles DEF FilesTyped
<1>6. /\ wirer' \in [Wirers -> WirerState]
      /\ \A u \in Wirers : u # w => wirer'[u] = wirer[u]
      /\ wirer'[w].at = "restore" /\ wirer'[w].todo = Tail(wirer[w].todo)
      /\ wirer'[w].text = wirer[w].text
      /\ wirer'[w].failures = wirer[w].failures \cup {Tool(w)}
      /\ wirer'[w].alone = wirer[w].alone
  BY <1>1, <1>2, <1>4 DEF WirersTyped, WirerState
<1>7. WirersTyped'
  BY <1>1, <1>2, <1>6 DEF WirersTyped, WithText
<1>8. Lonely'
  BY <1>3, <1>6, StillLonely DEF WiringInv
<1>9. \A u \in Wirers : wirer'[u].alone => u = w
  BY <1>3, <1>6, OthersUnwrap DEF WiringInv
<1>10. Restoring'
  BY <1>1, <1>4, <1>6, <1>9 DEF WiringInv, Restoring
<1>11. UnwrapRestores'
  BY <1>6, <1>9 DEF UnwrapRestores
<1> QED
  BY <1>5, <1>7, <1>8, <1>10, <1>11 DEF WiringInv

\* The plugin is gone, or its removal has failed, and so have the files that are left.
LEMMA UnwrappedInv ==
    ASSUME WiringInv, NEW w \in Wirers, wirer[w].at = "restore", wirer[w].todo = <<>>,
           NEW more \in SUBSET Tools, plugin' \in BOOLEAN, plugin' => Opencode \in more,
           wirer' = [wirer EXCEPT ![w].at = "done", ![w].failures = @ \cup more],
           UNCHANGED <<conf, bak, setupHistory>>
    PROVE  WiringInv'
<1>1. WirersTyped /\ FilesTyped /\ OriginalsKept
  BY DEF WiringInv
<1>2. Busy(w)
  BY <1>1, BusyIs DEF Working
<1>3. FilesTyped' /\ OriginalsKept'
  BY <1>1, SameFiles
<1>4. /\ wirer' \in [Wirers -> WirerState]
      /\ \A u \in Wirers : u # w => wirer'[u] = wirer[u]
      /\ wirer'[w].at = "done" /\ wirer'[w].text = wirer[w].text
      /\ wirer'[w].failures = wirer[w].failures \cup more
      /\ wirer'[w].alone = wirer[w].alone
  BY <1>1 DEF WirersTyped, WirerState, Places
<1>5. WirersTyped'
  BY <1>1, <1>4 DEF WirersTyped, WithText
<1>6. Lonely'
  BY <1>2, <1>4, StillLonely DEF WiringInv
<1>7. \A u \in Wirers : wirer'[u].alone => u = w
  BY <1>2, <1>4, OthersUnwrap DEF WiringInv
<1>8. Restoring'
  BY <1>4, <1>7 DEF Restoring
<1>9. Range(<<>>) = {}
  <2>1. DOMAIN <<>> = {}
    BY EmptySeq
  <2> QED
    BY <2>1 DEF Range
<1>10. wirer[w].alone =>
          \A t \in Tools : conf[t] # NoFile /\ bak[t] # NoFile => t \in wirer[w].failures
  BY <1>9 DEF WiringInv, Restoring
<1>11. UnwrapRestores'
  BY <1>4, <1>7, <1>10 DEF UnwrapRestores
<1> QED
  BY <1>3, <1>5, <1>6, <1>8, <1>11 DEF WiringInv

LEMMA RemovePluginInv == ASSUME WiringInv, NEW w \in Wirers, RemovePlugin(w) PROVE WiringInv'
<1>1. wirer' = [wirer EXCEPT ![w].at = "done", ![w].failures = @ \cup {}]
  BY DEF RemovePlugin, Goto, WiringInv, WirersTyped, WirerState
<1>2. {} \in SUBSET Tools
  OBVIOUS
<1> QED
  BY <1>1, <1>2, UnwrappedInv DEF RemovePlugin

LEMMA RemoveFailsInv ==
    ASSUME WiringInv, NEW w \in Wirers, RemoveFails(w) PROVE WiringInv'
<1>1. {Opencode} \in SUBSET Tools /\ Opencode \in {Opencode}
  BY ToolsAssumption DEF ToolsAssumption
<1>2. plugin' \in BOOLEAN
  BY DEF RemoveFails, WiringInv, FilesTyped
<1> QED
  BY <1>1, <1>2, UnwrappedInv DEF RemoveFails

\* Whatever the user does, nobody was undisturbed.
LEMMA EditedWirers ==
    ASSUME WirersTyped, Edited
    PROVE  WirersTyped' /\ Lonely' /\ Restoring' /\ UnwrapRestores'
<1>1. wirer' = [w \in Wirers |-> [wirer[w] EXCEPT !.alone = FALSE]]
  BY DEF Edited
<1>2. \A w \in Wirers :
          /\ wirer'[w] \in WirerState /\ ~ wirer'[w].alone
          /\ wirer'[w].at = wirer[w].at /\ wirer'[w].text = wirer[w].text
          /\ wirer'[w].sawNone = wirer[w].sawNone
  BY <1>1 DEF WirersTyped, WirerState
<1>3. wirer' \in [Wirers -> WirerState]
  BY <1>1, <1>2
<1> QED
  BY <1>2, <1>3 DEF WirersTyped, WithText, Lonely, Restoring, UnwrapRestores

LEMMA EditInv ==
    ASSUME WiringInv, NEW t \in Tools, NEW text \in UserTexts[t] \cup {NoFile},
           Edit(t, text)
    PROVE  WiringInv'
<1>1. WirersTyped' /\ Lonely' /\ Restoring' /\ UnwrapRestores'
  BY EditedWirers DEF WiringInv, Edit
<1>2. text \in Seq(Lines) \cup {NoFile}
  BY TextsAssumption DEF TextsAssumption
<1>3. /\ conf' = [conf EXCEPT ![t] = text] /\ own' = [own EXCEPT ![t] = text]
      /\ UNCHANGED <<bak, plugin, raced>>
      /\ IF bak[t] = NoFile THEN outdated' = outdated \ {t} /\ torn' = torn \ {t}
         ELSE outdated' = outdated \cup {t} /\ torn' = torn
  BY DEF Edit
<1>4. FilesTyped /\ OriginalsKept
  BY DEF WiringInv
<1>5. FilesTyped'
  BY <1>2, <1>3, <1>4 DEF FilesTyped, Files
<1>6. ASSUME NEW s \in Tools \ (torn' \cup raced') PROVE OwnKept(s)'
  <2>1. CASE s # t
    <3>1. s \notin torn \cup raced /\ own'[s] = own[s] /\ (s \in outdated' <=> s \in outdated)
      BY <1>3, <1>4, <1>6, <2>1 DEF FilesTyped, Files
    <3>2. Original(s)' = Original(s)
      BY <1>3, <1>4, <2>1 DEF FilesTyped, Files, Original
    <3> QED
      BY <1>4, <3>1, <3>2, OwnKeptIs DEF OwnKept
  <2>2. CASE s = t /\ bak[t] = NoFile
    BY <1>3, <1>4, <2>2 DEF FilesTyped, Files, OwnKept, Original
  <2>3. CASE s = t /\ bak[t] # NoFile
    <3>1. Original(t)' = bak[t] /\ Original(t) = bak[t] /\ t \in outdated'
      BY <1>3, <2>3 DEF Original
    <3>2. OwnKept(t) /\ own[t] \in UserTexts[t] \cup {NoFile}
      BY <1>3, <1>4, <1>6, <2>3, OwnKeptIs DEF FilesTyped
    <3>3. bak[t] \in UserTexts[t]
      BY <2>3, <3>1, <3>2 DEF OwnKept
    <3> QED
      BY <2>3, <3>1, <3>3 DEF OwnKept
  <2> QED
    BY <2>1, <2>2, <2>3
<1>7. OriginalsKept'
  BY <1>6, OwnKeptIs DEF OriginalsKept, OwnKept, Original
<1> QED
  BY <1>1, <1>5, <1>7 DEF WiringInv

LEMMA InstallPluginInv == ASSUME WiringInv, InstallPlugin PROVE WiringInv'
<1>1. WirersTyped' /\ Lonely' /\ Restoring' /\ UnwrapRestores'
  BY EditedWirers DEF WiringInv, InstallPlugin
<1>2. FilesTyped' /\ OriginalsKept'
  BY SameFiles DEF WiringInv, InstallPlugin
<1> QED
  BY <1>1, <1>2 DEF WiringInv

-----------------------------------------------------------------------------
LEMMA InitSInv == ASSUME SetupInit PROVE WiringInv
<1>1. FilesTyped
  <2>1. \A t \in Tools : /\ conf[t] \in UserTexts[t] \cup {NoFile}
                          /\ conf[t] \in Seq(Lines) \cup {NoFile}
    BY TextsAssumption DEF SetupInit, TextsAssumption
  <2> QED
    BY <2>1 DEF SetupInit, FilesTyped, Files
<1>2. WirersTyped
  BY IdleState DEF SetupInit, WirersTyped, WithText, IdleWirer
<1>3. OriginalsKept /\ Restoring /\ UnwrapRestores /\ Lonely
  BY DEF SetupInit, OriginalsKept, Restoring, UnwrapRestores, Lonely, IdleWirer
<1> QED
  BY <1>1, <1>2, <1>3 DEF WiringInv

LEMMA StepSInv ==
    ASSUME WiringInv, [SetupNext]_setupVars PROVE WiringInv'
<1>1. ASSUME NEW w \in Wirers, BeginWire(w) \/ BeginUnwrap(w) PROVE WiringInv'
  BY <1>1, BeginInv DEF BeginWire, BeginUnwrap
<1>2. ASSUME NEW w \in Wirers, Look(w) \/ Read(w) \/ LookForBackup(w) PROVE WiringInv'
  BY <1>2, LookInv, ReadInv, LookForBackupInv
<1>3. ASSUME NEW w \in Wirers, Copy(w) \/ Write(w) PROVE WiringInv'
  BY <1>3, CopyInv, WriteInv
<1>4. ASSUME NEW w \in Wirers, WireFails(w) \/ EndWire(w) \/ Killed(w) PROVE WiringInv'
  BY <1>4, WireFailsInv, EndWireInv, KilledInv
<1>5. ASSUME NEW w \in Wirers, Restore(w) \/ RestoreFails(w) PROVE WiringInv'
  BY <1>5, RestoreInv, RestoreFailsInv
<1>6. ASSUME NEW w \in Wirers, RemovePlugin(w) \/ RemoveFails(w) PROVE WiringInv'
  BY <1>6, RemovePluginInv, RemoveFailsInv
<1>7. ASSUME NEW t \in Tools, NEW text \in UserTexts[t] \cup {NoFile}, Edit(t, text) PROVE WiringInv'
  BY <1>7, EditInv
<1>8. CASE InstallPlugin
  BY <1>8, InstallPluginInv
<1>9. CASE UNCHANGED setupVars
  BY <1>9 DEF setupVars, setupHistory, WiringInv, FilesTyped, WirersTyped, OriginalsKept, Lonely,
              Busy, Restoring, UnwrapRestores
<1> QED
  BY <1>1, <1>2, <1>3, <1>4, <1>5, <1>6, <1>7, <1>8, <1>9 DEF SetupNext

LEMMA SInvAlways == SetupSpec => []WiringInv
BY InitSInv, StepSInv, PTL DEF SetupSpec

\* Files are lines, and a wirer holds a text from reading a file to writing it:
\* SetupTypeOK.
THEOREM WiringTyped == SetupSpec => []SetupTypeOK
<1>1. WiringInv => SetupTypeOK
  <2>1. ASSUME WiringInv PROVE SetupTypeOK
    <3>1. DOMAIN conf = Tools /\ DOMAIN bak = Tools /\ plugin \in BOOLEAN
          /\ outdated \cup torn \cup raced \subseteq Tools
      BY <2>1 DEF WiringInv, FilesTyped, Files
    <3>2. \A t \in Tools : {conf[t], bak[t], own[t]} \ {NoFile} \subseteq Seq(Lines)
      BY <2>1 DEF WiringInv, FilesTyped, Files
    <3>3. \A w \in Wirers :
            /\ wirer[w].at \in Places
            /\ wirer[w].text # NoFile <=> wirer[w].at \in {"backup", "copy", "write"}
            /\ wirer[w].failures \subseteq Tools
      BY <2>1 DEF WiringInv, WirersTyped, WirerState, WithText
    <3> QED
      BY <3>1, <3>2, <3>3 DEF SetupTypeOK
  <2> QED
    BY <2>1
<1> QED
  BY <1>1, SInvAlways, PTL

\* The .bak file, or the file in place when there is none, is what the user wrote last,
\* whatever is wired, unwired, killed or fails - for a file written beside a .bak, an
\* older text of the user's - unless the copy was cut short or two wirers met:
\* OriginalsKept.
THEOREM UsersConfigurationKept == SetupSpec => []OriginalsKept
<1>1. WiringInv => OriginalsKept
  BY DEF WiringInv
<1> QED
  BY <1>1, SInvAlways, PTL

\* An unwrap nobody interfered with has restored every tool it does not report:
\* UnwrapRestores.
THEOREM UnwrapIsComplete == SetupSpec => []UnwrapRestores
<1>1. WiringInv => UnwrapRestores
  BY DEF WiringInv
<1> QED
  BY <1>1, SInvAlways, PTL

\* What `deectx stop` is for: after an unwrap that nobody interfered with, each tool that
\* has a configuration has the one its user wrote last, whatever was wired, re-run, killed
\* or failed before; if the user wrote it beside a .bak file, it has an older one of the
\* user's.  Excepted are the tools it reports, tools that two wirers were once at
\* together, and tools whose copy was cut short.
UnwrapGivesBack ==
    \A w \in Wirers :
        wirer[w].at = "done" /\ wirer[w].alone =>
            \A t \in Tools \ (wirer[w].failures \cup torn \cup raced) :
                conf[t] # NoFile =>
                    IF t \in outdated THEN conf[t] \in UserTexts[t] ELSE conf[t] = own[t]

\* What unwrap leaves is the user's own file: UnwrapRestores and OriginalsKept together.
THEOREM UnwrapGivesUsersFilesBack == SetupSpec => []UnwrapGivesBack
<1>1. WiringInv => UnwrapGivesBack
  BY DEF WiringInv, UnwrapRestores, OriginalsKept, UnwrapGivesBack
<1> QED
  BY <1>1, SInvAlways, PTL

-----------------------------------------------------------------------------
(* Codex's file                                                            *)

\* h is the header that i is under.
Heads(text, h, i) ==
    /\ h \in DOMAIN text /\ h < i /\ text[h] \in Headers
    /\ \A g \in DOMAIN text : h < g /\ g < i => text[g] \notin Headers

LEMMA UnderIs ==
    ASSUME NEW text \in Seq(Lines), NEW hs \in SUBSET Headers, NEW i \in DOMAIN text
    PROVE  i \in Under(text, hs) <=>
             text[i] \notin Headers /\ \E h \in DOMAIN text : Heads(text, h, i) /\ text[h] \in hs
<1> DEFINE before == HeadersBefore(text, i)
<1>1. Len(text) \in Nat /\ DOMAIN text = 1..Len(text)
  BY LenProperties
<1>2. before \in SUBSET (0..Len(text)) /\ \A h \in before : h \in DOMAIN text /\ h < i /\ text[h] \in Headers
  BY <1>1 DEF HeadersBefore
<1>3. \A h \in DOMAIN text : h < i /\ text[h] \in Headers => h \in before
  BY DEF HeadersBefore
<1>4. i \in TopLevel(text) <=> text[i] \notin Headers /\ before = {}
  BY DEF TopLevel
<1>5. i \in Under(text, hs) <=> text[i] \notin Headers /\ before # {} /\ text[Max(before)] \in hs
  BY <1>4 DEF Under, HeaderOf
<1> HIDE DEF before
<1>6. before # {} => Max(before) \in before /\ \A g \in before : Max(before) >= g
  BY <1>1, <1>2, MaxOfBounded
<1>7. ASSUME before # {}
      PROVE  Heads(text, Max(before), i)
  <2> DEFINE h == Max(before)
  <2>1. h \in before /\ \A g \in before : h >= g
    BY <1>6, <1>7
  <2> HIDE DEF h
  <2>2. h \in DOMAIN text /\ h < i /\ text[h] \in Headers
    BY <1>2, <2>1
  <2>3. ASSUME NEW g \in DOMAIN text, h < g, g < i, text[g] \in Headers PROVE FALSE
    <3>1. g \in before
      BY <1>3, <2>3
    <3>2. h >= g /\ h \in Nat /\ g \in Nat
      BY <1>1, <2>1, <2>2, <3>1
    <3> QED
      BY <2>3, <3>2
  <2>4. Heads(text, h, i)
    BY <2>2, <2>3 DEF Heads
  <2> QED
    BY <2>4 DEF h
<1>8. ASSUME NEW h \in DOMAIN text, Heads(text, h, i) PROVE before # {} /\ h = Max(before)
  <2>1. h \in before
    BY <1>3, <1>8 DEF Heads
  <2>2. /\ Max(before) \in before /\ Max(before) >= h
        /\ Max(before) \in DOMAIN text /\ Max(before) < i /\ text[Max(before)] \in Headers
    BY <1>2, <1>6, <2>1
  <2>3. ~ h < Max(before)
    BY <1>8, <2>2 DEF Heads
  <2> QED
    BY <1>1, <2>1, <2>2, <2>3
<1>9. ASSUME i \in Under(text, hs)
      PROVE  text[i] \notin Headers /\ \E h \in DOMAIN text : Heads(text, h, i) /\ text[h] \in hs
  <2>1. before # {} /\ Max(before) \in DOMAIN text
    BY <1>2, <1>5, <1>6, <1>9
  <2> QED
    BY <1>5, <1>7, <1>9, <2>1
<1>10. ASSUME text[i] \notin Headers, NEW h \in DOMAIN text, Heads(text, h, i), text[h] \in hs
       PROVE  i \in Under(text, hs)
  BY <1>5, <1>8, <1>10
<1> QED
  BY <1>9, <1>10

LEMMA TopLevelIs ==
    ASSUME NEW text \in Seq(Lines), NEW i \in DOMAIN text
    PROVE  i \in TopLevel(text) <=>
             text[i] \notin Headers /\ \A h \in DOMAIN text : h < i => text[h] \notin Headers
BY DEF TopLevel, HeadersBefore

\* Where the declarations of deeCtx's table, and the selections, are.
Tables(text) == {i \in DOMAIN text : text[i] \in {"table", "tableCommented"}}

Valid(text) ==
    /\ \A i, j \in Tables(text) : i = j
    /\ \A i, j \in Selections(text) : i = j
    /\ \A i, j \in DeectxTable(text) : KeyOf(text[i]) = KeyOf(text[j]) => i = j \/ text[i] = "key"

LEMMA ValidIs == ASSUME NEW text \in Seq(Lines) PROVE ValidToml(text) <=> Valid(text) /\ ~ Has(text, "broken")
<1>1. Len(text) \in Nat /\ DOMAIN text = 1..Len(text)
  BY LenProperties
<1>2. \A i \in DOMAIN text : i \in 0..Len(text)
  BY <1>1
<1>3. Tables(text) \in SUBSET (0..Len(text)) /\ Selections(text) \in SUBSET (0..Len(text))
  BY <1>2 DEF Tables, Selections, TopLevel
<1>4. /\ Cardinality(Tables(text)) <= 1 <=> \A i, j \in Tables(text) : i = j
      /\ Cardinality(Selections(text)) <= 1 <=> \A i, j \in Selections(text) : i = j
  BY <1>1, <1>3, AtMostOne
<1>5. ValidToml(text) <=>
        /\ ~ Has(text, "broken")
        /\ Cardinality(Tables(text)) <= 1 /\ Cardinality(Selections(text)) <= 1
        /\ \A i, j \in DeectxTable(text) :
              KeyOf(text[i]) = KeyOf(text[j]) => i = j \/ text[i] = "key"
  BY Zenon DEF ValidToml, Tables, Selections
<1> QED
  BY <1>4, <1>5 DEF Valid

\* The parts of the patched file: what comes before the lines, what becomes of each, and
\* what comes after them.
Before(text) == IF Selections(text) = {} THEN <<"provider">> ELSE <<>>

After(text) == IF Has(text, "table") THEN <<>> ELSE Block

Becomes(text, i) ==
    CASE i \in Selections(text) -> IF i = Min(Selections(text)) THEN <<"provider">> ELSE <<>>
      [] text[i] = "table" -> <<"table">> \o Missing(text)
      [] OTHER -> <<text[i]>>

Parts(text) == <<Before(text)>> \o [i \in DOMAIN text |-> Becomes(text, i)] \o <<After(text)>>

LEMMA MissingFacts ==
    ASSUME NEW text \in Seq(Lines)
    PROVE  LET missing == Missing(text)
               there == {KeyOf(text[i]) : i \in Under(text, {"table"})}
           IN /\ missing \in Seq(Lines)
              /\ \A j \in DOMAIN missing :
                    missing[j] \in {"name", "base", "wire", "env"} \ there
              /\ \A j, l \in DOMAIN missing : missing[j] = missing[l] => j = l
              /\ "base" \notin there => "base" \in Range(missing)
<1> DEFINE there == {KeyOf(text[i]) : i \in Under(text, {"table"})}
           keys == {"name", "base", "wire", "env"}
           parts == [i \in DOMAIN TableKeys |-> IF TableKeys[i] \in there THEN <<>> ELSE <<TableKeys[i]>>]
           missing == Missing(text)
<1>1. TableKeys \in Seq(keys) /\ keys \subseteq Lines
  BY DEF TableKeys, Lines
<1>2. \A i, j \in DOMAIN TableKeys : TableKeys[i] = TableKeys[j] => i = j
  BY DEF TableKeys
<1>3. "base" \in Range(TableKeys)
  <2>1. 2 \in DOMAIN TableKeys /\ TableKeys[2] = "base"
    BY DEF TableKeys
  <2> QED
    BY <2>1 DEF Range
<1>4. missing = Without(TableKeys, there) /\ missing = FlattenSeq(parts)
  BY DEF Missing, Without
<1> HIDE DEF there, keys, missing
<1>5. missing \in Seq(keys)
  BY <1>1, <1>4, WithoutType
<1>6. missing \in Seq(Lines)
  <2>1. TableKeys \in Seq(Lines)
    BY DEF TableKeys, Lines
  <2> QED
    BY <1>4, <2>1, WithoutType
<1>7. "base" \notin there => "base" \in Range(missing)
  BY <1>1, <1>3, <1>4, WithoutKeeps
<1>8. parts \in Seq(Seq(keys))
  <2>1. DOMAIN TableKeys = 1..Len(TableKeys) /\ Len(TableKeys) \in Nat
    BY <1>1, LenProperties
  <2>2. \A i \in DOMAIN TableKeys : TableKeys[i] \in keys
    BY <1>1, <2>1, ElementOfSeq
  <2>3. \A i \in DOMAIN TableKeys : parts[i] \in Seq(keys)
    BY <2>2
  <2> QED
    BY <2>1, <2>3
<1>9. PICK part, place : Origins(parts, missing, part, place)
  <2> HIDE DEF parts
  <2> QED
    BY <1>4, <1>8, OriginsExist
<1>10. \A j \in DOMAIN missing :
          /\ part[j] \in DOMAIN TableKeys /\ TableKeys[part[j]] \notin there
          /\ missing[j] = TableKeys[part[j]] /\ place[j] = 1
  <2>1. ASSUME NEW j \in DOMAIN missing
        PROVE  /\ part[j] \in DOMAIN TableKeys /\ TableKeys[part[j]] \notin there
               /\ missing[j] = TableKeys[part[j]] /\ place[j] = 1
    <3>1. /\ part[j] \in DOMAIN parts /\ place[j] \in DOMAIN parts[part[j]]
          /\ missing[j] = parts[part[j]][place[j]]
      BY <1>9, <2>1 DEF Origins
    <3>2. part[j] \in DOMAIN TableKeys
      BY <3>1
    <3>3. CASE TableKeys[part[j]] \in there
      <4>1. parts[part[j]] = <<>>
        BY <3>2, <3>3
      <4>2. DOMAIN <<>> = {}
        BY EmptySeq
      <4> HIDE DEF parts
      <4> QED
        BY <3>1, <4>1, <4>2
    <3>4. CASE TableKeys[part[j]] \notin there
      <4>1. parts[part[j]] = <<TableKeys[part[j]]>>
        BY <3>2, <3>4
      <4> HIDE DEF parts
      <4> QED
        BY <3>1, <3>2, <3>4, <4>1
    <3> QED
      BY <3>3, <3>4
  <2> QED
    BY <2>1
<1>11. \A j, l \in DOMAIN missing : missing[j] = missing[l] => j = l
  <2>1. ASSUME NEW j \in DOMAIN missing, NEW l \in DOMAIN missing, missing[j] = missing[l], j < l
        PROVE  FALSE
    <3>1. part[j] = part[l] /\ place[j] = 1 /\ place[l] = 1
      BY <1>2, <1>10, <2>1
    <3>2. part[j] < part[l] \/ place[j] < place[l]
      BY <1>9, <2>1, Zenon DEF Origins
    <3>3. part[j] \in Nat
      <4>1. DOMAIN TableKeys \subseteq Nat
        BY <1>1, LenProperties
      <4> QED
        BY <1>10, <2>1, <4>1
    <3> QED
      BY <3>1, <3>2, <3>3
  <2>2. DOMAIN missing \subseteq Nat
    BY <1>5, LenProperties
  <2>3. \A j, l \in Nat : j < l \/ l < j \/ j = l
    OBVIOUS
  <2>4. ASSUME NEW j \in DOMAIN missing, NEW l \in DOMAIN missing, missing[j] = missing[l]
        PROVE  j = l
    <3>1. j < l \/ l < j \/ j = l
      BY <2>2, <2>3
    <3>2. CASE j < l
      BY <2>1, <2>4, <3>2
    <3>3. CASE l < j
      BY <2>1, <2>4, <3>3
    <3> QED
      BY <3>1, <3>2, <3>3
  <2> QED
    BY <2>4
<1>12. \A j \in DOMAIN missing : missing[j] \in keys \ there
  <2>1. \A j \in DOMAIN missing : missing[j] \in keys
    BY <1>5, LenProperties, ElementOfSeq
  <2> QED
    BY <1>10, <2>1
<1> QED
  BY <1>6, <1>7, <1>11, <1>12 DEF there, keys, missing

LEMMA PatchedIsParts ==
    ASSUME NEW text \in Seq(Lines)
    PROVE  /\ Parts(text) \in Seq(Seq(Lines)) /\ PatchedCodex(text) = FlattenSeq(Parts(text))
           /\ DOMAIN Parts(text) = 1..Len(text) + 2
           /\ Parts(text)[1] = Before(text) /\ Parts(text)[Len(text) + 2] = After(text)
           /\ \A i \in DOMAIN text : Parts(text)[i + 1] = Becomes(text, i)
<1> DEFINE n == Len(text)
           middle == [i \in DOMAIN text |-> Becomes(text, i)]
           first == <<Before(text)>>
           last == <<After(text)>>
<1>1. /\ DOMAIN text = 1..n /\ n \in Nat /\ \A i \in 1..n : text[i] \in Lines
      /\ <<>> \in Seq(Lines) /\ <<"provider">> \in Seq(Lines) /\ <<"table">> \in Seq(Lines)
      /\ Block \in Seq(Lines)
  <2>1. TableKeys \in Seq(Lines) /\ <<"table">> \in Seq(Lines)
    BY DEF TableKeys, Lines
  <2> QED
    BY <2>1, LenProperties, ElementOfSeq, ConcatProperties DEF Block, Lines
<1>2. Before(text) \in Seq(Lines) /\ After(text) \in Seq(Lines)
  BY <1>1 DEF Before, After
<1>3. \A i \in DOMAIN text : Becomes(text, i) \in Seq(Lines)
  <2>1. Missing(text) \in Seq(Lines)
    BY MissingFacts
  <2>2. <<"table">> \o Missing(text) \in Seq(Lines)
    BY <1>1, <2>1, ConcatProperties
  <2>3. \A i \in DOMAIN text : <<text[i]>> \in Seq(Lines)
    BY <1>1
  <2> QED
    BY <1>1, <2>2, <2>3 DEF Becomes
<1>4. middle \in Seq(Seq(Lines)) /\ Len(middle) = n /\ \A i \in 1..n : middle[i] = Becomes(text, i)
  <2>1. middle \in [1..n -> Seq(Lines)]
    BY <1>1, <1>3
  <2> QED
    BY <1>1, <2>1, LenProperties
<1>5. /\ first \in Seq(Seq(Lines)) /\ Len(first) = 1 /\ first[1] = Before(text)
      /\ last \in Seq(Seq(Lines)) /\ Len(last) = 1 /\ last[1] = After(text)
  BY <1>2
<1>6. FlattenSeq(middle) \in Seq(Lines)
  BY <1>4, FlattenType
<1>7. FlattenSeq(first) = Before(text) /\ FlattenSeq(last) = After(text)
  <2>1. \A s \in Seq(Lines) : FlattenSeq(<<s>>) = s
    <3>1. ASSUME NEW s \in Seq(Lines) PROVE FlattenSeq(<<s>>) = s
      <4>1. <<s>> = Append(<<>>, s) /\ <<>> \in Seq(Seq(Lines))
        BY EmptySeq
      <4>2. FlattenSeq(Append(<<>>, s)) = <<>> \o s
        BY <4>1, FlattenAppend, FlattenEmpty
      <4> QED
        BY <4>1, <4>2, ConcatEmptySeq
    <3> QED
      BY <3>1
  <2> QED
    BY <1>2, <2>1
<1>8. Reselected(text) = Before(text) \o FlattenSeq(middle)
  <2>1. Reselected(text) = IF Selections(text) = {} THEN <<"provider">> \o FlattenSeq(middle)
                           ELSE FlattenSeq(middle)
    BY Zenon DEF Reselected, Becomes
  <2> HIDE DEF middle
  <2> QED
    BY <1>6, <2>1, ConcatEmptySeq DEF Before
<1> HIDE DEF middle, first, last
<1>9. Parts(text) = (first \o middle) \o last
  BY DEF Parts, first, middle, last
<1>10. /\ first \o middle \in Seq(Seq(Lines)) /\ Len(first \o middle) = n + 1
       /\ \A i \in 1..n + 1 : (first \o middle)[i] = IF i <= 1 THEN first[i] ELSE middle[i - 1]
  <2>1. /\ first \o middle \in Seq(Seq(Lines)) /\ Len(first \o middle) = Len(first) + Len(middle)
        /\ \A i \in 1..Len(first) + Len(middle) :
              (first \o middle)[i] = IF i <= Len(first) THEN first[i] ELSE middle[i - Len(first)]
    <3>1. first \in Seq(Seq(Lines)) /\ middle \in Seq(Seq(Lines))
      BY <1>4, <1>5
    <3> QED
      BY <3>1, ConcatProperties
  <2>2. Len(first) + Len(middle) = n + 1 /\ Len(first) = 1
    BY <1>1, <1>4, <1>5
  <2> QED
    BY <2>1, <2>2
<1>11. /\ Parts(text) \in Seq(Seq(Lines)) /\ Len(Parts(text)) = n + 2
       /\ \A i \in 1..n + 2 : Parts(text)[i] = IF i <= n + 1 THEN (first \o middle)[i] ELSE last[i - (n + 1)]
  <2> DEFINE most == first \o middle
  <2>1. most \in Seq(Seq(Lines)) /\ Len(most) = n + 1
    BY <1>10
  <2> HIDE DEF most
  <2>2. /\ most \o last \in Seq(Seq(Lines)) /\ Len(most \o last) = Len(most) + Len(last)
        /\ \A i \in 1..Len(most) + Len(last) :
              (most \o last)[i] = IF i <= Len(most) THEN most[i] ELSE last[i - Len(most)]
    BY <1>5, <2>1, ConcatProperties
  <2>3. Len(most) + Len(last) = n + 2
    BY <1>1, <1>5, <2>1
  <2> QED
    BY <1>9, <2>1, <2>2, <2>3 DEF most
<1>12. FlattenSeq(Parts(text)) = (Before(text) \o FlattenSeq(middle)) \o After(text)
  <2>1. FlattenSeq(Parts(text)) = FlattenSeq(first \o middle) \o FlattenSeq(last)
    BY <1>5, <1>9, <1>10, FlattenConcat
  <2>2. FlattenSeq(first \o middle) = FlattenSeq(first) \o FlattenSeq(middle)
    BY <1>4, <1>5, FlattenConcat
  <2> QED
    BY <1>7, <2>1, <2>2
<1>13. PatchedCodex(text) = Reselected(text) \o After(text)
  BY DEF PatchedCodex, After
<1>14. Parts(text)[1] = Before(text) /\ Parts(text)[n + 2] = After(text)
  <2>1. 1 \in 1..n + 2 /\ 1 <= n + 1 /\ 1 \in 1..n + 1
    BY <1>1
  <2>2. n + 2 \in 1..n + 2 /\ ~ n + 2 <= n + 1 /\ (n + 2) - (n + 1) = 1
    BY <1>1
  <2>3. Parts(text)[1] = first[1]
    <3>1. Parts(text)[1] = (first \o middle)[1]
      BY <1>11, <2>1
    <3>2. (first \o middle)[1] = first[1]
      BY <1>10, <2>1
    <3> QED
      BY <3>1, <3>2
  <2>4. Parts(text)[n + 2] = last[(n + 2) - (n + 1)]
    BY <1>11, <2>2
  <2> QED
    BY <1>5, <2>2, <2>3, <2>4
<1>15. \A i \in 1..n : Parts(text)[i + 1] = Becomes(text, i)
  <2>1. ASSUME NEW i \in 1..n PROVE Parts(text)[i + 1] = Becomes(text, i)
    <3>1. i + 1 \in 1..n + 2 /\ i + 1 \in 1..n + 1 /\ i + 1 <= n + 1 /\ ~ i + 1 <= 1 /\ (i + 1) - 1 = i
      BY <1>1
    <3> QED
      BY <1>4, <1>10, <1>11, <3>1
  <2> QED
    BY <2>1
<1>16. DOMAIN Parts(text) = 1..n + 2
  BY <1>11, LenProperties
<1> QED
  BY <1>1, <1>8, <1>11, <1>12, <1>13, <1>14, <1>15, <1>16

Traced(text, part, place) == Origins(Parts(text), PatchedCodex(text), part, place)

\* What a line of the patched file is: the new selection, an old line, a key the table was
\* missing, or a line of the block.
IsFirst(text, flat, part, place, k) ==
    part[k] = 1 /\ flat[k] = "provider" /\ Selections(text) = {} /\ place[k] = 1

IsSelection(text, flat, part, place, k) ==
    \E i \in Selections(text) :
        part[k] = i + 1 /\ flat[k] = "provider" /\ i = Min(Selections(text)) /\ place[k] = 1

IsLine(text, flat, part, place, k) ==
    \E i \in DOMAIN text \ Selections(text) :
        part[k] = i + 1 /\ flat[k] = text[i] /\ place[k] = 1

IsMissing(text, flat, part, place, k) ==
    \E i \in DOMAIN text : \E j \in DOMAIN Missing(text) :
        /\ text[i] = "table" /\ part[k] = i + 1 /\ place[k] = j + 1
        /\ flat[k] = Missing(text)[j]

IsBlock(text, flat, part, place, k) ==
    /\ ~ Has(text, "table") /\ part[k] = Len(text) + 2
    /\ place[k] \in 1..5 /\ flat[k] = Block[place[k]]

LEMMA SelectionFacts ==
    ASSUME NEW text \in Seq(Lines)
    PROVE  /\ \A i \in Selections(text) :
                i \in DOMAIN text /\ i \in TopLevel(text) /\ text[i] \in {"provider", "otherProvider"}
           /\ Selections(text) # {} =>
                Min(Selections(text)) \in Selections(text)
<1>1. \A i \in Selections(text) :
          i \in DOMAIN text /\ i \in TopLevel(text) /\ text[i] \in {"provider", "otherProvider"}
  BY DEF Selections, TopLevel
<1>2. DOMAIN text = 1..Len(text) /\ Len(text) \in Nat
  BY LenProperties
<1>3. Selections(text) \in SUBSET (0..Len(text))
  <2>1. \A i \in 1..Len(text) : i \in 0..Len(text)
    BY <1>2
  <2> QED
    BY <1>1, <1>2, <2>1
<1> QED
  BY <1>1, <1>2, <1>3, MinOfBounded

LEMMA BlockIs ==
    /\ Len(Block) = 5 /\ DOMAIN Block = 1..5
    /\ Block[1] = "table" /\ Block[2] = "name" /\ Block[3] = "base"
    /\ Block[4] = "wire" /\ Block[5] = "env"
<1>1. TableKeys \in Seq(Lines) /\ <<"table">> \in Seq(Lines) /\ Len(TableKeys) = 4
      /\ TableKeys[1] = "name" /\ TableKeys[2] = "base" /\ TableKeys[3] = "wire"
      /\ TableKeys[4] = "env" /\ Len(<<"table">>) = 1 /\ <<"table">>[1] = "table"
  BY DEF TableKeys, Lines
<1>2. /\ Block \in Seq(Lines) /\ Len(Block) = 5
      /\ \A i \in 1..5 : Block[i] = IF i <= 1 THEN <<"table">>[i] ELSE TableKeys[i - 1]
  <2>1. /\ Block \in Seq(Lines) /\ Len(Block) = Len(<<"table">>) + Len(TableKeys)
        /\ \A i \in 1..Len(<<"table">>) + Len(TableKeys) :
              Block[i] = IF i <= Len(<<"table">>) THEN <<"table">>[i]
                         ELSE TableKeys[i - Len(<<"table">>)]
    BY <1>1, ConcatProperties DEF Block
  <2> QED
    BY <1>1, <2>1
<1>3. DOMAIN Block = 1..5
  BY <1>2, LenProperties
<1> HIDE DEF Block, TableKeys
<1> QED
  BY <1>1, <1>2, <1>3

\* The table with the keys it was missing.
LEMMA TablePart ==
    ASSUME NEW text \in Seq(Lines)
    PROVE  LET new == <<"table">> \o Missing(text)
           IN /\ 1 \in DOMAIN new /\ new[1] = "table"
              /\ \A j \in DOMAIN Missing(text) : j + 1 \in DOMAIN new /\ new[j + 1] = Missing(text)[j]
              /\ \A j \in DOMAIN new :
                    j = 1 \/ \E l \in DOMAIN Missing(text) : j = l + 1
<1> DEFINE missing == Missing(text)
           new == <<"table">> \o missing
           m == Len(missing)
<1>1. missing \in Seq(Lines) /\ <<"table">> \in Seq(Lines)
  BY MissingFacts DEF Lines
<1> HIDE DEF missing
<1>2. m \in Nat /\ DOMAIN missing = 1..m
  BY <1>1, LenProperties
<1>3. /\ new \in Seq(Lines) /\ Len(new) = m + 1
      /\ \A i \in 1..m + 1 : new[i] = IF i <= 1 THEN <<"table">>[i] ELSE missing[i - 1]
  <2>1. /\ new \in Seq(Lines) /\ Len(new) = Len(<<"table">>) + m
        /\ \A i \in 1..Len(<<"table">>) + m :
              new[i] = IF i <= Len(<<"table">>) THEN <<"table">>[i]
                       ELSE missing[i - Len(<<"table">>)]
    BY <1>1, ConcatProperties
  <2>2. Len(<<"table">>) = 1
    OBVIOUS
  <2>3. Len(<<"table">>) + m = m + 1
    BY <1>2, <2>2
  <2> HIDE DEF new
  <2> QED
    BY <2>1, <2>2, <2>3
<1>4. DOMAIN new = 1..m + 1
  <2> HIDE DEF new
  <2> QED
    BY <1>3, LenProperties
<1> HIDE DEF new, m
<1>5. 1 \in 1..m + 1 /\ 1 <= 1 /\ <<"table">>[1] = "table"
  BY <1>2
<1>6. \A j \in 1..m : j + 1 \in 1..m + 1 /\ ~ j + 1 <= 1 /\ (j + 1) - 1 = j
  BY <1>2
<1>7. \A j \in 1..m + 1 : j = 1 \/ (j - 1 \in 1..m /\ j = (j - 1) + 1)
  BY <1>2
<1>8. new[1] = "table"
  BY <1>3, <1>5
<1>9. \A j \in 1..m : new[j + 1] = missing[j]
  BY <1>3, <1>6
<1>10. \A j \in DOMAIN new : j = 1 \/ \E l \in DOMAIN missing : j = l + 1
  BY <1>2, <1>4, <1>7
<1> QED
  BY <1>2, <1>4, <1>5, <1>6, <1>8, <1>9, <1>10 DEF new, missing

LEMMA LineKinds ==
    ASSUME NEW text \in Seq(Lines), NEW part, NEW place, Traced(text, part, place),
           NEW k \in DOMAIN PatchedCodex(text)
    PROVE  LET flat == PatchedCodex(text)
           IN \/ IsFirst(text, flat, part, place, k) \/ IsSelection(text, flat, part, place, k)
              \/ IsLine(text, flat, part, place, k) \/ IsMissing(text, flat, part, place, k)
              \/ IsBlock(text, flat, part, place, k)
<1> DEFINE flat == PatchedCodex(text)
           n == Len(text)
           from == Parts(text)[part[k]]
<1>1. /\ part[k] \in 1..n + 2 /\ place[k] \in DOMAIN from /\ flat[k] = from[place[k]]
      /\ DOMAIN text = 1..n /\ n \in Nat
  BY PatchedIsParts, LenProperties DEF Traced, Origins
<1>2. DOMAIN <<>> = {} /\ DOMAIN <<"provider">> = {1} /\ <<"provider">>[1] = "provider"
  BY EmptySeq
<1>3. part[k] = 1 \/ part[k] = n + 2 \/ \E i \in DOMAIN text : part[k] = i + 1
  <2>1. \A p \in 1..n + 2 : p = 1 \/ p = n + 2 \/ (p - 1 \in 1..n /\ p = (p - 1) + 1)
    BY <1>1
  <2> QED
    BY <1>1, <2>1
<1> HIDE DEF from, flat
<1>4. CASE part[k] = 1
  <2>1. from = Before(text)
    BY <1>4, PatchedIsParts DEF from
  <2>2. IsFirst(text, flat, part, place, k)
    BY <1>1, <1>2, <1>4, <2>1 DEF IsFirst, Before
  <2> QED
    BY <2>2 DEF flat
<1>5. CASE part[k] = n + 2
  <2>1. from = After(text)
    BY <1>5, PatchedIsParts DEF from
  <2>2. ~ Has(text, "table") /\ from = Block
    BY <1>1, <1>2, <2>1 DEF After
  <2>3. IsBlock(text, flat, part, place, k)
    BY <1>1, <1>5, <2>2, BlockIs DEF IsBlock
  <2> QED
    BY <2>3 DEF flat
<1>6. ASSUME NEW i \in DOMAIN text, part[k] = i + 1
      PROVE  \/ IsSelection(text, flat, part, place, k) \/ IsLine(text, flat, part, place, k)
             \/ IsMissing(text, flat, part, place, k)
  <2>1. from = Becomes(text, i)
    BY <1>6, PatchedIsParts DEF from
  <2>2. CASE i \in Selections(text)
    <3>1. i = Min(Selections(text)) /\ from = <<"provider">>
      <4>1. from = IF i = Min(Selections(text)) THEN <<"provider">> ELSE <<>>
        <5>1. Becomes(text, i) = IF i = Min(Selections(text)) THEN <<"provider">> ELSE <<>>
          <6>1. text[i] # "table"
            BY <2>2, SelectionFacts
          <6> QED
            BY <2>2, <6>1 DEF Becomes
        <5> QED
          BY <2>1, <5>1
      <4>2. from # <<>>
        BY <1>1, <1>2
      <4> QED
        BY <4>1, <4>2
    <3> QED
      BY <1>1, <1>2, <1>6, <2>2, <3>1 DEF IsSelection
  <2>3. CASE i \notin Selections(text) /\ text[i] = "table"
    <3>1. from = <<"table">> \o Missing(text)
      BY <2>1, <2>3 DEF Becomes
    <3>2. CASE place[k] = 1
      <4>1. flat[k] = "table"
        BY <1>1, <3>1, <3>2, TablePart
      <4> QED
        BY <1>6, <2>3, <3>2, <4>1 DEF IsLine
    <3>3. CASE place[k] # 1
      <4>1. PICK j \in DOMAIN Missing(text) : place[k] = j + 1
        BY <1>1, <3>1, <3>3, TablePart
      <4>2. flat[k] = Missing(text)[j]
        BY <1>1, <3>1, <4>1, TablePart
      <4> QED
        BY <1>6, <2>3, <4>1, <4>2 DEF IsMissing
    <3> QED
      BY <3>2, <3>3
  <2>4. CASE i \notin Selections(text) /\ text[i] # "table"
    <3>1. from = <<text[i]>>
      BY <2>1, <2>4 DEF Becomes
    <3>2. DOMAIN <<text[i]>> = {1} /\ <<text[i]>>[1] = text[i]
      OBVIOUS
    <3> QED
      BY <1>1, <1>6, <2>4, <3>1, <3>2 DEF IsLine
  <2> QED
    BY <2>2, <2>3, <2>4
<1> QED
  BY <1>3, <1>4, <1>5, <1>6 DEF flat

\* Lines come in the order of their parts.
LEMMA Order ==
    ASSUME NEW text \in Seq(Lines), NEW part, NEW place, Traced(text, part, place)
    PROVE  LET lines == DOMAIN PatchedCodex(text)
           IN /\ \A k \in lines : k \in Nat /\ part[k] \in 1..Len(text) + 2 /\ place[k] \in Nat
              /\ \A k, l \in lines :
                    /\ k < l <=> part[k] < part[l] \/ (part[k] = part[l] /\ place[k] < place[l])
                    /\ part[k] = part[l] /\ place[k] = place[l] => k = l
<1> DEFINE flat == PatchedCodex(text)
           parts == Parts(text)
<1>1. /\ flat = FlattenSeq(parts) /\ parts \in Seq(Seq(Lines)) /\ DOMAIN parts = 1..Len(text) + 2
      /\ Origins(parts, flat, part, place) /\ Len(text) \in Nat
  BY PatchedIsParts, LenProperties DEF Traced
<1> HIDE DEF flat, parts
<1>2. flat \in Seq(Lines)
  BY <1>1, FlattenType
<1>3. DOMAIN flat \subseteq Nat
  BY <1>2, LenProperties
<1>4. \A k \in DOMAIN flat : part[k] \in 1..Len(text) + 2 /\ place[k] \in Nat
  <2>1. \A i \in DOMAIN parts : parts[i] \in Seq(Lines)
    BY <1>1, LenProperties, ElementOfSeq
  <2>2. \A i \in DOMAIN parts : DOMAIN parts[i] \subseteq Nat
    BY <2>1, LenProperties
  <2> QED
    BY <1>1, <2>2 DEF Origins
<1>5. \A k, l \in DOMAIN flat :
          k < l => part[k] < part[l] \/ (part[k] = part[l] /\ place[k] < place[l])
  BY <1>1, Zenon DEF Origins
<1>6. ASSUME NEW k \in DOMAIN flat, NEW l \in DOMAIN flat
      PROVE  /\ k < l <=> part[k] < part[l] \/ (part[k] = part[l] /\ place[k] < place[l])
             /\ part[k] = part[l] /\ place[k] = place[l] => k = l
  <2>1. k \in Nat /\ l \in Nat /\ part[k] \in Nat /\ part[l] \in Nat /\ place[k] \in Nat /\ place[l] \in Nat
    BY <1>1, <1>3, <1>4
  <2>2. k < l => part[k] < part[l] \/ (part[k] = part[l] /\ place[k] < place[l])
    BY <1>5
  <2>3. l < k => part[l] < part[k] \/ (part[k] = part[l] /\ place[l] < place[k])
    BY <1>5
  <2> QED
    BY <2>1, <2>2, <2>3
<1> QED
  BY <1>3, <1>4, <1>6 DEF flat

\* Every line but a selection stays.
LEMMA LinesStay ==
    ASSUME NEW text \in Seq(Lines), NEW part, NEW place, Traced(text, part, place),
           NEW i \in DOMAIN text, i \notin Selections(text)
    PROVE  \E k \in DOMAIN PatchedCodex(text) :
              part[k] = i + 1 /\ place[k] = 1 /\ PatchedCodex(text)[k] = text[i]
<1>1. Parts(text)[i + 1] = Becomes(text, i) /\ i + 1 \in DOMAIN Parts(text)
  <2>1. Len(text) \in Nat /\ i \in 1..Len(text)
    BY LenProperties
  <2>2. i + 1 \in 1..Len(text) + 2
    BY <2>1
  <2> QED
    BY <2>2, PatchedIsParts
<1>2. 1 \in DOMAIN Becomes(text, i) /\ Becomes(text, i)[1] = text[i]
  <2>1. CASE text[i] = "table"
    <3>1. Becomes(text, i) = <<"table">> \o Missing(text)
      BY <2>1 DEF Becomes
    <3> QED
      BY <2>1, <3>1, TablePart
  <2>2. CASE text[i] # "table"
    <3>1. Becomes(text, i) = <<text[i]>>
      BY <2>2 DEF Becomes
    <3> QED
      BY <3>1
  <2> QED
    BY <2>1, <2>2
<1> QED
  BY <1>1, <1>2, FromPart DEF Traced

LEMMA HeaderNotSelection ==
    ASSUME NEW text \in Seq(Lines), NEW i \in DOMAIN text, text[i] \in Headers
    PROVE  i \notin Selections(text)
BY SelectionFacts DEF Headers

LEMMA MissingNoHeader ==
    ASSUME NEW text \in Seq(Lines), NEW j \in DOMAIN Missing(text)
    PROVE  Missing(text)[j] \in {"name", "base", "wire", "env"}
BY MissingFacts

LEMMA HeaderKinds ==
    ASSUME NEW text \in Seq(Lines), NEW part, NEW place, Traced(text, part, place),
           NEW k \in DOMAIN PatchedCodex(text), PatchedCodex(text)[k] \in Headers
    PROVE  /\ place[k] = 1
           /\ \/ \E i \in DOMAIN text : part[k] = i + 1 /\ PatchedCodex(text)[k] = text[i]
              \/ /\ part[k] = Len(text) + 2 /\ PatchedCodex(text)[k] = "table"
                 /\ ~ Has(text, "table")
<1> DEFINE flat == PatchedCodex(text)
<1>1. flat[k] \in {"table", "tableCommented", "section"}
  BY DEF Headers
<1> HIDE DEF flat
<1>2. ~ IsFirst(text, flat, part, place, k) /\ ~ IsSelection(text, flat, part, place, k)
  BY <1>1 DEF IsFirst, IsSelection
<1>3. ~ IsMissing(text, flat, part, place, k)
  BY <1>1, MissingNoHeader DEF IsMissing
<1>4. IsLine(text, flat, part, place, k) =>
        place[k] = 1 /\ \E i \in DOMAIN text : part[k] = i + 1 /\ flat[k] = text[i]
  BY DEF IsLine
<1>5. IsBlock(text, flat, part, place, k) =>
        /\ place[k] = 1 /\ part[k] = Len(text) + 2 /\ flat[k] = "table"
        /\ ~ Has(text, "table")
  <2>1. ASSUME IsBlock(text, flat, part, place, k) PROVE place[k] = 1
    <3>1. place[k] \in {1, 2, 3, 4, 5} /\ flat[k] = Block[place[k]]
      BY <2>1 DEF IsBlock
    <3> QED
      BY <1>1, <3>1, BlockIs
  <2> QED
    BY <2>1, BlockIs DEF IsBlock
<1>6. \/ IsFirst(text, flat, part, place, k) \/ IsSelection(text, flat, part, place, k)
      \/ IsLine(text, flat, part, place, k) \/ IsMissing(text, flat, part, place, k)
      \/ IsBlock(text, flat, part, place, k)
  BY LineKinds DEF flat
<1> QED
  BY <1>2, <1>3, <1>4, <1>5, <1>6 DEF flat

\* What is under deeCtx's table in the patched file.
LEMMA KeyKinds ==
    ASSUME NEW text \in Seq(Lines), NEW part, NEW place, Traced(text, part, place),
           NEW k \in DOMAIN PatchedCodex(text), NEW h \in DOMAIN PatchedCodex(text),
           Heads(PatchedCodex(text), h, k), PatchedCodex(text)[h] = "table",
           PatchedCodex(text)[k] \notin Headers
    PROVE  LET flat == PatchedCodex(text)
           IN \/ IsBlock(text, flat, part, place, k)
              \/ IsMissing(text, flat, part, place, k)
              \/ \E i \in Under(text, {"table"}) :
                    part[k] = i + 1 /\ place[k] = 1 /\ flat[k] = text[i]
<1> DEFINE flat == PatchedCodex(text)
           n == Len(text)
<1>1. DOMAIN text = 1..n /\ n \in Nat
  BY LenProperties
<1>2. /\ h < k /\ part[k] \in 1..n + 2 /\ part[h] \in 1..n + 2
      /\ part[h] < part[k] \/ (part[h] = part[k] /\ place[h] < place[k])
  BY Order DEF Heads
<1>3. "table" \in Headers
  BY DEF Headers
<1>4. /\ place[h] = 1
      /\ \/ \E i \in DOMAIN text : part[h] = i + 1 /\ text[i] = "table"
         \/ part[h] = n + 2 /\ ~ Has(text, "table")
  BY <1>3, HeaderKinds
<1>5. \/ IsFirst(text, flat, part, place, k) \/ IsSelection(text, flat, part, place, k)
      \/ IsLine(text, flat, part, place, k) \/ IsMissing(text, flat, part, place, k)
      \/ IsBlock(text, flat, part, place, k)
  BY LineKinds
<1>6. /\ flat[h] = "table" /\ flat[k] \notin Headers
      /\ \A g \in DOMAIN flat : h < g /\ g < k => flat[g] \notin Headers
  BY DEF Heads
<1>7. CASE part[h] = n + 2 /\ ~ Has(text, "table")
  <2>1. part[k] = n + 2
    BY <1>1, <1>2, <1>7
  <2>2. ~ IsFirst(text, flat, part, place, k)
    BY <1>1, <2>1 DEF IsFirst
  <2>3. \A i \in DOMAIN text : i + 1 # n + 2
    BY <1>1
  <2>4. ~ IsSelection(text, flat, part, place, k) /\ ~ IsLine(text, flat, part, place, k)
        /\ ~ IsMissing(text, flat, part, place, k)
    <3> HIDE DEF flat
    <3> QED
      BY <2>1, <2>3, SelectionFacts DEF IsSelection, IsLine, IsMissing
  <2> QED
    BY <1>5, <2>2, <2>4
<1>8. ASSUME NEW t \in DOMAIN text, part[h] = t + 1, text[t] = "table"
      PROVE  \/ IsBlock(text, flat, part, place, k) \/ IsMissing(text, flat, part, place, k)
             \/ \E i \in Under(text, {"table"}) :
                    part[k] = i + 1 /\ place[k] = 1 /\ flat[k] = text[i]
  <2>1. ~ IsFirst(text, flat, part, place, k)
    <3> HIDE DEF flat
    <3> QED
      BY <1>1, <1>2, <1>8 DEF IsFirst
  <2>2. ~ IsSelection(text, flat, part, place, k)
    <3>1. ASSUME NEW i \in Selections(text), part[k] = i + 1 PROVE FALSE
      <4>1. i \in DOMAIN text /\ i \in TopLevel(text) /\ text[i] # "table"
        BY SelectionFacts
      <4>2. t < i
        BY <1>1, <1>2, <1>8, <3>1, <4>1
      <4> QED
        BY <1>3, <1>8, <4>1, <4>2, TopLevelIs
    <3> HIDE DEF flat
    <3> QED
      BY <3>1 DEF IsSelection
  <2>3. ASSUME NEW i \in DOMAIN text, part[k] = i + 1, place[k] = 1, flat[k] = text[i]
        PROVE  i \in Under(text, {"table"})
    <3>1. t < i
      BY <1>1, <1>2, <1>4, <1>8, <2>3
    <3>2. ASSUME NEW g \in DOMAIN text, t < g, g < i, text[g] \in Headers PROVE FALSE
      <4>1. g \notin Selections(text)
        BY <3>2, HeaderNotSelection
      <4>2. PICK f \in DOMAIN flat : part[f] = g + 1 /\ place[f] = 1 /\ flat[f] = text[g]
        BY <4>1, LinesStay
      <4>3. part[h] < part[f] /\ part[f] < part[k]
        BY <1>1, <1>8, <2>3, <3>2, <4>2
      <4>4. h < f /\ f < k
        BY <4>3, Order
      <4> QED
        BY <1>6, <3>2, <4>2, <4>4
    <3>3. Heads(text, t, i)
      BY <1>3, <1>8, <3>1, <3>2 DEF Heads
    <3>4. {"table"} \in SUBSET Headers
      BY <1>3
    <3> QED
      BY <1>6, <1>8, <2>3, <3>3, <3>4, UnderIs
  <2> HIDE DEF flat
  <2>4. IsLine(text, flat, part, place, k) =>
          \E i \in Under(text, {"table"}) : part[k] = i + 1 /\ place[k] = 1 /\ flat[k] = text[i]
    BY <2>3 DEF IsLine
  <2> QED
    BY <1>5, <2>1, <2>2, <2>4
<1> QED
  BY <1>4, <1>7, <1>8

LEMMA UnderTable ==
    ASSUME NEW text \in Seq(Lines), NEW i \in Under(text, {"table"})
    PROVE  i \in DOMAIN text /\ i \in DeectxTable(text) /\ Has(text, "table")
<1>1. i \in DOMAIN text /\ i \in DeectxTable(text)
  BY DEF Under, DeectxTable
<1>2. {"table"} \in SUBSET Headers
  BY DEF Headers
<1>3. PICK h \in DOMAIN text : text[h] \in {"table"}
  BY <1>1, <1>2, UnderIs
<1> QED
  BY <1>1, <1>3 DEF Has, ToSet

LEMMA PatchedSelections ==
    ASSUME NEW text \in Seq(Lines), NEW part, NEW place, Traced(text, part, place),
           NEW k \in Selections(PatchedCodex(text))
    PROVE  place[k] = 1 /\ part[k] = IF Selections(text) = {} THEN 1 ELSE Min(Selections(text)) + 1
<1> DEFINE flat == PatchedCodex(text)
<1>1. flat \in Seq(Lines)
  BY PatchedIsParts, FlattenType
<1>2. k \in DOMAIN flat /\ k \in TopLevel(flat) /\ flat[k] \in {"provider", "otherProvider"}
  BY <1>1, SelectionFacts
<1>3. \/ IsFirst(text, flat, part, place, k) \/ IsSelection(text, flat, part, place, k)
      \/ IsLine(text, flat, part, place, k) \/ IsMissing(text, flat, part, place, k)
      \/ IsBlock(text, flat, part, place, k)
  BY <1>2, LineKinds
<1>4. ASSUME NEW i \in DOMAIN text \ Selections(text), part[k] = i + 1, flat[k] = text[i]
      PROVE  FALSE
  <2>1. i \notin TopLevel(text) /\ text[i] \notin Headers
    BY <1>2, <1>4 DEF Selections, Headers
  <2>2. PICK h \in DOMAIN text : h < i /\ text[h] \in Headers
    BY <2>1, TopLevelIs
  <2>3. h \notin Selections(text)
    BY <2>2, HeaderNotSelection
  <2>4. PICK f \in DOMAIN flat : part[f] = h + 1 /\ flat[f] = text[h]
    BY <2>3, LinesStay
  <2>5. part[f] < part[k]
    <3>1. h \in Nat /\ i \in Nat
      BY LenProperties
    <3> QED
      BY <1>4, <2>2, <2>4, <3>1
  <2>6. f < k
    BY <1>2, <2>5, Order
  <2> QED
    BY <1>1, <1>2, <2>2, <2>4, <2>6, TopLevelIs
<1> HIDE DEF flat
<1>5. ~ IsLine(text, flat, part, place, k)
  BY <1>4 DEF IsLine
<1>6. ~ IsMissing(text, flat, part, place, k)
  BY <1>2, MissingNoHeader DEF IsMissing
<1>7. ~ IsBlock(text, flat, part, place, k)
  <2>1. ASSUME IsBlock(text, flat, part, place, k) PROVE FALSE
    <3>1. place[k] \in {1, 2, 3, 4, 5} /\ flat[k] = Block[place[k]]
      BY <2>1 DEF IsBlock
    <3> QED
      BY <1>2, <3>1, BlockIs
  <2> QED
    BY <2>1
<1> QED
  BY <1>3, <1>5, <1>6, <1>7 DEF IsFirst, IsSelection

\* A file that was valid is so when patched.
LEMMA PatchedValid ==
    ASSUME NEW text \in Seq(Lines), Valid(text), ~ Has(PatchedCodex(text), "tableCommented")
    PROVE  Valid(PatchedCodex(text))
<1> DEFINE flat == PatchedCodex(text)
           n == Len(text)
<1>1. flat \in Seq(Lines) /\ n \in Nat /\ DOMAIN text = 1..n
  BY PatchedIsParts, FlattenType, LenProperties
<1>2. PICK part, place : Traced(text, part, place)
  BY PatchedIsParts, OriginsExist DEF Traced
<1>3. \A i \in DOMAIN flat : flat[i] # "tableCommented"
  BY DEF Has, ToSet
<1>4. \A i \in DOMAIN text : text[i] = "table" => i \in Tables(text) /\ Has(text, "table")
  BY DEF Tables, Has, ToSet
<1>5. ASSUME NEW k \in Tables(flat), NEW l \in Tables(flat) PROVE k = l
  <2>1. /\ k \in DOMAIN flat /\ flat[k] = "table" /\ l \in DOMAIN flat /\ flat[l] = "table"
        /\ "table" \in Headers
    BY <1>3 DEF Tables, Headers
  <2>2. /\ place[k] = 1
        /\ \/ \E i \in DOMAIN text : part[k] = i + 1 /\ text[i] = "table"
           \/ part[k] = n + 2 /\ ~ Has(text, "table")
    BY <1>2, <2>1, HeaderKinds
  <2>3. /\ place[l] = 1
        /\ \/ \E i \in DOMAIN text : part[l] = i + 1 /\ text[i] = "table"
           \/ part[l] = n + 2 /\ ~ Has(text, "table")
    BY <1>2, <2>1, HeaderKinds
  <2>4. part[k] = part[l]
    BY <1>4, <2>2, <2>3 DEF Valid
  <2> QED
    BY <1>2, <2>1, <2>2, <2>3, <2>4, Order
<1>6. ASSUME NEW k \in Selections(flat), NEW l \in Selections(flat) PROVE k = l
  <2>1. part[k] = part[l] /\ place[k] = place[l]
    BY <1>2, PatchedSelections
  <2>2. k \in DOMAIN flat /\ l \in DOMAIN flat
    BY DEF Selections, TopLevel
  <2> QED
    BY <1>2, <2>1, <2>2, Order
<1> DEFINE FromTable(k) == \E i \in Under(text, {"table"}) : part[k] = i + 1 /\ place[k] = 1 /\ flat[k] = text[i]
<1>7. ASSUME NEW k \in DeectxTable(flat)
      PROVE  /\ k \in DOMAIN flat
             /\ \/ IsBlock(text, flat, part, place, k)
                \/ IsMissing(text, flat, part, place, k) /\ Has(text, "table")
                \/ FromTable(k) /\ Has(text, "table")
  <2>1. k \in DOMAIN flat
    BY <1>7 DEF DeectxTable, Under
  <2>2. {"table", "tableCommented"} \in SUBSET Headers
    BY DEF Headers
  <2>3. flat[k] \notin Headers /\ \E h \in DOMAIN flat : Heads(flat, h, k) /\ flat[h] \in {"table", "tableCommented"}
    BY <1>1, <1>7, <2>1, <2>2, UnderIs DEF DeectxTable
  <2>4. PICK h \in DOMAIN flat : Heads(flat, h, k) /\ flat[h] = "table"
    BY <1>3, <2>3
  <2>5. IsBlock(text, flat, part, place, k) \/ IsMissing(text, flat, part, place, k) \/ FromTable(k)
    BY <1>2, <2>1, <2>3, <2>4, KeyKinds
  <2>6. FromTable(k) => Has(text, "table")
    BY UnderTable
  <2>7. IsMissing(text, flat, part, place, k) => Has(text, "table")
    BY <1>4 DEF IsMissing
  <2> QED
    BY <2>1, <2>5, <2>6, <2>7
<1>8. ASSUME NEW k \in DOMAIN flat, NEW l \in DOMAIN flat, KeyOf(flat[k]) = KeyOf(flat[l]),
             IsBlock(text, flat, part, place, k), IsBlock(text, flat, part, place, l)
      PROVE  k = l
  <2>1. /\ place[k] \in {1, 2, 3, 4, 5} /\ flat[k] = Block[place[k]] /\ part[k] = n + 2
        /\ place[l] \in {1, 2, 3, 4, 5} /\ flat[l] = Block[place[l]] /\ part[l] = n + 2
    <3> HIDE DEF flat
    <3> QED
      BY <1>8 DEF IsBlock
  <2>2. place[k] = place[l]
    <3> HIDE DEF flat
    <3> QED
      BY <1>8, <2>1, BlockIs DEF KeyOf
  <2> QED
    BY <1>2, <2>1, <2>2, Order
<1>9. ASSUME NEW k \in DOMAIN flat, NEW l \in DOMAIN flat, KeyOf(flat[k]) = KeyOf(flat[l]),
             IsMissing(text, flat, part, place, k)
      PROVE  /\ IsMissing(text, flat, part, place, l) => k = l
             /\ ~ FromTable(l)
  <2>1. PICK i \in DOMAIN text, j \in DOMAIN Missing(text) :
          /\ text[i] = "table" /\ part[k] = i + 1 /\ place[k] = j + 1
          /\ flat[k] = Missing(text)[j]
    <3> HIDE DEF flat
    <3> QED
      BY <1>9 DEF IsMissing
  <2>2. KeyOf(flat[k]) = Missing(text)[j]
    <3> HIDE DEF flat
    <3> QED
      BY <2>1, MissingNoHeader DEF KeyOf
  <2>3. ASSUME IsMissing(text, flat, part, place, l) PROVE k = l
    <3>1. PICK i2 \in DOMAIN text, j2 \in DOMAIN Missing(text) :
            /\ text[i2] = "table" /\ part[l] = i2 + 1 /\ place[l] = j2 + 1
            /\ flat[l] = Missing(text)[j2]
      <4> HIDE DEF flat
      <4> QED
        BY <2>3 DEF IsMissing
    <3>2. KeyOf(flat[l]) = Missing(text)[j2]
      <4> HIDE DEF flat
      <4> QED
        BY <3>1, MissingNoHeader DEF KeyOf
    <3>3. j = j2
      BY <1>9, <2>2, <3>2, MissingFacts
    <3>4. i = i2
      BY <1>4, <2>1, <3>1 DEF Valid
    <3> QED
      BY <1>2, <2>1, <3>1, <3>3, <3>4, Order
  <2>4. ASSUME NEW i2 \in Under(text, {"table"}), flat[l] = text[i2] PROVE FALSE
    <3>1. Missing(text)[j] # KeyOf(text[i2])
      BY MissingFacts
    <3> QED
      BY <1>9, <2>2, <2>4, <3>1
  <2> QED
    BY <2>3, <2>4
<1>10. ASSUME NEW k \in DOMAIN flat, NEW l \in DOMAIN flat, KeyOf(flat[k]) = KeyOf(flat[l]),
              FromTable(k), FromTable(l)
       PROVE  k = l \/ flat[k] = "key"
  <2>1. PICK i \in Under(text, {"table"}) : part[k] = i + 1 /\ place[k] = 1 /\ flat[k] = text[i]
    BY <1>10
  <2>2. PICK i2 \in Under(text, {"table"}) : part[l] = i2 + 1 /\ place[l] = 1 /\ flat[l] = text[i2]
    BY <1>10
  <2>3. i = i2 \/ text[i] = "key"
    BY <1>10, <2>1, <2>2, UnderTable DEF Valid
  <2> QED
    BY <1>2, <2>1, <2>2, <2>3, Order
<1>11. ASSUME NEW k \in DeectxTable(flat), NEW l \in DeectxTable(flat), KeyOf(flat[k]) = KeyOf(flat[l])
       PROVE  k = l \/ flat[k] = "key"
  <2>1. IsBlock(text, flat, part, place, k) => ~ Has(text, "table")
    BY DEF IsBlock
  <2>2. IsBlock(text, flat, part, place, l) => ~ Has(text, "table")
    BY DEF IsBlock
  <2> HIDE DEF flat, FromTable
  <2> QED
    BY <1>7, <1>8, <1>9, <1>10, <1>11, <2>1, <2>2
<1> HIDE DEF flat
<1>12. Valid(flat)
  BY <1>5, <1>6, <1>11 DEF Valid
<1> QED
  BY <1>12 DEF flat

\* Codex selects the proxy at the top of a patched file.
LEMMA PatchedSelects ==
    ASSUME NEW text \in Seq(Lines), NEW part, NEW place, Traced(text, part, place)
    PROVE  \E k \in TopLevel(PatchedCodex(text)) : PatchedCodex(text)[k] = "provider"
<1> DEFINE flat == PatchedCodex(text)
           n == Len(text)
           first == IF Selections(text) = {} THEN 0 ELSE Min(Selections(text))
<1>1. flat \in Seq(Lines) /\ n \in Nat /\ DOMAIN text = 1..n
  BY PatchedIsParts, FlattenType, LenProperties
<1>2. first + 1 \in DOMAIN Parts(text) /\ Parts(text)[first + 1] = <<"provider">> /\ first \in Nat
      /\ first <= n
  <2>1. CASE Selections(text) = {}
    <3>1. first = 0 /\ 0 + 1 = 1 /\ 1 \in 1..n + 2
      BY <1>1, <2>1
    <3>2. Parts(text)[1] = <<"provider">> /\ DOMAIN Parts(text) = 1..n + 2
      BY <2>1, PatchedIsParts DEF Before
    <3> HIDE DEF first
    <3> QED
      BY <1>1, <3>1, <3>2
  <2>2. CASE Selections(text) # {}
    <3>1. first \in Selections(text) /\ first = Min(Selections(text))
      BY <2>2, SelectionFacts
    <3> HIDE DEF first
    <3>2. first \in DOMAIN text /\ text[first] # "table"
      BY <3>1, SelectionFacts
    <3>3. Becomes(text, first) = <<"provider">>
      BY <3>1, <3>2 DEF Becomes
    <3>4. first + 1 \in 1..n + 2 /\ first \in Nat /\ first <= n
      BY <1>1, <3>2
    <3> QED
      BY <3>2, <3>3, <3>4, PatchedIsParts
  <2> QED
    BY <2>1, <2>2
<1> HIDE DEF first
<1>3. 1 \in DOMAIN Parts(text)[first + 1] /\ Parts(text)[first + 1][1] = "provider"
  BY <1>2
<1>4. PICK k \in DOMAIN flat : part[k] = first + 1 /\ place[k] = 1 /\ flat[k] = "provider"
  BY <1>2, <1>3, FromPart DEF Traced
<1>5. ASSUME NEW h \in DOMAIN flat, h < k, flat[h] \in Headers PROVE FALSE
  <2>1. /\ part[h] < part[k] \/ (part[h] = part[k] /\ place[h] < place[k])
        /\ part[h] \in 1..n + 2
    BY <1>4, <1>5, Order
  <2>2. /\ place[h] = 1
        /\ \/ \E i \in DOMAIN text : part[h] = i + 1 /\ flat[h] = text[i]
           \/ part[h] = n + 2
    BY <1>5, HeaderKinds
  <2>3. part[h] < first + 1
    BY <1>2, <1>4, <2>1, <2>2
  <2>4. PICK i \in DOMAIN text : part[h] = i + 1 /\ flat[h] = text[i]
    BY <1>1, <1>2, <2>2, <2>3
  <2>5. i < first
    BY <1>1, <1>2, <2>3, <2>4
  <2>6. first \in Selections(text)
    <3>1. first # 0
      BY <1>1, <1>2, <2>5
    <3> QED
      BY <3>1, SelectionFacts DEF first
  <2>7. first \in DOMAIN text /\ first \in TopLevel(text)
    BY <2>6, SelectionFacts
  <2> QED
    BY <1>5, <2>4, <2>5, <2>7, TopLevelIs
<1>6. k \in TopLevel(flat)
  <2>1. "provider" \notin Headers
    BY DEF Headers
  <2> QED
    BY <1>1, <1>4, <1>5, <2>1, TopLevelIs
<1> QED
  BY <1>4, <1>6

\* No header comes between the table's and a line of the same part.
LEMMA SamePart ==
    ASSUME NEW text \in Seq(Lines), NEW part, NEW place, Traced(text, part, place),
           NEW h \in DOMAIN PatchedCodex(text), NEW k \in DOMAIN PatchedCodex(text),
           PatchedCodex(text)[h] = "table", part[h] = part[k], place[h] = 1, place[k] > 1,
           PatchedCodex(text)[k] = "base"
    PROVE  k \in DeectxTable(PatchedCodex(text))
<1> DEFINE flat == PatchedCodex(text)
<1>1. flat \in Seq(Lines)
  BY PatchedIsParts, FlattenType
<1>2. h < k
  BY Order
<1>3. ASSUME NEW g \in DOMAIN flat, h < g, g < k, flat[g] \in Headers PROVE FALSE
  <2>1. place[g] = 1
    BY <1>3, HeaderKinds
  <2>2. /\ part[h] < part[g] \/ (part[h] = part[g] /\ place[h] < place[g])
        /\ part[g] < part[k] \/ (part[g] = part[k] /\ place[g] < place[k])
        /\ part[g] \in Nat /\ part[h] \in Nat
    BY <1>3, Order
  <2> QED
    BY <2>1, <2>2
<1>4. Heads(flat, h, k)
  BY <1>2, <1>3 DEF Heads, Headers
<1>5. {"table", "tableCommented"} \in SUBSET Headers /\ flat[k] \notin Headers
  BY DEF Headers
<1> QED
  BY <1>1, <1>4, <1>5, UnderIs DEF DeectxTable

\* The table of a patched file has a base URL, deeCtx's or another.
LEMMA PatchedHasBase ==
    ASSUME NEW text \in Seq(Lines), NEW part, NEW place, Traced(text, part, place)
    PROVE  \/ \E k \in DeectxTable(PatchedCodex(text)) : PatchedCodex(text)[k] = "base"
           \/ Has(PatchedCodex(text), "foreign")
<1> DEFINE flat == PatchedCodex(text)
           n == Len(text)
           there == {KeyOf(text[i]) : i \in Under(text, {"table"})}
<1>1. flat \in Seq(Lines) /\ n \in Nat /\ DOMAIN text = 1..n
  BY PatchedIsParts, FlattenType, LenProperties
<1>2. CASE ~ Has(text, "table")
  <2>1. n + 2 \in DOMAIN Parts(text) /\ Parts(text)[n + 2] = Block
    <3>1. n + 2 \in 1..n + 2
      BY <1>1
    <3> QED
      BY <1>2, <3>1, PatchedIsParts DEF After
  <2>2. 1 \in DOMAIN Parts(text)[n + 2] /\ 3 \in DOMAIN Parts(text)[n + 2]
    BY <2>1, BlockIs
  <2>3. PICK h \in DOMAIN flat : part[h] = n + 2 /\ place[h] = 1 /\ flat[h] = Parts(text)[n + 2][1]
    BY <2>1, <2>2, FromPart DEF Traced
  <2>4. PICK k \in DOMAIN flat : part[k] = n + 2 /\ place[k] = 3 /\ flat[k] = Parts(text)[n + 2][3]
    BY <2>1, <2>2, FromPart DEF Traced
  <2>5. flat[h] = "table" /\ flat[k] = "base"
    BY <2>1, <2>3, <2>4, BlockIs
  <2> QED
    BY <2>3, <2>4, <2>5, SamePart
<1>3. CASE Has(text, "table") /\ "base" \notin there
  <2>1. PICK i \in DOMAIN text : text[i] = "table"
    BY <1>3 DEF Has, ToSet
  <2>2. PICK j \in DOMAIN Missing(text) : Missing(text)[j] = "base"
    <3>1. "base" \in Range(Missing(text))
      BY <1>3, MissingFacts
    <3> QED
      BY <3>1 DEF Range
  <2>3. i + 1 \in DOMAIN Parts(text) /\ Parts(text)[i + 1] = <<"table">> \o Missing(text)
    <3>1. i \notin Selections(text)
      BY <2>1, HeaderNotSelection DEF Headers
    <3>2. Becomes(text, i) = <<"table">> \o Missing(text)
      BY <2>1, <3>1 DEF Becomes
    <3>3. i + 1 \in 1..n + 2
      BY <1>1
    <3> QED
      BY <3>2, <3>3, PatchedIsParts
  <2>4. 1 \in DOMAIN Parts(text)[i + 1] /\ Parts(text)[i + 1][1] = "table"
    BY <2>3, TablePart
  <2>5. j + 1 \in DOMAIN Parts(text)[i + 1] /\ Parts(text)[i + 1][j + 1] = "base"
    BY <2>2, <2>3, TablePart
  <2>6. PICK h \in DOMAIN flat : part[h] = i + 1 /\ place[h] = 1 /\ flat[h] = "table"
    BY <2>3, <2>4, FromPart DEF Traced
  <2>7. PICK k \in DOMAIN flat : part[k] = i + 1 /\ place[k] = j + 1 /\ flat[k] = "base"
    <3>1. PICK p \in DOMAIN Parts(text) : p = i + 1
      BY <2>3
    <3>2. PICK q \in DOMAIN Parts(text)[p] : q = j + 1
      BY <2>5, <3>1
    <3>3. \E k \in DOMAIN flat : part[k] = p /\ place[k] = q /\ flat[k] = Parts(text)[p][q]
      BY FromPart DEF Traced
    <3> QED
      BY <2>5, <3>1, <3>2, <3>3
  <2>8. j + 1 > 1
    <3>1. j \in 1..Len(Missing(text)) /\ Len(Missing(text)) \in Nat
      BY MissingFacts, LenProperties
    <3> QED
      BY <3>1
  <2> QED
    BY <2>6, <2>7, <2>8, SamePart
<1>4. CASE "base" \in there
  <2>1. PICK i \in Under(text, {"table"}) : KeyOf(text[i]) = "base"
    BY <1>4
  <2>2. i \in DOMAIN text /\ text[i] \in {"base", "foreign"}
    BY <2>1, UnderTable DEF KeyOf
  <2>3. i \notin Selections(text)
    BY <2>2, SelectionFacts
  <2>4. PICK k \in DOMAIN flat : part[k] = i + 1 /\ place[k] = 1 /\ flat[k] = text[i]
    BY <2>2, <2>3, LinesStay
  <2>5. CASE text[i] = "foreign"
    BY <2>4, <2>5 DEF Has, ToSet
  <2>6. CASE text[i] = "base"
    <3>1. {"table"} \in SUBSET Headers /\ {"table", "tableCommented"} \in SUBSET Headers
          /\ "base" \notin Headers
      BY DEF Headers
    <3>2. PICK t \in DOMAIN text : Heads(text, t, i) /\ text[t] = "table"
      BY <2>1, <2>2, <3>1, UnderIs
    <3>3. t \notin Selections(text)
      BY <3>2, HeaderNotSelection DEF Heads
    <3>4. PICK h \in DOMAIN flat : part[h] = t + 1 /\ place[h] = 1 /\ flat[h] = text[t]
      BY <3>3, LinesStay
    <3>5. h < k
      <4>1. part[h] < part[k]
        BY <1>1, <2>2, <2>4, <3>2, <3>4 DEF Heads
      <4> QED
        BY <4>1, Order
    <3>6. ASSUME NEW g \in DOMAIN flat, h < g, g < k, flat[g] \in Headers PROVE FALSE
      <4>1. /\ place[g] = 1
            /\ \/ \E l \in DOMAIN text : part[g] = l + 1 /\ flat[g] = text[l]
               \/ part[g] = n + 2
        BY <3>6, HeaderKinds
      <4>2. /\ part[h] < part[g] \/ (part[h] = part[g] /\ place[h] < place[g])
            /\ part[g] < part[k] \/ (part[g] = part[k] /\ place[g] < place[k])
        BY <3>6, Order
      <4>3. t + 1 < part[g] /\ part[g] < i + 1
        BY <1>1, <2>2, <2>4, <3>4, <4>1, <4>2
      <4>4. PICK l \in DOMAIN text : part[g] = l + 1 /\ flat[g] = text[l]
        BY <1>1, <2>2, <4>1, <4>3
      <4>5. t < l /\ l < i
        BY <1>1, <2>2, <4>3, <4>4
      <4> QED
        BY <3>2, <3>6, <4>4, <4>5 DEF Heads
    <3>7. Heads(flat, h, k) /\ flat[h] \in {"table", "tableCommented"} /\ flat[k] \notin Headers
      BY <2>4, <2>6, <3>1, <3>2, <3>4, <3>5, <3>6 DEF Heads
    <3>8. k \in DeectxTable(flat)
      BY <1>1, <3>1, <3>7, UnderIs DEF DeectxTable
    <3> QED
      BY <2>4, <2>6, <3>8
  <2> QED
    BY <2>2, <2>5, <2>6
<1> QED
  BY <1>2, <1>3, <1>4

-----------------------------------------------------------------------------
(* Codex's file stays readable                                             *)

\* A table that is not recognised, or that the file was cut short.
Spoilt(text) == Has(text, "tableCommented") \/ Has(text, "broken")

Sound(text) == text # NoFile /\ ~ Spoilt(text) => Valid(text)

\* CodexValid speaks of the file alone. The file may come from the backup, and
\* from a text that a wirer read before others wrote: all three are readable.
CodexFiles ==
    /\ Sound(conf[Codex]) /\ Sound(bak[Codex])
    /\ \A w \in Wirers : wirer[w].at \in WithText /\ Tool(w) = Codex => Sound(wirer[w].text)

\* Who has a text has had it before.
SameTexts ==
    \A w \in Wirers : wirer'[w].at \in WithText =>
        /\ wirer[w].at \in WithText
        /\ wirer'[w].todo = wirer[w].todo /\ wirer'[w].text = wirer[w].text

LEMMA SameTextsSound ==
    ASSUME CodexFiles, SameTexts, NEW w \in Wirers, wirer'[w].at \in WithText, Tool(w)' = Codex
    PROVE  Sound(wirer'[w].text)
BY DEF CodexFiles, SameTexts, Tool

LEMMA SameFilesSound ==
    ASSUME CodexFiles, SameTexts, UNCHANGED <<conf, bak>>
    PROVE  CodexFiles'
<1>1. Sound(conf'[Codex]) /\ Sound(bak'[Codex])
  BY DEF CodexFiles
<1>2. \A w \in Wirers : wirer'[w].at \in WithText /\ Tool(w)' = Codex => Sound(wirer'[w].text)
  BY SameTextsSound
<1> QED
  BY <1>1, <1>2 DEF CodexFiles, Sound

LEMMA SkippingKeepsTexts ==
    ASSUME WirersTyped, NEW w \in Wirers, wirer[w].todo # <<>>,
           SkipFrom(w, "look") \/ SkipFrom(w, "restore")
    PROVE  SameTexts
<1>1. /\ \A u \in Wirers : u # w => wirer'[u] = wirer[u]
      /\ wirer'[w].at \in {"look", "restore"}
  BY Skipped
<1> QED
  BY <1>1 DEF SameTexts, WithText

LEMMA QuietSound ==
    ASSUME WirersTyped, CodexFiles, NEW w \in Wirers,
           \/ BeginWire(w) \/ BeginUnwrap(w) \/ Look(w) \/ LookForBackup(w)
           \/ EndWire(w) \/ RestoreFails(w) \/ RemovePlugin(w) \/ RemoveFails(w)
    PROVE  CodexFiles'
<1>1. UNCHANGED <<conf, bak>>
  BY DEF BeginWire, BeginUnwrap, BeginRun, Look, LookForBackup, EndWire, RestoreFails,
         RemovePlugin, RemoveFails
<1>2. CASE BeginWire(w) \/ BeginUnwrap(w)
  <2>1. PICK place \in {"look", "restore"} : BeginRun(w, place)
    BY <1>2 DEF BeginWire, BeginUnwrap
  <2>2. \A u \in Wirers :
          \/ wirer'[u].at = place
          \/ wirer'[u] = [wirer[u] EXCEPT !.alone = FALSE]
    BY <2>1 DEF BeginRun, IdleWirer
  <2>3. \A u \in Wirers : wirer'[u].at = place \/
          (wirer'[u].at = wirer[u].at /\ wirer'[u].todo = wirer[u].todo /\ wirer'[u].text = wirer[u].text)
    BY <2>2 DEF WirersTyped, WirerState
  <2>4. SameTexts
    BY <2>3 DEF SameTexts, WithText
  <2> QED
    BY <1>1, <2>4, SameFilesSound
<1>3. CASE Look(w)
  <2>1. wirer[w].todo # <<>> /\ (SkipFrom(w, "look") \/ Goto(w, "read"))
    BY <1>3 DEF Look, WirerAt
  <2>2. CASE Goto(w, "read")
    <3>1. /\ \A u \in Wirers : u # w => wirer'[u] = wirer[u]
          /\ wirer'[w].at = "read"
      BY <2>2, WentOn DEF Places
    <3>2. SameTexts
      BY <3>1 DEF SameTexts, WithText
    <3> QED
      BY <1>1, <3>2, SameFilesSound
  <2> QED
    BY <1>1, <2>1, <2>2, SkippingKeepsTexts, SameFilesSound
<1>4. CASE LookForBackup(w)
  <2>1. /\ \A u \in Wirers : u # w => wirer'[u] = wirer[u]
        /\ wirer'[w].todo = wirer[w].todo /\ wirer'[w].text = wirer[w].text
        /\ wirer[w].at \in WithText
    BY <1>4 DEF LookForBackup, WirerAt, WirersTyped, WirerState, WithText
  <2>2. SameTexts
    BY <2>1 DEF SameTexts
  <2> QED
    BY <1>1, <2>2, SameFilesSound
<1>5. CASE EndWire(w) \/ RestoreFails(w) \/ RemovePlugin(w) \/ RemoveFails(w)
  <2>1. /\ \A u \in Wirers : u # w => wirer'[u] = wirer[u]
        /\ wirer'[w].at \in {"idle", "restore", "done"}
    BY <1>5 DEF EndWire, RestoreFails, RemovePlugin, RemoveFails, Goto, WirerAt, IdleWirer,
                WirersTyped, WirerState
  <2>2. SameTexts
    BY <2>1 DEF SameTexts, WithText
  <2> QED
    BY <1>1, <2>2, SameFilesSound
<1> QED
  BY <1>2, <1>3, <1>4, <1>5

LEMMA ReadSound ==
    ASSUME WirersTyped, CodexFiles, NEW w \in Wirers, Read(w)
    PROVE  CodexFiles'
<1> DEFINE text == conf[Tool(w)]
<1>1. /\ wirer[w].todo # <<>> /\ UNCHANGED <<conf, bak>>
      /\ IF text = NoFile \/ Wired(Tool(w), text) THEN SkipFrom(w, "look")
         ELSE wirer' = [wirer EXCEPT ![w].at = "backup", ![w].text = text]
  BY DEF Read, WirerAt
<1>2. CASE SkipFrom(w, "look")
  BY <1>1, <1>2, SkippingKeepsTexts, SameFilesSound
<1>3. CASE wirer' = [wirer EXCEPT ![w].at = "backup", ![w].text = text]
  <2>1. Tool(w) = Codex => Sound(text)
    BY DEF CodexFiles
  <2> HIDE DEF text
  <2>2. /\ \A u \in Wirers : u # w => wirer'[u] = wirer[u]
        /\ wirer'[w].text = text /\ wirer'[w].todo = wirer[w].todo
    BY <1>3 DEF WirersTyped, WirerState
  <2>3. \A u \in Wirers : wirer'[u].at \in WithText /\ Tool(u)' = Codex => Sound(wirer'[u].text)
    BY <2>1, <2>2 DEF CodexFiles, Tool
  <2>4. Sound(conf'[Codex]) /\ Sound(bak'[Codex])
    BY <1>1 DEF CodexFiles
  <2> QED
    BY <2>3, <2>4 DEF CodexFiles, Sound
<1> QED
  BY <1>1, <1>2, <1>3

LEMMA CopySound ==
    ASSUME FilesTyped, WirersTyped, CodexFiles, NEW w \in Wirers, Copy(w)
    PROVE  CodexFiles'
<1> DEFINE t == Tool(w)
<1>1. /\ wirer[w].at = "copy" /\ wirer[w].todo # <<>> /\ UNCHANGED conf
      /\ \/ SkipFrom(w, "look") /\ UNCHANGED bak
         \/ bak' = [bak EXCEPT ![t] = conf[t]] /\ Goto(w, "write")
  BY DEF Copy, Backs, WirerAt
<1>2. CASE SkipFrom(w, "look") /\ UNCHANGED bak
  BY <1>1, <1>2, SkippingKeepsTexts, SameFilesSound
<1>3. CASE bak' = [bak EXCEPT ![t] = conf[t]] /\ Goto(w, "write")
  <2>1. /\ \A u \in Wirers : u # w => wirer'[u] = wirer[u]
        /\ wirer'[w].todo = wirer[w].todo /\ wirer'[w].text = wirer[w].text
    BY <1>3, WentOn DEF Places
  <2>2. SameTexts
    BY <1>1, <2>1 DEF SameTexts, WithText
  <2> HIDE DEF t
  <2>3. bak'[Codex] = bak[Codex] \/ bak'[Codex] = conf[Codex]
    BY <1>3, ToolsAssumption DEF FilesTyped, Files, ToolsAssumption
  <2>4. Sound(conf'[Codex]) /\ Sound(bak'[Codex])
    BY <1>1, <2>3 DEF CodexFiles
  <2>5. \A u \in Wirers : wirer'[u].at \in WithText /\ Tool(u)' = Codex => Sound(wirer'[u].text)
    BY <2>2, SameTextsSound
  <2> QED
    BY <2>4, <2>5 DEF CodexFiles, Sound
<1> QED
  BY <1>1, <1>2, <1>3

\* What spoils a file is no selection, and stays.
LEMMA SpoiltStays ==
    ASSUME NEW text \in Seq(Lines), Spoilt(text)
    PROVE  Spoilt(PatchedCodex(text))
<1> DEFINE flat == PatchedCodex(text)
<1>1. PICK i \in DOMAIN text : text[i] \in {"tableCommented", "broken"}
  BY DEF Spoilt, Has, ToSet
<1>2. i \notin Selections(text)
  BY <1>1, SelectionFacts
<1>3. PICK part, place : Traced(text, part, place)
  BY PatchedIsParts, OriginsExist DEF Traced
<1>4. \E k \in DOMAIN flat : flat[k] = text[i]
  BY <1>2, <1>3, LinesStay
<1> HIDE DEF flat
<1>5. Spoilt(flat)
  BY <1>1, <1>4 DEF Spoilt, Has, ToSet
<1> QED
  BY <1>5 DEF flat

LEMMA PatchedSound ==
    ASSUME NEW text \in Seq(Lines), Sound(text), text # NoFile
    PROVE  Spoilt(Patched(Codex, text)) \/ Valid(Patched(Codex, text))
<1>1. Patched(Codex, text) = PatchedCodex(text)
  BY DEF Patched
<1>2. ASSUME ~ Spoilt(PatchedCodex(text)) PROVE Valid(PatchedCodex(text))
  <2>1. Valid(text)
    BY <1>2, SpoiltStays DEF Sound
  <2> QED
    BY <1>2, <2>1, PatchedValid DEF Spoilt
<1> QED
  BY <1>1, <1>2

\* What a wirer has read of Codex's file can be patched soundly.
LEMMA PatchSound ==
    ASSUME WirersTyped, CodexFiles, NEW w \in Wirers, wirer[w].at = "write", Tool(w) = Codex
    PROVE  Spoilt(Patch(w)) \/ Valid(Patch(w))
<1>1. wirer[w].text \in Seq(Lines) /\ wirer[w].text # NoFile
  BY DEF WirersTyped, WirerState, WithText
<1>2. Sound(wirer[w].text)
  BY DEF CodexFiles, WithText
<1> QED
  BY <1>1, <1>2, PatchedSound DEF Patch

LEMMA CutSound ==
    ASSUME NEW text \in Seq(Lines), NEW part \in Cut(text)
    PROVE  Sound(part)
BY CutType DEF Sound, Spoilt

\* A file left half way is one that was cut short.
LEMMA BrokenOffSound ==
    ASSUME FilesTyped, WirersTyped, CodexFiles, NEW w \in Wirers, BrokenOff(w)
    PROVE  Sound(conf'[Codex]) /\ Sound(bak'[Codex])
<1> DEFINE t == Tool(w)
<1>1. CASE UNCHANGED <<conf, bak>>
  BY <1>1 DEF CodexFiles
<1>2. ASSUME WirerAt(w, "copy"), conf[t] # NoFile, NEW part \in Cut(conf[t]), Backs(w, part),
             UNCHANGED conf
      PROVE  Sound(conf'[Codex]) /\ Sound(bak'[Codex])
  <2>1. t \in Tools
    BY <1>2, NextTool DEF WirerAt
  <2>2. Sound(part)
    BY <1>2, <2>1, CutSound DEF FilesTyped, Files
  <2>3. bak' = [bak EXCEPT ![t] = part]
    BY <1>2 DEF Backs
  <2> HIDE DEF t
  <2>4. bak'[Codex] = bak[Codex] \/ bak'[Codex] = part
    BY <2>3, ToolsAssumption DEF FilesTyped, Files, ToolsAssumption
  <2> QED
    BY <1>2, <2>2, <2>4 DEF CodexFiles
<1>3. ASSUME WirerAt(w, "write"), NEW part \in Cut(Patch(w)), Writes(w, part), UNCHANGED bak
      PROVE  Sound(conf'[Codex]) /\ Sound(bak'[Codex])
  <2>1. wirer[w].text \in Seq(Lines)
    BY <1>3 DEF WirerAt, WirersTyped, WirerState, WithText
  <2>2. Sound(part)
    BY <1>3, <2>1, PatchedType, CutSound DEF Patch
  <2>3. conf' = [conf EXCEPT ![t] = part]
    BY <1>3 DEF Writes
  <2> HIDE DEF t
  <2>4. conf'[Codex] = conf[Codex] \/ conf'[Codex] = part
    BY <2>3, ToolsAssumption DEF FilesTyped, Files, ToolsAssumption
  <2> QED
    BY <1>3, <2>2, <2>4 DEF CodexFiles
<1> QED
  BY <1>1, <1>2, <1>3 DEF BrokenOff

LEMMA BreaksOffSound ==
    ASSUME FilesTyped, WirersTyped, CodexFiles, NEW w \in Wirers, WireFails(w) \/ Killed(w)
    PROVE  CodexFiles'
<1>1. Sound(conf'[Codex]) /\ Sound(bak'[Codex])
  BY BrokenOffSound DEF WireFails, Killed
<1>2. SameTexts
  <2>1. CASE WireFails(w)
    <3>1. wirer[w].todo # <<>> /\ SkipFrom(w, "look")
      BY <2>1 DEF WireFails, WirerAt
    <3> QED
      BY <3>1, SkippingKeepsTexts
  <2>2. CASE Killed(w)
    <3>1. wirer' = [wirer EXCEPT ![w] = IdleWirer] /\ IdleWirer.at \notin WithText
      BY <2>2 DEF Killed, IdleWirer, WithText
    <3> QED
      BY <3>1 DEF SameTexts, WirersTyped
  <2> QED
    BY <2>1, <2>2
<1>3. \A u \in Wirers : wirer'[u].at \in WithText /\ Tool(u)' = Codex => Sound(wirer'[u].text)
  BY <1>2, SameTextsSound
<1> QED
  BY <1>1, <1>3 DEF CodexFiles, Sound

LEMMA WriteSound ==
    ASSUME FilesTyped, WirersTyped, CodexFiles, NEW w \in Wirers, Write(w)
    PROVE  CodexFiles'
<1> DEFINE t == Tool(w)
           new == Patch(w)
<1>1. /\ wirer[w].at = "write" /\ wirer[w].todo # <<>> /\ UNCHANGED bak /\ SkipFrom(w, "look")
      /\ UNCHANGED conf \/ conf' = [conf EXCEPT ![t] = new]
  BY DEF Write, Writes, WirerAt
<1>2. SameTexts
  BY <1>1, SkippingKeepsTexts
<1>3. t = Codex => Sound(new)
  BY <1>1, PatchSound DEF Sound
<1> HIDE DEF t, new
<1>4. conf'[Codex] = conf[Codex] \/ (t = Codex /\ conf'[Codex] = new)
  BY <1>1, ToolsAssumption DEF FilesTyped, Files, ToolsAssumption
<1>5. Sound(conf'[Codex]) /\ Sound(bak'[Codex])
  BY <1>1, <1>3, <1>4 DEF CodexFiles
<1>6. \A u \in Wirers : wirer'[u].at \in WithText /\ Tool(u)' = Codex => Sound(wirer'[u].text)
  BY <1>2, SameTextsSound
<1> QED
  BY <1>5, <1>6 DEF CodexFiles, Sound

LEMMA RestoreSound ==
    ASSUME FilesTyped, WirersTyped, CodexFiles, NEW w \in Wirers, Restore(w)
    PROVE  CodexFiles'
<1> DEFINE t == Tool(w)
<1>1. /\ wirer[w].todo # <<>> /\ SkipFrom(w, "restore")
      /\ \/ UNCHANGED <<conf, bak>>
         \/ conf' = [conf EXCEPT ![t] = bak[t]] /\ bak' = [bak EXCEPT ![t] = NoFile]
  BY DEF Restore, WirerAt
<1>2. SameTexts
  BY <1>1, SkippingKeepsTexts
<1> HIDE DEF t
<1>3. /\ conf'[Codex] = conf[Codex] \/ conf'[Codex] = bak[Codex]
      /\ bak'[Codex] = bak[Codex] \/ bak'[Codex] = NoFile
  BY <1>1, ToolsAssumption DEF FilesTyped, Files, ToolsAssumption
<1>4. Sound(NoFile)
  BY DEF Sound
<1>5. Sound(conf'[Codex]) /\ Sound(bak'[Codex])
  BY <1>3, <1>4 DEF CodexFiles
<1>6. \A u \in Wirers : wirer'[u].at \in WithText /\ Tool(u)' = Codex => Sound(wirer'[u].text)
  BY <1>2, SameTextsSound
<1> QED
  BY <1>5, <1>6 DEF CodexFiles, Sound

LEMMA UserSound ==
    ASSUME NEW text \in UserTexts[Codex] \cup {NoFile}
    PROVE  Sound(text)
<1>1. CASE text \in UserTexts[Codex]
  <2>1. text \in Seq(Lines) /\ ValidToml(text)
    BY <1>1, ToolsAssumption, TextsAssumption DEF ToolsAssumption, TextsAssumption
  <2> QED
    BY <2>1, ValidIs DEF Sound
<1> QED
  BY <1>1 DEF Sound

LEMMA EditedSound ==
    ASSUME WirersTyped, Edited
    PROVE  SameTexts
BY DEF Edited, SameTexts, WirersTyped, WirerState

LEMMA EditSound ==
    ASSUME FilesTyped, WirersTyped, CodexFiles,
           NEW t \in Tools, NEW text \in UserTexts[t] \cup {NoFile}, Edit(t, text)
    PROVE  CodexFiles'
<1>1. SameTexts /\ UNCHANGED bak /\ conf' = [conf EXCEPT ![t] = text]
  BY EditedSound DEF Edit
<1>2. conf'[Codex] = conf[Codex] \/ (t = Codex /\ conf'[Codex] = text)
  BY <1>1, ToolsAssumption DEF FilesTyped, Files, ToolsAssumption
<1>3. Sound(conf'[Codex]) /\ Sound(bak'[Codex])
  BY <1>1, <1>2, UserSound DEF CodexFiles
<1>4. \A u \in Wirers : wirer'[u].at \in WithText /\ Tool(u)' = Codex => Sound(wirer'[u].text)
  BY <1>1, SameTextsSound
<1> QED
  BY <1>3, <1>4 DEF CodexFiles, Sound

LEMMA InitSound == ASSUME SetupInit PROVE CodexFiles
<1>1. conf[Codex] \in UserTexts[Codex] \cup {NoFile} /\ bak[Codex] = NoFile
  BY ToolsAssumption DEF SetupInit, ToolsAssumption
<1>2. Sound(conf[Codex]) /\ Sound(bak[Codex])
  BY <1>1, UserSound DEF Sound
<1>3. \A w \in Wirers : wirer[w].at = "idle"
  BY DEF SetupInit, IdleWirer
<1> QED
  BY <1>2, <1>3 DEF CodexFiles, WithText

LEMMA StepSound ==
    ASSUME WiringInv, CodexFiles, [SetupNext]_setupVars
    PROVE  CodexFiles'
<1>1. FilesTyped /\ WirersTyped
  BY DEF WiringInv
<1>2. ASSUME NEW w \in Wirers,
             \/ BeginWire(w) \/ BeginUnwrap(w) \/ Look(w) \/ LookForBackup(w)
             \/ EndWire(w) \/ RestoreFails(w) \/ RemovePlugin(w) \/ RemoveFails(w)
      PROVE  CodexFiles'
  BY <1>1, <1>2, QuietSound
<1>3. ASSUME NEW w \in Wirers,
             Read(w) \/ Copy(w) \/ Write(w) \/ Restore(w) \/ WireFails(w) \/ Killed(w)
      PROVE  CodexFiles'
  BY <1>1, <1>3, ReadSound, CopySound, WriteSound, RestoreSound, BreaksOffSound
<1>4. ASSUME NEW t \in Tools, NEW text \in UserTexts[t] \cup {NoFile}, Edit(t, text)
      PROVE  CodexFiles'
  BY <1>1, <1>4, EditSound
<1>5. CASE InstallPlugin
  BY <1>1, <1>5, EditedSound, SameFilesSound DEF InstallPlugin
<1>6. CASE UNCHANGED setupVars
  <2>1. SameTexts
    BY <1>6 DEF setupVars, SameTexts
  <2> QED
    BY <1>6, <2>1, SameFilesSound DEF setupVars
<1> QED
  BY <1>2, <1>3, <1>4, <1>5, <1>6 DEF SetupNext

LEMMA CodexFilesAlways == SetupSpec => [](WiringInv /\ CodexFiles)
<1>1. SetupInit => WiringInv /\ CodexFiles
  BY InitSInv, InitSound
<1>2. (WiringInv /\ CodexFiles) /\ [SetupNext]_setupVars => (WiringInv /\ CodexFiles)'
  BY StepSInv, StepSound
<1> QED
  BY <1>1, <1>2, PTL DEF SetupSpec

\* Codex can read its file, whatever the files were that it could read, unless a table has
\* a comment at its header or a write broke off half way: CodexValid.
THEOREM CodexFileReadable == SetupSpec => []CodexValid
<1>1. WiringInv /\ CodexFiles => CodexValid
  <2>1. ASSUME WiringInv, CodexFiles, conf[Codex] # NoFile, ~ Spoilt(conf[Codex])
        PROVE  ValidToml(conf[Codex])
    <3>1. conf[Codex] \in Seq(Lines)
      BY <2>1, ToolsAssumption DEF WiringInv, FilesTyped, Files, ToolsAssumption
    <3>2. Valid(conf[Codex])
      BY <2>1 DEF CodexFiles, Sound
    <3> QED
      BY <2>1, <3>1, <3>2, ValidIs DEF Spoilt
  <2> QED
    BY <2>1 DEF CodexValid, Spoilt
<1> QED
  BY <1>1, CodexFilesAlways, PTL

-----------------------------------------------------------------------------
(* What a write does to a tool's file                                      *)

\* It is one the tool can read and that routes it, or one of Codex's exceptions.
Wires(t, text) ==
    \/ Routes(t, text) /\ Wired(t, text)
    \/ /\ t = Codex
       /\ \E line \in {"foreign", "tableCommented", "broken"} : Has(text, line)

LEMMA PatchedCodexRoutes ==
    ASSUME NEW text \in Seq(Lines), Spoilt(PatchedCodex(text)) \/ Valid(PatchedCodex(text))
    PROVE  Wires(Codex, PatchedCodex(text))
<1> DEFINE flat == PatchedCodex(text)
<1>1. PICK part, place : Traced(text, part, place)
  BY PatchedIsParts, OriginsExist DEF Traced
<1>2. flat \in Seq(Lines)
  BY PatchedIsParts, FlattenType
<1>3. \E i \in TopLevel(flat) : flat[i] = "provider"
  BY <1>1, PatchedSelects
<1>4. (\E i \in DeectxTable(flat) : flat[i] = "base") \/ Has(flat, "foreign")
  BY <1>1, PatchedHasBase
<1> HIDE DEF flat
<1>5. CASE Spoilt(flat)
  BY <1>5 DEF Spoilt, Wires, flat
<1>6. CASE ~ Spoilt(flat)
  <2>1. ValidToml(flat)
    BY <1>2, <1>6, ValidIs DEF Spoilt, flat
  <2>2. \A i \in DeectxTable(flat) : i \in DOMAIN flat
    BY DEF DeectxTable, Under
  <2>3. (\E i \in DeectxTable(flat) : flat[i] = "base") => Has(flat, "base")
    BY <2>2 DEF Has, ToSet
  <2>4. Wires(Codex, flat)
    BY <1>3, <1>4, <2>1, <2>3 DEF Routes, Wired, Wires
  <2> QED
    BY <2>4 DEF flat
<1> QED
  BY <1>5, <1>6

LEMMA PatchedJsonRoutes ==
    ASSUME NEW t, t # Codex, NEW text \in Seq(Lines), ~ Has(text, "broken")
    PROVE  Wires(t, PatchedJson(text))
<1> DEFINE whole == Lines \ {"broken"}
           rest == Without(text, {"base", "foreign"})
<1>1. text \in Seq(whole)
  <2>1. Len(text) \in Nat /\ DOMAIN text = 1..Len(text) /\ text = [i \in 1..Len(text) |-> text[i]]
    BY LenProperties
  <2>2. \A i \in 1..Len(text) : text[i] \in whole
    BY <2>1, ElementOfSeq DEF Has, ToSet
  <2> HIDE DEF whole
  <2> QED
    BY <2>1, <2>2
<1>2. <<"base">> \in Seq(whole) /\ "base" \in Range(<<"base">>)
  BY DEF Lines, Range
<1>3. PatchedJson(text) = rest \o <<"base">>
  BY DEF PatchedJson
<1> HIDE DEF whole
<1>4. rest \in Seq(whole)
  BY <1>1, WithoutType
<1> HIDE DEF rest
<1>5. rest \o <<"base">> \in Seq(whole)
  BY <1>2, <1>4, ConcatProperties
<1>6. "base" \in Range(rest \o <<"base">>)
  <2>1. Range(rest \o <<"base">>) = Range(rest) \cup Range(<<"base">>)
    BY <1>2, <1>4, RangeConcatenation
  <2> QED
    BY <1>2, <2>1
<1>7. \A i \in DOMAIN (rest \o <<"base">>) : (rest \o <<"base">>)[i] \in whole
  BY <1>5, LenProperties, ElementOfSeq
<1>8. Has(rest \o <<"base">>, "base") /\ ~ Has(rest \o <<"base">>, "broken")
  BY <1>6, <1>7 DEF whole, Has, ToSet, Range
<1> QED
  BY <1>3, <1>8 DEF Wires, Routes, Wired

LEMMA WriteRoutes ==
    ASSUME WiringInv, CodexFiles, NEW w \in Wirers, Write(w), conf' # conf
    PROVE  Wires(Tool(w), conf'[Tool(w)])
<1> DEFINE t == Tool(w)
           text == wirer[w].text
<1>1. WirersTyped /\ FilesTyped
  BY DEF WiringInv
<1>2. wirer[w].at = "write" /\ t \in Tools /\ text \in Seq(Lines)
  <2>1. wirer[w].at = "write" /\ wirer[w].todo # <<>>
    BY DEF Write, WirerAt
  <2> QED
    BY <1>1, <2>1, NextTool DEF WirersTyped, WirerState, WithText
<1>3. conf' = [conf EXCEPT ![t] = Patch(w)] /\ Patchable(t, text) /\ Patch(w) = Patched(t, text)
  BY DEF Write, Writes, Patch
<1>4. conf'[t] = Patched(t, text)
  <2> HIDE DEF t, text
  <2> QED
    BY <1>1, <1>2, <1>3 DEF FilesTyped, Files
<1>5. CASE t = Codex
  <2>1. Spoilt(Patched(t, text)) \/ Valid(Patched(t, text))
    BY <1>1, <1>2, <1>3, <1>5, PatchSound
  <2>2. Patched(t, text) = PatchedCodex(text)
    BY <1>5 DEF Patched
  <2> HIDE DEF t, text
  <2>3. Wires(Codex, PatchedCodex(text))
    BY <1>2, <2>1, <2>2, PatchedCodexRoutes
  <2>4. Wires(t, conf'[t])
    BY <1>4, <1>5, <2>2, <2>3
  <2> QED
    BY <2>4 DEF t
<1>6. CASE t # Codex
  <2>1. Patched(t, text) = PatchedJson(text) /\ ~ Has(text, "broken")
    BY <1>3, <1>6 DEF Patched, Patchable
  <2> HIDE DEF t, text
  <2>2. Wires(t, PatchedJson(text))
    BY <1>2, <1>6, <2>1, PatchedJsonRoutes
  <2>3. Wires(t, conf'[t])
    BY <1>4, <2>1, <2>2
  <2> QED
    BY <2>3 DEF t
<1> QED
  BY <1>5, <1>6

\* A tool whose file was patched can read it and sends its requests to the proxy, or is
\* Codex with a deectx table that names another address or whose header has a comment, or
\* with a file that was cut short: WiringRoutes.
THEOREM WiredToolsRoute == SetupSpec => WiringRoutes
<1>1. WiringInv /\ CodexFiles =>
        [\A w \in Wirers :
            Write(w) /\ conf' # conf =>
                LET text == conf'[Tool(w)]
                IN \/ Routes(Tool(w), text) /\ Wired(Tool(w), text)
                   \/ /\ Tool(w) = Codex
                      /\ \E line \in {"foreign", "tableCommented", "broken"} : Has(text, line)
        ]_setupVars
  BY WriteRoutes DEF Wires
<1> QED
  BY <1>1, CodexFilesAlways, PTL DEF WiringRoutes
=============================================================================
