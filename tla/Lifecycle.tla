------------------------------- MODULE Lifecycle -------------------------------
(***************************************************************************)
(* lifecycle.rs, tray/ and the ends of run_proxy: the proxy is started and  *)
(* stopped by commands, by the tray's menu and by the service manager of    *)
(* the operating system, all of which meet in the port, the pidfile and the *)
(* wiring of the tools.                                                     *)
(*                                                                         *)
(* A process is a `serve`, a `tray`, or a tray without a display.  A server *)
(* is one run of run_proxy_with_shutdown_and_ready: a serve has one, a tray *)
(* one for each ProxyHandle, of which two may live at a time.  The tools'   *)
(* files are wired or not here (Setup.tla), killing is at once, and a pid   *)
(* is not used again while something names it.                              *)
(***************************************************************************)
EXTENDS Integers, FiniteSets, FiniteSetsExt

CONSTANTS Systems,          \* the operating systems considered
          MaxProcesses,     \* bound: processes at a time
          MaxCommands,      \* bound: `deectx start` and `deectx stop`
          MaxClicks,        \* bound: clicks in the tray's menu
          MaxMishaps        \* bound: failures, crashes, reboots, late answers

ASSUME SystemsAssumption == Systems \subseteq {"linux", "macos", "windows"}

ASSUME BoundsAssumption ==
    /\ MaxProcesses \in Nat \ {0} /\ MaxCommands \in Nat
    /\ MaxClicks \in Nat /\ MaxMishaps \in Nat

Processes == 1..MaxProcesses
Nobody == 0
Slots == {1, 2}                 \* the servers of a process
Servers == Processes \X Slots
NoServer == <<0, 0>>
Owner(s) == s[1]

VARIABLES os,
          proc,     \* each process: "none", "serve", "headless" or "tray"
          srv,      \* how far each server has come, and whether it shall stop
          port,     \* the server that is bound to cfg.listen
          pidfile,  \* the process it names
          wired,    \* the tools are wired to the proxy
          enabled,  \* the autostart artifact is there
          job,      \* the service manager: the unit's state, and its process
          tray,     \* each tray's menu
          cmd,      \* the command that runs
          commands, clicks, mishaps,
          calm,     \* history: nothing crossed the command since it began
          untold,   \* history: processes whose pidfile somebody removed
          surprised \* history: trays whose last start was not what they showed

vars == <<os, proc, srv, port, pidfile, wired, enabled, job, tray, cmd, commands,
          clicks, mishaps, calm, untold, surprised>>

running == <<proc, srv, port, job, tray>>
outside == <<pidfile, wired, enabled>>
bounds == <<commands, clicks, mishaps>>
history == <<calm, untold, surprised>>

\* ready: the message that the listener is bound waits for the tray.
NoSrv == [at |-> "none", stop |-> FALSE, ready |-> FALSE]
NoTray == [at |-> "idle", shown |-> "Stopped", handle |-> 0, next |-> 0,
           bound |-> FALSE, toggled |-> FALSE, quits |-> FALSE]
NoCmd == [op |-> "none", at |-> "idle", seen |-> Nobody, warned |-> FALSE]
NoJob == [state |-> "none", pid |-> Nobody]

Up == {p \in Processes : proc[p] # "none"}
ServersOf(p) == {p} \X Slots
Bound == {s \in Servers : srv[s].at \in {"write", "serve"}}
Serving == \E s \in Servers : srv[s].at = "serve"

Mishap == mishaps < MaxMishaps /\ mishaps' = mishaps + 1 /\ calm' = FALSE
NoMishap == UNCHANGED <<mishaps, calm>>

-----------------------------------------------------------------------------
(* Processes come and go                                                   *)

Free == {p \in Processes \ Up : p \notin {pidfile, cmd.seen, job.pid}}

Binds(servers, s) == [servers EXCEPT ![s] = [NoSrv EXCEPT !.at = "bind"]]

\* The state with one process more.  A serve binds; a tray shows its menu and
\* starts a ProxyHandle, or runs headless when there is no display.
Launched(p, kind) ==
    /\ proc' = [proc EXCEPT ![p] = kind]
    /\ srv' = IF kind = "tray" THEN srv ELSE Binds(srv, <<p, 1>>)
    /\ tray' = IF kind = "tray" THEN [tray EXCEPT ![p] = [NoTray EXCEPT !.at = "wire"]]
               ELSE tray
    /\ untold' = untold \ {p}
    /\ surprised' = surprised \ {p}

Kinds == IF os = "linux" THEN {"serve"} ELSE {"tray", "headless"}

\* systemd restarts a unit that failed, and counts SIGTERM for a clean end;
\* launchd (KeepAlive) restarts whatever ended.
JobWithout(gone, failed) ==
    IF job.pid \notin gone \/ job.pid = Nobody THEN job
    ELSE IF os = "macos" \/ failed THEN [state |-> "restart", pid |-> Nobody]
    ELSE [state |-> "down", pid |-> Nobody]

\* The state without some processes; the port is free again.
Ended(gone, job1) ==
    /\ proc' = [p \in Processes |-> IF p \in gone THEN "none" ELSE proc[p]]
    /\ srv' = [s \in Servers |-> IF Owner(s) \in gone THEN NoSrv ELSE srv[s]]
    /\ tray' = [p \in Processes |-> IF p \in gone THEN NoTray ELSE tray[p]]
    /\ port' = IF Owner(port) \in gone THEN NoServer ELSE port
    /\ job' = job1

\* The service manager starts the unit again, or gives up (start limit).  On
\* Windows the login runs the batch file once.
Restart ==
    /\ job.state = "restart"
    /\ \/ /\ Free # {}
          /\ \E kind \in Kinds : Launched(Min(Free), kind)
          /\ job' = IF os = "windows" THEN NoJob
                    ELSE [state |-> "running", pid |-> Min(Free)]
       \/ /\ os = "linux"
          /\ job' = [state |-> "down", pid |-> Nobody]
          /\ UNCHANGED <<proc, srv, tray, untold, surprised>>
    /\ UNCHANGED <<os, port, outside, cmd, bounds, calm>>

Crash(p) ==
    /\ p \in Up
    /\ Mishap
    /\ Ended({p}, JobWithout({p}, TRUE))
    /\ UNCHANGED <<os, outside, cmd, commands, clicks, untold, surprised>>

\* Everything ends but the files; what autostarts comes back with the login.
Reboot ==
    /\ Mishap
    /\ Ended(Up, IF ~ enabled THEN NoJob ELSE [state |-> "restart", pid |-> Nobody])
    /\ cmd' = NoCmd
    /\ UNCHANGED <<os, outside, commands, clicks, untold, surprised>>

-----------------------------------------------------------------------------
(* run_proxy_with_shutdown_and_ready                                       *)

At(s, place) == srv[s].at = place
Move(s, place) == srv' = [srv EXCEPT ![s].at = place]
Over(s) == srv' = [srv EXCEPT ![s] = [NoSrv EXCEPT !.ready = srv[s].ready]]

\* Mistaken: the port can be shared.
Bind_Shared(s) ==
    /\ At(s, "bind")
    /\ port' = s
    /\ srv' = [srv EXCEPT ![s].at = "write", ![s].ready = proc[Owner(s)] = "tray"]
    /\ UNCHANGED <<os, proc, job, tray, outside, cmd, bounds, history>>

Bind(s) ==
    /\ At(s, "bind")
    /\ port = NoServer
    /\ port' = s
    /\ srv' = [srv EXCEPT ![s].at = "write", ![s].ready = proc[Owner(s)] = "tray"]
    /\ UNCHANGED <<os, proc, job, tray, outside, cmd, bounds, history>>

\* Mistaken: the pidfile is cleared on every way out.
BindFails_Clears(s) ==
    /\ At(s, "bind")
    /\ port # NoServer
    /\ pidfile' = Nobody
    /\ IF proc[Owner(s)] = "tray"
       THEN Over(s) /\ UNCHANGED <<proc, port, job, tray>>
       ELSE Ended({Owner(s)}, JobWithout({Owner(s)}, TRUE))
    /\ UNCHANGED <<os, wired, enabled, cmd, bounds, history>>

\* The port is taken: an error before the pidfile is touched.  It ends a serve,
\* and only the thread of a tray.
BindFails(s) ==
    /\ At(s, "bind")
    /\ port # NoServer
    /\ IF proc[Owner(s)] = "tray"
       THEN Over(s) /\ UNCHANGED <<proc, port, job, tray>>
       ELSE Ended({Owner(s)}, JobWithout({Owner(s)}, TRUE))
    /\ UNCHANGED <<os, outside, cmd, bounds, history>>

WritePid(s) ==
    /\ At(s, "write")
    /\ \/ pidfile' = Owner(s) /\ untold' = untold \ {Owner(s)} /\ NoMishap
       \/ Mishap /\ untold' = untold \cup {Owner(s)} /\ UNCHANGED pidfile
    /\ Move(s, "serve")
    /\ UNCHANGED <<os, proc, port, job, tray, wired, enabled, cmd, commands, clicks, surprised>>

\* The shutdown signal, or an error, closes the listener; answers under way are
\* finished.
CloseListener(s) ==
    /\ At(s, "serve")
    /\ \/ srv[s].stop /\ NoMishap /\ UNCHANGED surprised
       \/ Mishap /\ surprised' = surprised \cup {Owner(s)}
    /\ port' = NoServer
    /\ Move(s, "drain")
    /\ UNCHANGED <<os, proc, job, tray, outside, cmd, commands, clicks, untold>>

\* The pidfile goes, whomever it names by now.
Removed(by) == pidfile' = Nobody /\ untold' = untold \cup ({pidfile} \cap (Up \ by))

Finish(s) ==
    /\ At(s, "drain")
    /\ Removed(IF \E t \in ServersOf(Owner(s)) : At(t, "serve") THEN {} ELSE {Owner(s)})
    /\ IF proc[Owner(s)] = "tray"
       THEN Over(s) /\ UNCHANGED <<proc, port, job, tray>>
       ELSE Ended({Owner(s)}, JobWithout({Owner(s)}, TRUE))
    /\ UNCHANGED <<os, wired, enabled, cmd, bounds, calm, surprised>>

-----------------------------------------------------------------------------
(* The tray                                                                *)

TrayAt(p, place) == proc[p] = "tray" /\ tray[p].at = place
Handle(p) == <<p, tray[p].handle>>

\* ProxyHandle.is_running: a thread that was not joined, and that bound in time.
IsRunning(p) == tray[p].handle # 0 /\ tray[p].bound

\* ProxyHandle::start: the tools are wired, a thread is spawned...  (The second
\* thread before last has ended: two live at a time.)
TrayWires(p) ==
    /\ TrayAt(p, "wire")
    /\ wired' = TRUE
    /\ LET free == {i \in Slots \ {tray[p].handle} : At(<<p, i>>, "none")}
       IN /\ free # {}
          /\ srv' = Binds(srv, <<p, Min(free)>>)
          /\ tray' = [tray EXCEPT ![p].at = "wait", ![p].next = Min(free)]
    /\ UNCHANGED <<os, proc, port, job, pidfile, enabled, cmd, bounds, history>>

\* Mistaken: a first start that did not bind is shown as active too.
Shown_Active(p, bound) == "Active"

\* The menu after a start: the first one shows whether the port was bound, a
\* later one does not ask.
Shown(p, bound) == IF bound \/ tray[p].toggled THEN "Active" ELSE "Stopped"

\* Mistaken: the handle before is forgotten, and its thread hears nothing.
TrayStarted_Forgets(p) ==
    /\ TrayAt(p, "wait")
    /\ LET s == <<p, tray[p].next>>
           bound == srv[s].ready
           late == At(s, "bind")
       IN /\ IF late THEN Mishap ELSE NoMishap
          /\ tray' = [tray EXCEPT ![p] = [NoTray EXCEPT !.handle = tray[p].next,
                                                        !.bound = bound,
                                                        !.shown = Shown(p, bound)]]
          /\ srv' = [srv EXCEPT ![s].ready = FALSE]
          /\ surprised' =
                IF late \/ (~ bound /\ tray[p].toggled) THEN surprised \cup {p}
                ELSE IF ~ bound \/ s \in Bound THEN surprised \ {p} ELSE surprised
    /\ UNCHANGED <<os, proc, port, job, outside, cmd, commands, clicks, untold>>

\* ... that has bound, has failed, or has not answered within two seconds.  The
\* handle before is dropped, and with it the sender its thread listens to.
TrayStarted(p) ==
    /\ TrayAt(p, "wait")
    /\ LET s == <<p, tray[p].next>>
           bound == srv[s].ready
           late == At(s, "bind")
       IN /\ IF late THEN Mishap ELSE NoMishap
          /\ tray' = [tray EXCEPT ![p] = [NoTray EXCEPT !.handle = tray[p].next,
                                                        !.bound = bound,
                                                        !.shown = Shown(p, bound)]]
          /\ srv' = [t \in Servers |->
                        [srv[t] EXCEPT !.stop = @ \/ (t = Handle(p)), !.ready = @ /\ t # s]]
          /\ surprised' =
                IF late \/ (~ bound /\ tray[p].toggled) THEN surprised \cup {p}
                ELSE IF ~ bound \/ s \in Bound THEN surprised \ {p} ELSE surprised
    /\ UNCHANGED <<os, proc, port, job, outside, cmd, commands, clicks, untold>>

Click == clicks < MaxClicks /\ clicks' = clicks + 1 /\ calm' = FALSE

Toggle(p) ==
    /\ TrayAt(p, "idle")
    /\ Click
    /\ tray' = IF IsRunning(p) THEN [tray EXCEPT ![p].at = "unwrap"]
               ELSE [tray EXCEPT ![p].at = "wire", ![p].toggled = TRUE]
    /\ UNCHANGED <<os, proc, srv, port, job, outside, cmd, commands, mishaps, untold, surprised>>

\* Quit stops what runs, and what is not known to run ends with the process.
Quit(p) ==
    /\ TrayAt(p, "idle")
    /\ Click
    /\ IF IsRunning(p)
       THEN /\ tray' = [tray EXCEPT ![p].at = "unwrap", ![p].quits = TRUE]
            /\ UNCHANGED <<proc, srv, port, job>>
       ELSE Ended({p}, JobWithout({p}, FALSE))
    /\ UNCHANGED <<os, outside, cmd, commands, mishaps, untold, surprised>>

\* ProxyHandle::stop: the tools are unwired - or some are not, which is a
\* warning -, the thread is told...
TrayUnwraps(p) ==
    /\ TrayAt(p, "unwrap")
    /\ \/ wired' = FALSE /\ NoMishap /\ tray' = [tray EXCEPT ![p].at = "join", ![p].shown = "Stopped"]
       \/ Mishap /\ UNCHANGED wired
          /\ tray' = [tray EXCEPT ![p].at = "join", ![p].shown = "Warning"]
    /\ srv' = [srv EXCEPT ![Handle(p)].stop = TRUE]
    /\ UNCHANGED <<os, proc, port, job, pidfile, enabled, cmd, commands, clicks, untold, surprised>>

\* ... and joined.
TrayJoins(p) ==
    /\ TrayAt(p, "join")
    /\ At(Handle(p), "none")
    /\ IF tray[p].quits THEN Ended({p}, JobWithout({p}, FALSE))
       ELSE /\ tray' = [tray EXCEPT ![p] = [NoTray EXCEPT !.shown = tray[p].shown]]
            /\ UNCHANGED <<proc, srv, port, job>>
    /\ surprised' = surprised \ {p}
    /\ UNCHANGED <<os, outside, cmd, bounds, calm, untold>>

-----------------------------------------------------------------------------
(* deectx start and deectx stop                                            *)

CmdAt(op, place) == cmd.op = op /\ cmd.at = place
Then(place) == cmd' = [cmd EXCEPT !.at = place]

\* Nothing is starting or stopping but the service manager's process, and the
\* one that serves is named.
Settled ==
    /\ port # NoServer => pidfile = Owner(port)
    /\ job.state = "restart" => os = "linux"
    /\ \A s \in Servers :
        \/ srv[s].at = "none"
        \/ At(s, "serve") /\ ~ srv[s].stop
        \/ Owner(s) = job.pid /\ os = "linux" /\ ~ At(s, "drain")
    /\ \A p \in Processes : tray[p].at = "idle"

Begin(op, place) ==
    /\ cmd.at = "idle"
    /\ commands < MaxCommands
    /\ commands' = commands + 1
    /\ cmd' = [NoCmd EXCEPT !.op = op, !.at = place]
    /\ calm' = Settled
    /\ UNCHANGED <<os, running, outside, clicks, mishaps, untold, surprised>>

BeginStart == Begin("start", "kill")
BeginStop == Begin("stop", "unwrap")

\* stop: the tools' files are restored; what fails is a warning.
Unwrap ==
    /\ CmdAt("stop", "unwrap")
    /\ \/ wired' = FALSE /\ NoMishap /\ Then("kill")
       \/ /\ Mishap /\ UNCHANGED wired
          /\ cmd' = [cmd EXCEPT !.at = "kill", !.warned = TRUE]
    /\ UNCHANGED <<os, running, pidfile, enabled, commands, clicks, untold, surprised>>

AfterKill == IF cmd.op = "start" THEN "wire" ELSE "uninstall"

\* stop_running_proxy: the process the pidfile names is killed if it is alive, or
\* killing fails; then the pidfile goes.
KillProxy ==
    /\ cmd.at = "kill"
    /\ IF pidfile = Nobody THEN Then(AfterKill) /\ NoMishap /\ UNCHANGED running
       ELSE /\ cmd' = [cmd EXCEPT !.at = "clear", !.seen = pidfile]
            /\ \/ Ended({pidfile} \cap Up, JobWithout({pidfile} \cap Up, FALSE)) /\ NoMishap
               \/ Mishap /\ UNCHANGED running
    /\ UNCHANGED <<os, outside, commands, clicks, untold, surprised>>

ClearPidfile ==
    /\ cmd.at = "clear"
    /\ Removed({})
    /\ cmd' = [cmd EXCEPT !.at = AfterKill, !.seen = Nobody]
    /\ UNCHANGED <<os, running, wired, enabled, bounds, calm, surprised>>

WireTools ==
    /\ CmdAt("start", "wire")
    /\ wired' = TRUE
    /\ Then("install")
    /\ UNCHANGED <<os, running, pidfile, enabled, bounds, history>>

\* install_daemon: the artifact is written.  systemd starts the unit now unless
\* it runs; launchd loads the agent, which runs it, unless it is loaded.  When
\* one of these fails nobody hears of it.
InstallDaemon ==
    /\ CmdAt("start", "install")
    /\ \/ /\ \/ os = "windows"
             \/ os = "linux" /\ job.state = "running"
             \/ os = "macos" /\ job.state # "none"
          /\ enabled' = TRUE /\ NoMishap
          /\ UNCHANGED <<proc, srv, tray, job, untold, surprised>>
       \/ /\ \/ os = "linux" /\ job.state # "running"
             \/ os = "macos" /\ job.state = "none"
          /\ Free # {}
          /\ \E kind \in Kinds : Launched(Min(Free), kind)
          /\ job' = [state |-> "running", pid |-> Min(Free)]
          /\ enabled' = TRUE /\ NoMishap
       \/ /\ Mishap /\ enabled' \in {enabled, TRUE}
          /\ UNCHANGED <<proc, srv, tray, job, untold, surprised>>
    /\ Then("spawn")
    /\ UNCHANGED <<os, port, pidfile, wired, commands, clicks>>

\* Mistaken: the autostart is trusted to start it.
Spawn_Trusting ==
    /\ CmdAt("start", "spawn")
    /\ IF enabled THEN UNCHANGED <<proc, srv, tray, untold, surprised>>
       ELSE Free # {} /\ \E kind \in Kinds : Launched(Min(Free), kind)
    /\ Then("await")
    /\ UNCHANGED <<os, port, job, outside, bounds, calm>>

\* spawn_serve: a serve on Linux, a tray elsewhere.
Spawn ==
    /\ CmdAt("start", "spawn")
    /\ Free # {}
    /\ \E kind \in Kinds : Launched(Min(Free), kind)
    /\ Then("await")
    /\ UNCHANGED <<os, port, job, outside, bounds, calm>>

\* await_started: the pidfile names a live process, or two seconds are over.
Await ==
    /\ CmdAt("start", "await")
    /\ Then("idle")
    /\ UNCHANGED <<os, running, outside, bounds, history>>

\* Mistaken: only the artifact is removed.
Uninstall_FileOnly ==
    /\ CmdAt("stop", "uninstall")
    /\ enabled' = FALSE
    /\ Then("idle")
    /\ UNCHANGED <<os, running, pidfile, wired, bounds, history>>

\* uninstall_daemon: the unit is stopped and disabled and the artifact removed.
\* Failures are ignored: nothing is stopped, or the artifact stays as well.
Uninstall ==
    /\ CmdAt("stop", "uninstall")
    /\ \/ Ended({job.pid} \cap Up, NoJob) /\ enabled' = FALSE /\ NoMishap
       \/ Mishap /\ enabled' \in {enabled, FALSE} /\ UNCHANGED running
    /\ Then("idle")
    /\ UNCHANGED <<os, pidfile, wired, commands, clicks, untold, surprised>>

-----------------------------------------------------------------------------
Init ==
    /\ os \in Systems
    /\ proc = [p \in Processes |-> "none"]
    /\ srv = [s \in Servers |-> NoSrv]
    /\ port = NoServer
    /\ pidfile = Nobody
    /\ wired = FALSE /\ enabled = FALSE
    /\ job = NoJob
    /\ tray = [p \in Processes |-> NoTray]
    /\ cmd = NoCmd
    /\ commands = 0 /\ clicks = 0 /\ mishaps = 0
    /\ calm = FALSE
    /\ untold = {} /\ surprised = {}

Server(s) ==
    Bind(s) \/ BindFails(s) \/ WritePid(s) \/ CloseListener(s) \/ Finish(s)

Menu(p) == TrayWires(p) \/ TrayStarted(p) \/ TrayUnwraps(p) \/ TrayJoins(p)

Command ==
    \/ Unwrap \/ KillProxy \/ ClearPidfile \/ WireTools \/ InstallDaemon
    \/ Spawn \/ Await \/ Uninstall

Next ==
    \/ \E s \in Servers : Server(s)
    \/ \E p \in Processes : Menu(p) \/ Toggle(p) \/ Quit(p) \/ Crash(p)
    \/ Restart \/ Reboot
    \/ BeginStart \/ BeginStop \/ Command

Spec == Init /\ [][Next]_vars

\* Threads, processes, the service manager and a command that was given go on.
FairSpec ==
    /\ Spec
    /\ \A s \in Servers : WF_vars(Server(s))
    /\ \A p \in Processes : WF_vars(Menu(p))
    /\ WF_vars(Restart) /\ WF_vars(Command)

-----------------------------------------------------------------------------
(***************************************************************************)
(* Properties                                                              *)
(***************************************************************************)

\* The type invariant; the port is its owner's from bind until the listener is
\* closed.
TypeOK ==
    /\ os \in Systems
    /\ proc \in [Processes -> {"none", "serve", "headless", "tray"}]
    /\ \A s \in Servers :
        /\ srv[s].at \in {"none", "bind", "write", "serve", "drain"}
        /\ srv[s].at # "none" => Owner(s) \in Up
        /\ s = port <=> s \in Bound
    /\ port \in Servers \cup {NoServer}
    /\ pidfile \in Processes \cup {Nobody}
    /\ job.state = "running" <=> job.pid # Nobody
    /\ job.pid \in Up \cup {Nobody}
    /\ \A p \in Processes : tray[p] # NoTray => proc[p] = "tray"
    /\ untold \subseteq Processes /\ surprised \subseteq Processes

\* `deectx stop` means off (lifecycle.rs:137-141): when nothing else interfered
\* and it had nothing to warn of, no proxy serves and none will, the tools are
\* not wired, and nothing starts at login.  Not so on macOS, where launchd may
\* have started the tray again, and the tray have wired the tools, before the
\* agent is unloaded.
StopMeansOff ==
    CmdAt("stop", "idle") /\ calm /\ os # "macos" =>
        /\ \A s \in Servers : srv[s].at = "none"
        /\ ~ wired /\ ~ enabled
        /\ job.pid = Nobody /\ job.state # "restart"

\* What `status` makes of the pidfile is right: a proxy that serves is named,
\* and a live process that is named serves.  The one that loses the race for the
\* port does not disturb it; a command or a server that ends may remove it from
\* under another.
PidfileTruth ==
    /\ \A s \in Servers : At(s, "serve") => pidfile = Owner(s) \/ Owner(s) \in untold
    /\ pidfile \in Up => \E s \in ServersOf(pidfile) : srv[s].at \in {"serve", "drain"}

\* The tray at rest shows whether its proxy runs - except after a start that
\* failed to bind when it was not the first, one that took longer than two
\* seconds, or a proxy that failed later.
TrayShows ==
    \A p \in Processes \ surprised :
        TrayAt(p, "idle") =>
            (tray[p].shown = "Active" <=> tray[p].handle # 0 /\ Handle(p) \in Bound)

\* No proxy of a tray runs that its menu cannot stop: what has not been told to
\* stop is what the handle stands for, or the start under way.  A proxy that
\* bound too late, which the menu takes for stopped, ends when the toggle
\* replaces its handle (proxy_handle.rs:23, 33-35; tray/mod.rs:153), and the new
\* one may lose the port to it before that.
NoneUnattended ==
    \A p \in Processes, i \in Slots :
        proc[p] = "tray" /\ srv[<<p, i>>].at # "none" /\ ~ srv[<<p, i>>].stop =>
            \/ i = tray[p].handle
            \/ TrayAt(p, "wait") /\ i = tray[p].next

\* `deectx start` leaves a proxy serving, whoever wins the port: the process it
\* spawned, the service manager's, or one that was there.
StartServes == CmdAt("start", "await") /\ calm ~> Serving \/ ~ calm
=============================================================================
