--------------------------------- MODULE Setup ---------------------------------
(***************************************************************************)
(* setup.rs: tools are wired to the proxy by rewriting their configuration  *)
(* files, with the original kept beside them in a .bak file, and unwired by *)
(* renaming it back.  `deectx start`, `deectx stop` and the tray do so,     *)
(* possibly at once; the user edits, removes and re-creates the files       *)
(* meanwhile; reads, copies, writes, patches and renames fail, half way too, *)
(* and a wirer may be killed.                                               *)
(*                                                                         *)
(* A file is the sequence of its lines, told apart as far as the code or    *)
(* the tool reading it does.  In a JSON file the order means nothing.       *)
(***************************************************************************)
EXTENDS Integers, Sequences, SequencesExt, FiniteSets, FiniteSetsExt

CONSTANTS Wirers,           \* processes that wire and unwire
          ToolOrder,        \* the tools, in the order discover asks for them
          Codex, Opencode,  \* the one with TOML, and the one with a plugin
          UserTexts,        \* for each tool, what its user may write
          NoFile,
          MaxRuns,          \* bound: calls of wire_tools and unwrap
          MaxEdits,         \* bound: edits of the user
          MaxSlips,         \* bound: operations on files that fail, and kills
          CutAfter          \* bound: after how many lines a file is cut short

Tools == ToSet(ToolOrder)

\* In any file: a key of no interest, the proxy's address as the base URL,
\* another base URL, the proxy's address somewhere else, an oauth_account, and
\* what makes a file unreadable - also where it was cut short.
\* In Codex's: model_provider = "deectx" or another; the header of the
\* [model_providers.deectx] table, or the same with a comment after it; another
\* header; and the table's other keys.
Lines == {"key", "base", "foreign", "mention", "locked", "broken",
          "provider", "otherProvider", "table", "tableCommented", "section",
          "name", "wire", "env"}

Headers == {"table", "tableCommented", "section"}

-----------------------------------------------------------------------------
(* What the code makes of a file                                           *)

Has(text, line) == line \in ToSet(text)

HeadersBefore(text, i) == {h \in DOMAIN text : h < i /\ text[h] \in Headers}

\* Lines before any header.
TopLevel(text) == {i \in DOMAIN text : text[i] \notin Headers /\ HeadersBefore(text, i) = {}}

HeaderOf(text, i) == text[Max(HeadersBefore(text, i))]

Under(text, headers) ==
    {i \in DOMAIN text \ TopLevel(text) : text[i] \notin Headers /\ HeaderOf(text, i) \in headers}

Wired(t, text) ==
    /\ Has(text, "base") \/ Has(text, "mention")
    /\ t = Codex => \E i \in TopLevel(text) : text[i] = "provider"

Locked(text) == Has(text, "locked")

\* A key may be there with another value.
KeyOf(line) == IF line = "foreign" THEN "base" ELSE line

TableKeys == <<"name", "base", "wire", "env">>
Block == <<"table">> \o TableKeys

\* A sequence less some elements.
Without(seq, some) ==
    FlattenSeq([i \in DOMAIN seq |-> IF seq[i] \in some THEN <<>> ELSE <<seq[i]>>])

\* codex_missing_key_lines
Missing(text) == Without(TableKeys, {KeyOf(text[i]) : i \in Under(text, {"table"})})

\* Mistaken: a selection under any header counts.
Selections_Anywhere(text) ==
    {i \in DOMAIN text : text[i] \in {"provider", "otherProvider"}}

Selections(text) == {i \in TopLevel(text) : text[i] \in {"provider", "otherProvider"}}

\* The first top-level selection is replaced and the others go, or there is one
\* more at the top; a table that is there gets the keys it is missing.
Reselected(text) ==
    LET selections == Selections(text)
        line(i) ==
            CASE i \in selections ->
                    IF i = Min(selections) THEN <<"provider">> ELSE <<>>
              [] text[i] = "table" -> <<"table">> \o Missing(text)
              [] OTHER -> <<text[i]>>
        lines == FlattenSeq([i \in DOMAIN text |-> line(i)])
    IN IF selections = {} THEN <<"provider">> \o lines ELSE lines

\* Mistaken: the block is added although the table is there.
PatchedCodex_SecondTable(text) == Reselected(text) \o Block

PatchedCodex(text) ==
    Reselected(text) \o (IF Has(text, "table") THEN <<>> ELSE Block)

\* Claude Code and opencode: one key of the JSON value is set.
PatchedJson(text) ==
    Without(text, {"base", "foreign"}) \o <<"base">>

Patchable(t, text) == t = Codex \/ ~ Has(text, "broken")

\* patch_for
Patched(t, text) == IF t = Codex THEN PatchedCodex(text) ELSE PatchedJson(text)

-----------------------------------------------------------------------------
(* What the tool makes of it                                               *)

DeectxTable(text) == Under(text, {"table", "tableCommented"})

\* TOML: a table is declared once, a key is set once.
ValidToml(text) ==
    /\ ~ Has(text, "broken")
    /\ Cardinality({i \in DOMAIN text : text[i] \in {"table", "tableCommented"}}) <= 1
    /\ Cardinality({i \in TopLevel(text) : text[i] \in {"provider", "otherProvider"}}) <= 1
    /\ \A i, j \in DeectxTable(text) : KeyOf(text[i]) = KeyOf(text[j]) => i = j \/ text[i] = "key"

\* The tool sends its requests to the proxy.
Routes(t, text) ==
    IF t # Codex THEN Has(text, "base") /\ ~ Has(text, "broken")
    ELSE /\ ValidToml(text)
         /\ \E i \in TopLevel(text) : text[i] = "provider"
         /\ \E i \in DeectxTable(text) : text[i] = "base"

ASSUME ToolsAssumption ==
    ToolOrder \in Seq(Tools) /\ Codex \in Tools /\ Opencode \in Tools

ASSUME TextsAssumption ==
    /\ \A t \in Tools : UserTexts[t] \subseteq Seq(Lines)
    /\ \A text \in UserTexts[Codex] : ValidToml(text)

-----------------------------------------------------------------------------
VARIABLES conf,     \* the tools' configuration files
          bak,      \* the .bak files
          plugin,   \* opencode's plugin is installed
          wirer,    \* where each wirer is
          runs, edits, slips,
          own,      \* history: what the user wrote last
          outdated, \* history: tools whose user wrote it beside a .bak
          torn,     \* history: tools whose .bak was cut short
          raced     \* history: tools two wirers were at together, and how

setupHistory == <<own, outdated, torn, raced>>

setupVars == <<conf, bak, plugin, wirer, runs, edits, slips, setupHistory>>

setupBounds == <<runs, edits, slips>>

IdleWirer == [at |-> "idle", todo |-> <<>>, text |-> NoFile, sawNone |-> FALSE,
              failures |-> {}, alone |-> FALSE]

Places == {"idle", "look", "read", "backup", "copy", "write", "restore", "done"}

Busy(w) == wirer[w].at \notin {"idle", "done"}
Tool(w) == Head(wirer[w].todo)
WirerAt(w, place) == wirer[w].at = place /\ wirer[w].todo # <<>>

Goto(w, place) == wirer' = [wirer EXCEPT ![w].at = place]

\* On to the next tool.
SkipFrom(w, place) ==
    wirer' = [wirer EXCEPT ![w].at = place, ![w].todo = Tail(@),
                           ![w].text = NoFile, ![w].sawNone = FALSE]

Slip == slips < MaxSlips /\ slips' = slips + 1

SetupInit ==
    /\ conf \in {f \in [Tools -> UNION {UserTexts[t] : t \in Tools} \cup {NoFile}] :
                    \A t \in Tools : f[t] \in UserTexts[t] \cup {NoFile}}
    /\ bak = [t \in Tools |-> NoFile]
    /\ plugin \in BOOLEAN
    /\ wirer = [w \in Wirers |-> IdleWirer]
    /\ runs = 0 /\ edits = 0 /\ slips = 0
    /\ own = conf
    /\ outdated = {} /\ torn = {} /\ raced = {}

\* discover
Discovered == Without(ToolOrder, {t \in Tools : conf[t] = NoFile})

BeginRun(w, place) ==
    /\ ~ Busy(w)
    /\ runs < MaxRuns
    /\ runs' = runs + 1
    /\ wirer' = [v \in Wirers |->
                    IF v = w THEN [IdleWirer EXCEPT !.at = place, !.todo = Discovered,
                                                    !.alone = \A u \in Wirers : ~ Busy(u)]
                    ELSE [wirer[v] EXCEPT !.alone = FALSE]]
    /\ UNCHANGED <<conf, bak, plugin, edits, slips, setupHistory>>

-----------------------------------------------------------------------------
(* wire_tools and patch_config                                             *)

BeginWire(w) == BeginRun(w, "look")

\* is_locked: a file that is gone is not locked.
Look(w) ==
    /\ WirerAt(w, "look")
    /\ IF conf[Tool(w)] # NoFile /\ Locked(conf[Tool(w)])
       THEN SkipFrom(w, "look") ELSE Goto(w, "read")
    /\ UNCHANGED <<conf, bak, plugin, setupBounds, setupHistory>>

\* Mistaken: a file that is gone is patched as well.
Read_NoError(w) ==
    /\ WirerAt(w, "read")
    /\ LET text == conf[Tool(w)]
       IN IF text # NoFile /\ Wired(Tool(w), text) THEN SkipFrom(w, "look")
          ELSE wirer' = [wirer EXCEPT ![w].at = "backup", ![w].text = text]
    /\ UNCHANGED <<conf, bak, plugin, setupBounds, setupHistory>>

\* A file that is gone is an error, a wired one is left alone.
Read(w) ==
    /\ WirerAt(w, "read")
    /\ LET text == conf[Tool(w)]
       IN IF text = NoFile \/ Wired(Tool(w), text) THEN SkipFrom(w, "look")
          ELSE wirer' = [wirer EXCEPT ![w].at = "backup", ![w].text = text]
    /\ UNCHANGED <<conf, bak, plugin, setupBounds, setupHistory>>

\* Mistaken: the backup is taken whenever a tool is wired.
NeedsBackup_Always(t) == TRUE

NeedsBackup(t) == bak[t] = NoFile

LookForBackup(w) ==
    /\ WirerAt(w, "backup")
    /\ wirer' = [wirer EXCEPT ![w].at = IF NeedsBackup(Tool(w)) THEN "copy" ELSE "write",
                              ![w].sawNone = bak[Tool(w)] = NoFile]
    /\ UNCHANGED <<conf, bak, plugin, setupBounds, setupHistory>>

\* Another wirer may have made the backup, and have patched the file, since this
\* one looked.
Backs(w, text) ==
    /\ bak' = [bak EXCEPT ![Tool(w)] = text]
    /\ raced' = IF wirer[w].sawNone /\ bak[Tool(w)] # NoFile
                THEN raced \cup {Tool(w)} ELSE raced

\* The copy is of the file as it is now.
Copy(w) ==
    /\ WirerAt(w, "copy")
    /\ IF conf[Tool(w)] = NoFile
       THEN SkipFrom(w, "look") /\ UNCHANGED <<bak, raced>>
       ELSE Backs(w, conf[Tool(w)]) /\ Goto(w, "write")
    /\ UNCHANGED <<conf, plugin, setupBounds, own, outdated, torn>>

\* Another wirer may have taken the backup away.
Writes(w, text) ==
    /\ conf' = [conf EXCEPT ![Tool(w)] = text]
    /\ raced' = IF bak[Tool(w)] = NoFile THEN raced \cup {Tool(w)} ELSE raced

Patch(w) == Patched(Tool(w), wirer[w].text)

\* What is written was made of the file as it was read.  When the patch fails, the
\* backup stays.
Write(w) ==
    /\ WirerAt(w, "write")
    /\ IF Patchable(Tool(w), wirer[w].text) THEN Writes(w, Patch(w))
       ELSE UNCHANGED <<conf, raced>>
    /\ SkipFrom(w, "look")
    /\ UNCHANGED <<bak, plugin, setupBounds, own, outdated, torn>>

Cut(text) == {SubSeq(text, 1, n) \o <<"broken">> : n \in CutAfter \cap 0..Len(text)}

\* A failure, or a kill, finds the operation not begun or half way: fs::copy and
\* fs::write fill a file in place.  Nothing tells a .bak file that was cut short
\* from a whole one.
BrokenOff(w) ==
    \/ UNCHANGED <<conf, bak, torn, raced>>
    \/ /\ WirerAt(w, "copy") /\ conf[Tool(w)] # NoFile
       /\ \E part \in Cut(conf[Tool(w)]) : Backs(w, part)
       /\ torn' = torn \cup {Tool(w)}
       /\ UNCHANGED conf
    \/ /\ WirerAt(w, "write") /\ Patchable(Tool(w), wirer[w].text)
       /\ \E part \in Cut(Patch(w)) : Writes(w, part)
       /\ UNCHANGED <<bak, torn>>

\* A tool that fails does not keep the others from being wired.
WireFails(w) ==
    /\ \E place \in {"read", "copy", "write"} : WirerAt(w, place)
    /\ Slip
    /\ BrokenOff(w)
    /\ SkipFrom(w, "look")
    /\ UNCHANGED <<plugin, runs, edits, own, outdated>>

EndWire(w) ==
    /\ wirer[w].at = "look" /\ wirer[w].todo = <<>>
    /\ wirer' = [wirer EXCEPT ![w] = IdleWirer]
    /\ UNCHANGED <<conf, bak, plugin, setupBounds, setupHistory>>

-----------------------------------------------------------------------------
(* unwrap                                                                  *)

BeginUnwrap(w) == BeginRun(w, "restore")

Restore(w) ==
    /\ WirerAt(w, "restore")
    /\ LET t == Tool(w)
       IN IF bak[t] = NoFile THEN UNCHANGED <<conf, bak>>
          ELSE /\ conf' = [conf EXCEPT ![t] = bak[t]]
               /\ bak' = [bak EXCEPT ![t] = NoFile]
    /\ SkipFrom(w, "restore")
    /\ UNCHANGED <<plugin, setupBounds, setupHistory>>

\* Mistaken: the first failure ends it.
AfterFailure_None(w) == <<>>

AfterFailure(w) == Tail(wirer[w].todo)

RestoreFails(w) ==
    /\ WirerAt(w, "restore")
    /\ bak[Tool(w)] # NoFile
    /\ Slip
    /\ wirer' = [wirer EXCEPT ![w].failures = @ \cup {Tool(w)},
                              ![w].todo = AfterFailure(w)]
    /\ UNCHANGED <<conf, bak, plugin, runs, edits, setupHistory>>

\* extra_artifacts: the plugin goes whether or not opencode has a configuration.
RemovePlugin(w) ==
    /\ wirer[w].at = "restore" /\ wirer[w].todo = <<>>
    /\ Goto(w, "done")
    /\ plugin' = FALSE
    /\ UNCHANGED <<conf, bak, setupBounds, setupHistory>>

RemoveFails(w) ==
    /\ wirer[w].at = "restore" /\ wirer[w].todo = <<>> /\ plugin
    /\ Slip
    /\ wirer' = [wirer EXCEPT ![w].at = "done", ![w].failures = @ \cup {Opencode}]
    /\ UNCHANGED <<conf, bak, plugin, runs, edits, setupHistory>>

\* The process ends half way: the tray is killed while it wires.
Killed(w) ==
    /\ Busy(w)
    /\ Slip
    /\ BrokenOff(w)
    /\ wirer' = [wirer EXCEPT ![w] = IdleWirer]
    /\ UNCHANGED <<plugin, runs, edits, own, outdated>>

-----------------------------------------------------------------------------
(* The user                                                                *)

Edited ==
    /\ edits < MaxEdits
    /\ edits' = edits + 1
    /\ wirer' = [w \in Wirers |-> [wirer[w] EXCEPT !.alone = FALSE]]

\* The user, or the tool, rewrites the file or removes it.  Beside a .bak file, the
\* older text in there remains what an unwrap will restore.
Edit(t, text) ==
    /\ Edited
    /\ conf' = [conf EXCEPT ![t] = text]
    /\ own' = [own EXCEPT ![t] = text]
    /\ IF bak[t] = NoFile THEN outdated' = outdated \ {t} /\ torn' = torn \ {t}
       ELSE outdated' = outdated \cup {t} /\ UNCHANGED torn
    /\ UNCHANGED <<bak, plugin, runs, slips, raced>>

InstallPlugin ==
    /\ Edited
    /\ plugin' = TRUE
    /\ UNCHANGED <<conf, bak, runs, slips, setupHistory>>

SetupNext ==
    \/ \E w \in Wirers :
        \/ BeginWire(w) \/ Look(w) \/ Read(w) \/ LookForBackup(w) \/ Copy(w)
        \/ Write(w) \/ WireFails(w) \/ EndWire(w)
        \/ BeginUnwrap(w) \/ Restore(w) \/ RestoreFails(w) \/ RemovePlugin(w)
        \/ RemoveFails(w) \/ Killed(w)
    \/ \E t \in Tools : \E text \in UserTexts[t] \cup {NoFile} : Edit(t, text)
    \/ InstallPlugin

SetupSpec == SetupInit /\ [][SetupNext]_setupVars

-----------------------------------------------------------------------------
(***************************************************************************)
(* Properties                                                              *)
(***************************************************************************)

\* The type invariant.
SetupTypeOK ==
    /\ DOMAIN conf = Tools /\ DOMAIN bak = Tools
    /\ \A t \in Tools : {conf[t], bak[t], own[t]} \ {NoFile} \subseteq Seq(Lines)
    /\ plugin \in BOOLEAN /\ outdated \cup torn \cup raced \subseteq Tools
    /\ \A w \in Wirers :
        /\ wirer[w].at \in Places
        /\ wirer[w].text # NoFile <=> wirer[w].at \in {"backup", "copy", "write"}
        /\ wirer[w].failures \subseteq Tools

\* What wiring put aside is the user's own: there is a file - the .bak while there is
\* one, the configuration itself when there is none - that is what the user wrote
\* last, after re-runs, failed reads, patches, writes and renames, and kills
\* (setup.rs:51-52, 255-262).  Not so, and named:
\* - outdated: what the user writes beside a .bak file, the repair of a file that
\*   could not be patched for one, is replaced by the older text at the next unwrap.
\*   It is still a text of the user's, never what wiring made of one;
\* - torn: a copy that broke off half way is trusted by the next run (setup.rs:60);
\* - raced: of two wirers at one tool, one copies what the other has patched over
\*   the backup, or patches after the other has restored.
OriginalsKept ==
    \A t \in Tools \ (torn \cup raced) :
        LET original == IF bak[t] # NoFile THEN bak[t] ELSE conf[t]
        IN IF t \in outdated THEN original \in UserTexts[t] ELSE original = own[t]

\* Codex can read what deeCtx writes into a file it could read: one table, each
\* key once.  A table whose header has a comment is not recognised, and is
\* declared a second time; and a write may have broken off half way.
CodexValid ==
    conf[Codex] # NoFile =>
        \/ ValidToml(conf[Codex])
        \/ Has(conf[Codex], "tableCommented") \/ Has(conf[Codex], "broken")

\* A tool whose file was patched can read it, sends its requests to the proxy, and
\* doctor finds it wired.  Of Codex's files three are excepted: a deectx table that
\* names another address stays as it is, and doctor says that it is not wired
\* (setup.rs:99, 192-211); a table whose header has a comment is declared twice, and
\* doctor says it is wired though Codex cannot read it (setup.rs:96, 130-133); and a
\* file that was cut short is patched as if it were whole.
WiringRoutes ==
    [][\A w \in Wirers :
        Write(w) /\ conf' # conf =>
            LET text == conf'[Tool(w)]
            IN \/ Routes(Tool(w), text) /\ Wired(Tool(w), text)
               \/ /\ Tool(w) = Codex
                  /\ \E line \in {"foreign", "tableCommented", "broken"} : Has(text, line)
      ]_setupVars

\* After an unwrap nobody interfered with, no tool that has a configuration has a
\* .bak file left to restore (whose the configuration is, OriginalsKept says), and
\* the plugin is gone - except what it reports: one tool that fails does not keep
\* the others from being restored (setup.rs:255-262).
UnwrapRestores ==
    \A w \in Wirers :
        wirer[w].at = "done" /\ wirer[w].alone =>
            /\ \A t \in Tools \ wirer[w].failures : conf[t] # NoFile => bak[t] = NoFile
            /\ plugin => Opencode \in wirer[w].failures
=============================================================================
