-------------------------------- MODULE Proxy --------------------------------
(***************************************************************************)
(* proxy.rs: what happens to one request, to its body, its answer, its      *)
(* ledger entry and the counters, while other requests run, the dashboard   *)
(* switches packs and clears the logs, and the NER model panics.            *)
(*                                                                         *)
(* A body is the sequence of the strings mask_walk reaches (opaque blocks   *)
(* and protocol ids are not among them); a string is the sequence of what   *)
(* some detector may find in it.  The Masker's operations are atomic here,  *)
(* which is what Masker.tla shows of them.  Headers, routing and streaming  *)
(* are left out: they do not touch this state.                              *)
(***************************************************************************)
EXTENDS PlaceholderText

CONSTANTS Requests, Admins, Sessions,
          Words,            \* the atoms users write, white space among them
          Bodies,           \* the bodies a client may send
          NoBody,
          DirPacks,         \* the packs in packs_dir
          ClosedPacks,      \* packs with failClosed: true
          NerPacks,         \* packs with NER entities
          NerEnabled,       \* cfg.ner
          ModelInstalled,   \* the model files are there and load
          Posted,           \* the lists of names the dashboard may post
          StartPacks,       \* active_packs when the process started
          MaxInterventions  \* bound: POST /packs, /audit/clear and restarts

Toggleable == {"gdpr", "cdr-au"}
Packs == {"default"} \cup Toggleable \cup DirPacks

Finding ==
    {f \in [slice : Seq(Words), text : Seq(Words), label : Labels,
            action : {"mask", "redact"}, pack : Packs, ner : BOOLEAN] :
        f.text = DetectedText(f)}

\* canonical: serialising the parsed body gives its bytes again.
Body == [kind : {"completion", "count_tokens"}, session : Sessions,
         parses : BOOLEAN, canonical : BOOLEAN, strings : Seq(Seq(Finding))]

ASSUME WordsAssumption == \A w \in Words : w # Redacted /\ w \notin Placeholder

ASSUME PacksAssumption ==
    /\ StartPacks \subseteq Packs
    /\ ClosedPacks \subseteq Packs
    /\ NerPacks \subseteq Packs
    /\ "default" \notin DirPacks

ASSUME BodiesAssumption == Bodies \subseteq Body /\ NoBody \notin Bodies

VARIABLES runtime,  \* the PackRuntime: packs, and the state of the NER detector
          config,   \* active_packs in config.toml
          admin,    \* where each dashboard call is
          interventions,
          books,    \* the Masker: for each session the placeholders of its texts
          stats,    \* LiveStats
          ledger,   \* the entries in the ledger's files
          req       \* the requests

vars == <<runtime, config, admin, interventions, books, stats, ledger, req>>

-----------------------------------------------------------------------------
(* Packs                                                                   *)

\* load_active: default, the named built-in packs, and of packs_dir those named
\* - or all of them when no pack is named.
LoadActive(active) ==
    {"default"} \cup (active \cap Toggleable)
                \cup {p \in DirPacks : active = {} \/ p \in active}

\* A detector without labels or without a model is not ready; without cfg.ner
\* there is none.
NerDetector(packs) ==
    IF ~ NerEnabled THEN "none"
    ELSE IF ModelInstalled /\ packs \cap NerPacks # {} THEN "ready" ELSE "absent"

BuildRuntime(active) ==
    [packs |-> LoadActive(active), ner |-> NerDetector(LoadActive(active))]

FailClosed(rt) == rt.packs \cap ClosedPacks # {}
Ready(rt) == rt.ner \in {"none", "ready"}

\* pack_runtime_blocked
Blocked(rt) == FailClosed(rt) /\ ~ Ready(rt)

\* chain.detect: NER fails open.
Detected(rt, f) == f.pack \in rt.packs /\ (f.ner => rt.ner = "ready")

-----------------------------------------------------------------------------
(* Masking one string                                                      *)

NumberUnder(book, label) ==
    1 + Cardinality({o \in DOMAIN book : book[o].label = label})

Remember(book, f) ==
    IF f.action = "redact" \/ f.text \in DOMAIN book THEN book
    ELSE With(book, f.text, [label |-> f.label, n |-> NumberUnder(book, f.label)])

RememberAll(book, findings) == FoldLeft(Remember, book, findings)

Found(rt, string) ==
    FlattenSeq([i \in DOMAIN string |->
                  IF Detected(rt, string[i]) THEN <<string[i]>> ELSE <<>>])

\* How many findings are masked, and redacted.
Counted(found, action) == Cardinality({i \in DOMAIN found : found[i].action = action})

Stands(book, f) == IF f.action = "redact" THEN Redacted ELSE book[f.text]

\* What becomes of a string: found slices are replaced, the others stay.
MaskedString(rt, book, string) ==
    [i \in DOMAIN string |->
        IF Detected(rt, string[i]) THEN <<Stands(book, string[i])>>
                                   ELSE string[i].slice]

Clear(string) == [i \in DOMAIN string |-> string[i].slice]
ClearBody(body) == [i \in DOMAIN body.strings |-> Clear(body.strings[i])]

\* The atoms that stand for something in a body as it was sent.
Replacements(sent) ==
    LET atoms == FlattenSeq(FlattenSeq(sent))
    IN FlattenSeq([i \in DOMAIN atoms |->
                     IF atoms[i] = Redacted \/ atoms[i] \in Placeholder
                     THEN <<atoms[i]>> ELSE <<>>])

Events(rt, book, string) ==
    LET found == Found(rt, string)
    IN [i \in DOMAIN found |-> Stands(book, found[i])]

Rehydrated(book, sent) ==
    [i \in DOMAIN sent |->
        [j \in DOMAIN sent[i] |->
            CHOOSE t \in Rehydrations(book, sent[i][j]) : TRUE]]

-----------------------------------------------------------------------------
NoRequest == [at |-> "new", body |-> NoBody, out |-> <<>>, events |-> <<>>, serialized |-> FALSE,
              sent |-> <<>>, status |-> 0, answer |-> <<>>]

Init ==
    /\ config = StartPacks
    /\ runtime = BuildRuntime(StartPacks)
    /\ admin = [a \in Admins |-> [at |-> "idle"]]
    /\ interventions = 0
    /\ books = [s \in Sessions |-> NoBook]
    /\ stats = [requests |-> 0, masked |-> 0, redacted |-> 0, errors |-> 0]
    /\ ledger = <<>>
    /\ req = [r \in Requests |-> NoRequest]

At(r, place) == req[r].at = place
BodyOf(r) == req[r].body
IsCompletion(r) == BodyOf(r).kind = "completion"

Count(fields) == stats' = [f \in DOMAIN stats |->
                            stats[f] + (IF f \in DOMAIN fields THEN fields[f] ELSE 0)]

Others == <<config, admin, interventions>>

-----------------------------------------------------------------------------
(* handle_completion, handle_passthrough for count_tokens                  *)

\* record_request, and the parse: a completion that does not parse goes on as
\* it is; count_tokens passes the gate first.
Arrive(r) ==
    /\ At(r, "new")
    /\ \E body \in Bodies :
          req' = [req EXCEPT ![r].body = body,
                             ![r].out = ClearBody(body),
                             ![r].at = IF body.kind = "completion" /\ ~ body.parses
                                       THEN "forward" ELSE "gate"]
    /\ Count([requests |-> 1])
    /\ UNCHANGED <<runtime, books, ledger, Others>>

Gate(r) ==
    /\ At(r, "gate")
    /\ IF Blocked(runtime)
       THEN req' = [req EXCEPT ![r].at = "done", ![r].status = 503]
       ELSE IF BodyOf(r).parses
       THEN req' = [req EXCEPT ![r].at = "mask", ![r].out = <<>>]
       ELSE req' = [req EXCEPT ![r].at = "forward"]
    /\ UNCHANGED <<runtime, books, stats, ledger, Others>>

MoreStrings(r) == At(r, "mask") /\ Len(req[r].out) < Len(BodyOf(r).strings)
NextString(r) == BodyOf(r).strings[Len(req[r].out) + 1]

\* Mistaken: a string in which nothing is found is not passed.
MaskContent_Found(r) ==
    LET s == BodyOf(r).session
        found == Found(runtime, NextString(r))
        book == RememberAll(books[s], found)
    IN /\ MoreStrings(r)
       /\ found # <<>>
       /\ books' = [books EXCEPT ![s] = book]
       /\ req' = [req EXCEPT
                    ![r].out = Append(@, MaskedString(runtime, book, NextString(r))),
                    ![r].events = @ \o Events(runtime, book, NextString(r))]
       /\ UNCHANGED <<runtime, stats, ledger, Others>>

\* mask_content: the runtime is read anew for every string.
MaskContent(r) ==
    LET s == BodyOf(r).session
        found == Found(runtime, NextString(r))
        book == RememberAll(books[s], found)
    IN /\ MoreStrings(r)
       /\ books' = [books EXCEPT ![s] = book]
       /\ req' = [req EXCEPT
                    ![r].out = Append(@, MaskedString(runtime, book, NextString(r))),
                    ![r].events = @ \o Events(runtime, book, NextString(r))]
       /\ Count([masked |-> Counted(found, "mask"), redacted |-> Counted(found, "redact")])
       /\ UNCHANGED <<runtime, ledger, Others>>

\* Mistaken: the strings masked so far go on with the rest as it was.
MaskPanics_KeepsPartial(r) ==
    LET done == Len(req[r].out)
        clear == ClearBody(BodyOf(r))
    IN /\ MoreStrings(r)
       /\ runtime.ner = "ready"
       /\ runtime' = [runtime EXCEPT !.ner = "poisoned"]
       /\ req' = [req EXCEPT ![r].out = @ \o SubSeq(clear, done + 1, Len(clear)),
                             ![r].at = IF IsCompletion(r) THEN "forward" ELSE "record"]
       /\ Count([errors |-> 1])
       /\ UNCHANGED <<books, ledger, Others>>

\* Masking panics in this string - in NER, whose mutex stays poisoned, or in
\* replace_range, when the session's map is filled already - and the original
\* body goes on.
MaskPanics(r) ==
    LET s == BodyOf(r).session
        found == Found(runtime, NextString(r))
    IN /\ MoreStrings(r)
       /\ \/ /\ runtime.ner = "ready"
             /\ runtime' = [runtime EXCEPT !.ner = "poisoned"]
             /\ UNCHANGED books
          \/ /\ found # <<>>
             /\ books' = [books EXCEPT ![s] = RememberAll(@, found)]
             /\ UNCHANGED runtime
       /\ req' = [req EXCEPT ![r].out = ClearBody(BodyOf(r)), ![r].events = <<>>,
                             ![r].at = IF IsCompletion(r) THEN "forward" ELSE "record"]
       /\ Count([errors |-> 1])
       /\ UNCHANGED <<ledger, Others>>

Serialize(r) ==
    /\ At(r, "mask")
    /\ Len(req[r].out) = Len(BodyOf(r).strings)
    /\ req' = [req EXCEPT ![r].at = IF IsCompletion(r) THEN "forward" ELSE "record",
                          ![r].serialized = TRUE]
    /\ UNCHANGED <<runtime, books, stats, ledger, Others>>

\* out != body, as bytes: also when only the formatting differs.
WasMasked(r) ==
    /\ req[r].serialized
    /\ req[r].out # ClearBody(BodyOf(r)) \/ ~ BodyOf(r).canonical

Forward(r) ==
    /\ At(r, "forward")
    /\ req' = [req EXCEPT ![r].at = "await",
                          ![r].sent = Append(@, req[r].out)]
    /\ UNCHANGED <<runtime, books, stats, ledger, Others>>

\* What may come of a request that was sent: an answer, 400, or 422 - which stands
\* for any other refusal (413, 429, 5xx), and for the 502 that the proxy gives
\* when it cannot reach the upstream or read its answer.
Statuses == {200, 400, 422}

\* Of the rejections of a masked body only a 400 is taken as masking's fault; the
\* others reach the tool.
Retries(r, status) == status = 400 /\ WasMasked(r)

\* Mistaken: the events of the rejected body are kept.
RetryUnmasked_KeepsEvents(r) ==
    /\ At(r, "await")
    /\ Retries(r, 400)
    /\ req' = [req EXCEPT ![r].at = "forward", ![r].out = ClearBody(BodyOf(r)),
                          ![r].serialized = FALSE]
    /\ Count([errors |-> 1])
    /\ UNCHANGED <<runtime, books, ledger, Others>>

\* The upstream rejects a request that was masked: once more, unmasked.  A
\* completion drops its events; count_tokens is in the ledger already.
RetryUnmasked(r) ==
    /\ At(r, "await")
    /\ Retries(r, 400)
    /\ req' = [req EXCEPT ![r].at = "forward", ![r].out = ClearBody(BodyOf(r)),
                          ![r].serialized = FALSE, ![r].events = <<>>]
    /\ Count([errors |-> 1])
    /\ UNCHANGED <<runtime, books, ledger, Others>>

\* Mistaken: the answer is passed on as it came.
Answer_AsItCame(r) ==
    /\ At(r, "await")
    /\ \E status \in Statuses :
          /\ ~ Retries(r, status)
          /\ req' = [req EXCEPT ![r].at = IF IsCompletion(r) THEN "record" ELSE "done",
                                ![r].status = status,
                                ![r].answer = IF status # 200 THEN <<>>
                                              ELSE Last(req[r].sent)]
    /\ UNCHANGED <<runtime, books, stats, ledger, Others>>

\* The upstream's answer repeats what it was sent.  Only a completion that parsed
\* has a session to rehydrate for, and a ledger entry to write.
Answer(r) ==
    LET session == IsCompletion(r) /\ BodyOf(r).parses
        last == Last(req[r].sent)
    IN /\ At(r, "await")
       /\ \E status \in Statuses :
            /\ ~ Retries(r, status)
            /\ req' = [req EXCEPT
                         ![r].at = IF session THEN "record" ELSE "done",
                         ![r].status = status,
                         ![r].answer = IF status # 200 THEN <<>>
                                       ELSE IF session
                                       THEN Rehydrated(books[BodyOf(r).session], last)
                                       ELSE last]
       /\ UNCHANGED <<runtime, books, stats, ledger, Others>>

\* ledger.append; when it fails that is only logged.
Record(r) ==
    LET entry == [request |-> r, kind |-> BodyOf(r).kind,
                  events |-> req[r].events, packs |-> runtime.packs]
    IN /\ At(r, "record")
       /\ req' = [req EXCEPT ![r].at = IF IsCompletion(r) THEN "done" ELSE "forward"]
       /\ ledger' \in {ledger, Append(ledger, entry)}
       /\ UNCHANGED <<runtime, books, stats, Others>>

\* The client hangs up: the handler is dropped where it awaits the upstream.
HangUp(r) ==
    /\ At(r, "await")
    /\ req' = [req EXCEPT ![r].at = "gone"]
    /\ UNCHANGED <<runtime, books, stats, ledger, Others>>

-----------------------------------------------------------------------------
(* The dashboard                                                           *)

Intervene ==
    /\ interventions < MaxInterventions
    /\ interventions' = interventions + 1

\* Mistaken: names the dashboard does not know are saved.
SavePacks_Unfiltered(a) ==
    /\ admin[a].at = "idle"
    /\ Intervene
    /\ \E names \in Posted :
          /\ config' = names
          /\ admin' = [admin EXCEPT ![a] = [at |-> "saved", packs |-> names]]
    /\ UNCHANGED <<runtime, books, stats, ledger, req>>

\* POST /packs keeps the names it knows and saves them first...
SavePacks(a) ==
    /\ admin[a].at = "idle"
    /\ Intervene
    /\ \E names \in Posted :
          LET known == names \cap Toggleable
          IN /\ config' = known
             /\ admin' = [admin EXCEPT ![a] = [at |-> "saved", packs |-> known]]
    /\ UNCHANGED <<runtime, books, stats, ledger, req>>

\* Mistaken: the packs are swapped in though they could not be saved.
SaveFails_SwapsIn(a) ==
    /\ admin[a].at = "idle"
    /\ Intervene
    /\ \E names \in Posted :
          admin' = [admin EXCEPT ![a] = [at |-> "saved", packs |-> names \cap Toggleable]]
    /\ UNCHANGED <<runtime, config, books, stats, ledger, req>>

\* ... unless that fails: 500, and nothing changes.
SaveFails(a) ==
    /\ admin[a].at = "idle"
    /\ Intervene
    /\ UNCHANGED <<runtime, config, admin, books, stats, ledger, req>>

\* ... then it builds a runtime (and loads the model anew), and swaps it in.
SwapRuntime(a) ==
    /\ admin[a].at = "saved"
    /\ runtime' = BuildRuntime(admin[a].packs)
    /\ admin' = [admin EXCEPT ![a] = [at |-> "idle"]]
    /\ UNCHANGED <<config, interventions, books, stats, ledger, req>>

\* /audit/clear empties the ledger and then resets the counters.
ClearLedger(a) ==
    /\ admin[a].at = "idle"
    /\ Intervene
    /\ ledger' = <<>>
    /\ admin' = [admin EXCEPT ![a] = [at |-> "cleared"]]
    /\ UNCHANGED <<runtime, config, books, stats, req>>

ResetStats(a) ==
    /\ admin[a].at = "cleared"
    /\ stats' = [f \in DOMAIN stats |-> 0]
    /\ admin' = [admin EXCEPT ![a] = [at |-> "idle"]]
    /\ UNCHANGED <<runtime, config, interventions, books, ledger, req>>

\* /preview detects and nothing else, but NER may panic in it too.
Preview(a) ==
    /\ admin[a].at = "idle"
    /\ \/ UNCHANGED runtime
       \/ /\ runtime.ner = "ready"
          /\ runtime' = [runtime EXCEPT !.ner = "poisoned"]
    /\ UNCHANGED <<books, stats, ledger, req, Others>>

-----------------------------------------------------------------------------
\* The process ends and is started again: what it kept in memory is gone.
Restart ==
    /\ Intervene
    /\ runtime' = BuildRuntime(config)
    /\ books' = [s \in Sessions |-> NoBook]
    /\ stats' = [f \in DOMAIN stats |-> 0]
    /\ admin' = [a \in Admins |-> [at |-> "idle"]]
    /\ req' = [r \in Requests |->
                 IF At(r, "new") \/ At(r, "done") THEN req[r]
                 ELSE [req[r] EXCEPT !.at = "gone"]]
    /\ UNCHANGED <<config, ledger>>

Handle(r) ==
    \/ Gate(r) \/ MaskContent(r) \/ MaskPanics(r) \/ Serialize(r) \/ Forward(r)
    \/ RetryUnmasked(r) \/ Answer(r) \/ Record(r)

Dashboard(a) ==
    \/ SavePacks(a) \/ SaveFails(a) \/ SwapRuntime(a)
    \/ ClearLedger(a) \/ ResetStats(a) \/ Preview(a)

Next ==
    \/ \E r \in Requests : Arrive(r) \/ Handle(r) \/ HangUp(r)
    \/ \E a \in Admins : Dashboard(a)
    \/ Restart

Spec == Init /\ [][Next]_vars

(***************************************************************************)
(* The runtime polls every handler that can go on, and a request sent       *)
(* upstream is answered or fails (the client sets no timeout of its own: an *)
(* upstream that keeps the connection open and silent is left out).         *)
(***************************************************************************)
FairSpec ==
    /\ Spec
    /\ \A r \in Requests : WF_vars(Handle(r))
    /\ \A a \in Admins : WF_vars(SwapRuntime(a) \/ ResetStats(a))

-----------------------------------------------------------------------------
(***************************************************************************)
(* Properties                                                              *)
(***************************************************************************)

\* The type invariant.  config.toml never names a pack the dashboard does not
\* know, except those it started with.
TypeOK ==
    /\ runtime \in [packs : SUBSET Packs, ner : {"none", "absent", "ready", "poisoned"}]
    /\ config \in {StartPacks} \cup SUBSET Toggleable
    /\ \A a \in Admins : admin[a].at \in {"idle", "saved", "cleared"}
    /\ stats \in [{"requests", "masked", "redacted", "errors"} -> Nat]
    /\ \A r \in Requests :
        /\ req[r].at \in {"new", "gate", "mask", "record", "forward", "await",
                          "done", "gone"}
        /\ req[r].body \in Bodies \cup {NoBody}
        /\ req[r].status \in Statuses \cup {0, 503}
        /\ Len(req[r].sent) <= 2

\* What the tool is told of a piece of its body: what masking left of it, or what
\* its placeholder was given for.
Legible(piece, f) ==
    IF piece \in {<<Redacted>>, f.slice} THEN piece ELSE DetectedText(f)

\* What a tool reads back is what its user wrote, except the secrets and the white
\* space inside names that NER found, though other requests of the session were
\* masked meanwhile and the packs may have changed between two strings of the
\* request or before the answer came.
AnswerReadable ==
    \A r \in Requests :
        req[r].status = 200 /\ IsCompletion(r) =>
            LET sent == Last(req[r].sent)
            IN req[r].answer =
                 [i \in DOMAIN sent |-> [j \in DOMAIN sent[i] |->
                    Legible(sent[i][j], BodyOf(r).strings[i][j])]]

\* The events a completion leaves in the ledger are the replacements in the
\* body the upstream had last, in order: none when it was sent unmasked after a
\* panic or a rejection.
LedgerTruth ==
    \A i \in DOMAIN ledger :
        ledger[i].kind = "completion" =>
            ledger[i].events = Replacements(Last(req[ledger[i].request].sent))

\* The default pack is always active, and only NER fails open.
AlwaysFound(f) == f.pack = "default" /\ ~ f.ner

\* The upstream gets a body as the client wrote it, or one in all of whose strings
\* the default pack's findings are replaced: never the half that was masked when
\* masking panicked, nor a string passed over when the packs were swapped.  What
\* is sent again after a rejection is the client's own.
NeverHalfMasked ==
    \A r \in Requests : \A k \in DOMAIN req[r].sent :
        LET sent == req[r].sent[k]
            strings == BodyOf(r).strings
        IN \/ sent = ClearBody(BodyOf(r))
           \/ /\ k = 1
              /\ DOMAIN sent = DOMAIN strings
              /\ \A i \in DOMAIN strings : \A j \in DOMAIN strings[i] :
                    AlwaysFound(strings[i][j]) => sent[i][j] # strings[i][j].slice

\* Between two POST /packs the process runs the packs a restart would load.
PacksSurviveRestart ==
    (\A a \in Admins : admin[a].at # "saved") => runtime.packs = LoadActive(config)

\* Every request that arrives is answered, whatever the dashboard does, unless
\* its client hangs up or the process ends.
EveryRequestEnds ==
    \A r \in Requests : At(r, "gate") \/ At(r, "forward") ~> At(r, "done") \/ At(r, "gone")

\* A text some active pack's NER entity covers is not sent in the clear while
\* that pack set fails closed and the detector is down.
InTheClear(r) ==
    \E i \in DOMAIN req[r].out : \E j \in DOMAIN req[r].out[i] :
        LET f == BodyOf(r).strings[i][j]
        IN f.ner /\ f.pack \in runtime.packs /\ req[r].out[i][j] = f.slice

RefusedNotLeaked ==
    [][\A r \in Requests :
          Len(req'[r].sent) > Len(req[r].sent) =>
              ~ (Blocked(runtime) /\ BodyOf(r).parses /\ InTheClear(r))]_vars
=============================================================================
