------------------------------- MODULE WsSession -------------------------------
(***************************************************************************)
(* responses_ws.rs: WebSocket sessions of the Responses API, one task per   *)
(* connection between a client and an upstream.  Frames travel both ways    *)
(* through sockets of bounded size; the task takes one frame at a time,     *)
(* from either side, and sends it on before it takes the next.  Masking     *)
(* happens on the way up, rehydration on the way down, and the ledger gets  *)
(* the events in batches.                                                   *)
(*                                                                         *)
(* A frame's strings are the values the detectors find in them; the n-th    *)
(* value of a session has the placeholder n (Masker.tla says why).          *)
(***************************************************************************)
EXTENDS Integers, Sequences, SequencesExt, FiniteSets

CONSTANTS Connections,
          Values,           \* what clients write and detectors find
          ClientFrames,     \* the frames a client may send
          UpstreamFrames,   \* the frames an upstream may send
          Threshold,        \* LEDGER_FLUSH_THRESHOLD
          Capacity,         \* frames a socket holds
          MaxFrames,        \* bound: frames the peers send, all together
          MaxMishaps        \* bound: peers that vanish, failed connects, panics
                            \* and dropped tasks

\* A frame is text, another kind (binary, ping), or close.  A text the client
\* sends may not parse as JSON.
Kinds == {"text", "other", "close"}
ClientFrame == [kind : Kinds, parses : BOOLEAN, values : Seq(Values)]
UpstreamFrame == [kind : Kinds, numbers : Seq(Nat \ {0})]

ASSUME FramesAssumption ==
    /\ ClientFrames \subseteq ClientFrame
    /\ UpstreamFrames \subseteq UpstreamFrame

ASSUME ConnectionsAssumption == IsFiniteSet(Connections)

ASSUME BoundsAssumption ==
    /\ Threshold \in Nat \ {0} /\ Capacity \in Nat \ {0}
    /\ MaxFrames \in Nat /\ MaxMishaps \in Nat

VARIABLES connId,   \* CONN_ID
          session,  \* the session of each connection, 0 before it has one
          books,    \* the Masker: the values of each session, by placeholder
          events,   \* how many events each task buffers
          masked,   \* LiveStats: items masked
          recorded, \* the ledger: events in the entries of each session
          at,       \* where each task is
          client, upstream,     \* the two peers of each connection
          fromClient, fromUpstream,  \* what a peer sent and the task has not taken
          toUpstream, toClient,  \* how many frames a peer has not read
          inHand,   \* the frame a task is sending
          sent, mishaps,    \* what the bounds are for
          handled, failed,  \* history: events found, and lost to a failed append
          meant     \* history: which value a placeholder stood for when masked

vars == <<connId, session, books, events, masked, recorded, at, client, upstream,
          fromClient, toUpstream, fromUpstream, toClient, inHand, sent, mishaps,
          handled, failed, meant>>

sockets == <<fromClient, toUpstream, fromUpstream, toClient>>
peers == <<client, upstream, sent>>
history == <<handled, failed, meant>>

Sessions == 1..Cardinality(Connections)
Places == {"none", "refused", "connecting", "pump", "sendUp", "sendDown",
           "closed", "lost"}
Finished == {"refused", "closed", "lost"}

-----------------------------------------------------------------------------
(* Masking and rehydration of a frame                                      *)

Book(c) == books[session[c]]

\* The session's placeholders after some values were masked.
Extended(book, values) ==
    FoldLeft(LAMBDA b, v : IF Contains(b, v) THEN b ELSE Append(b, v), book, values)

NumberOf(book, v) == CHOOSE n \in DOMAIN book : book[n] = v

\* mask_outbound, what is sent: a frame that does not parse goes as it is.
Outbound(book, frame) ==
    IF ~ frame.parses THEN frame.values
    ELSE [i \in DOMAIN frame.values |-> NumberOf(book, frame.values[i])]

Pairs(book, values) == {<<NumberOf(book, v), v>> : v \in ToSet(values)}

\* rehydrate_inbound: a placeholder the session does not know stays.
Rehydrated(c, n) == IF n \in DOMAIN Book(c) THEN Book(c)[n] ELSE n

-----------------------------------------------------------------------------
Init ==
    /\ connId = 0
    /\ session = [c \in Connections |-> 0]
    /\ books = [s \in Sessions |-> <<>>]
    /\ events = [c \in Connections |-> 0]
    /\ masked = 0
    /\ recorded = [s \in Sessions |-> 0]
    /\ at = [c \in Connections |-> "none"]
    /\ client = [c \in Connections |-> "open"]
    /\ upstream = [c \in Connections |-> "open"]
    /\ fromClient = [c \in Connections |-> <<>>]
    /\ toUpstream = [c \in Connections |-> 0]
    /\ fromUpstream = [c \in Connections |-> <<>>]
    /\ toClient = [c \in Connections |-> 0]
    /\ inHand = [c \in Connections |-> <<>>]
    /\ sent = 0 /\ mishaps = 0
    /\ handled = [c \in Connections |-> 0]
    /\ failed = [c \in Connections |-> 0]
    /\ meant = [c \in Connections |-> {}]

Goto(c, place) == at' = [at EXCEPT ![c] = place]

Mishap == mishaps < MaxMishaps /\ mishaps' = mishaps + 1

\* Mistaken: the session's number is taken before the gate.
Refuse_Numbered(c) ==
    /\ at[c] = "none"
    /\ connId' = connId + 1
    /\ session' = [session EXCEPT ![c] = connId']
    /\ Goto(c, "refused")
    /\ UNCHANGED <<books, events, masked, recorded, peers, sockets, inHand,
                   mishaps, history>>

\* ws_handler: a pack that needs a detector that is not there refuses.
Refuse(c) ==
    /\ at[c] = "none"
    /\ Goto(c, "refused")
    /\ UNCHANGED <<connId, session, books, events, masked, recorded, peers,
                   sockets, inHand, mishaps, history>>

\* Mistaken: all connections share one session.
Upgrade_OneSession(c) ==
    /\ at[c] = "none"
    /\ connId' = connId + 1
    /\ session' = [session EXCEPT ![c] = 1]
    /\ Goto(c, "connecting")
    /\ UNCHANGED <<books, events, masked, recorded, peers, sockets,
                   inHand, mishaps, history>>

Upgrade(c) ==
    /\ at[c] = "none"
    /\ connId' = connId + 1
    /\ session' = [session EXCEPT ![c] = connId']
    /\ Goto(c, "connecting")
    /\ UNCHANGED <<books, events, masked, recorded, peers, sockets, inHand,
                   mishaps, history>>

Connects(c) ==
    /\ at[c] = "connecting"
    /\ Goto(c, "pump")
    /\ UNCHANGED <<connId, session, books, events, masked, recorded, peers,
                   sockets, inHand, mishaps, history>>

\* The upstream's address is not valid, or it does not answer: an error frame,
\* and the task returns without a word to the ledger.
ConnectFails(c) ==
    /\ at[c] = "connecting"
    /\ Mishap
    /\ Goto(c, "closed")
    /\ UNCHANGED <<connId, session, books, events, masked, recorded, peers,
                   sockets, inHand, history>>

-----------------------------------------------------------------------------
(* flush_ledger                                                            *)

\* Mistaken: the buffer is written and kept.
Flush_Keeps(c, found) ==
    /\ events' = [events EXCEPT ![c] = found]
    /\ recorded' = [recorded EXCEPT ![session[c]] = @ + found]
    /\ UNCHANGED failed

\* The buffer is taken into the entry before append may fail.
Flush(c, found) ==
    /\ events' = [events EXCEPT ![c] = 0]
    /\ \/ /\ recorded' = [recorded EXCEPT ![session[c]] = @ + found]
          /\ UNCHANGED failed
       \/ /\ found > 0
          /\ failed' = [failed EXCEPT ![c] = @ + found]
          /\ UNCHANGED recorded

-----------------------------------------------------------------------------
(* The pump: a frame from the client                                       *)

NextIs(socket, kinds) == socket # <<>> /\ Head(socket).kind \in kinds

Take(c) == fromClient' = [fromClient EXCEPT ![c] = Tail(@)]

\* mask_content counts the events, and mask_outbound counts them again: the live
\* counts have each event of a WebSocket session twice, those of a panic once.
Counted(n) == masked' = masked + 2 * n

\* Mistaken: one event more is let in.
Full_OneMore(n) == n > Threshold

Full(n) == n >= Threshold

FromClient(c) ==
    /\ at[c] = "pump"
    /\ NextIs(fromClient[c], {"text"})
    /\ LET frame == Head(fromClient[c])
           values == IF frame.parses THEN frame.values ELSE <<>>
           book == Extended(Book(c), values)
           found == events[c] + Len(values)
       IN /\ books' = [books EXCEPT ![session[c]] = book]
          /\ meant' = [meant EXCEPT ![c] = @ \cup Pairs(book, values)]
          /\ handled' = [handled EXCEPT ![c] = @ + Len(values)]
          /\ Counted(Len(values))
          /\ IF Full(found) THEN Flush(c, found)
             ELSE /\ events' = [events EXCEPT ![c] = found]
                  /\ UNCHANGED <<recorded, failed>>
          /\ inHand' = [inHand EXCEPT ![c] = Outbound(book, frame)]
    /\ Take(c)
    /\ Goto(c, "sendUp")
    /\ UNCHANGED <<connId, session, peers, toUpstream, fromUpstream, toClient,
                   mishaps>>

\* A detector panics on one of the strings; nothing catches it, and the task
\* ends with its buffer.  The strings before it were masked and counted.
MaskPanics(c) ==
    /\ at[c] = "pump"
    /\ NextIs(fromClient[c], {"text"})
    /\ Head(fromClient[c]).parses
    /\ Mishap
    /\ \E done \in 0..Len(Head(fromClient[c]).values) :
        LET values == SubSeq(Head(fromClient[c]).values, 1, done)
        IN /\ books' = [books EXCEPT ![session[c]] = Extended(@, values)]
           /\ masked' = masked + done
    /\ Goto(c, "lost")
    /\ UNCHANGED <<connId, session, events, recorded, peers, sockets, inHand,
                   handled, failed, meant>>

\* What a gone upstream is sent is an error nobody looks at.
SendUp(c) ==
    /\ at[c] = "sendUp"
    /\ \/ /\ upstream[c] = "open" /\ toUpstream[c] < Capacity
          /\ toUpstream' = [toUpstream EXCEPT ![c] = @ + 1]
       \/ upstream[c] = "gone" /\ UNCHANGED toUpstream
    /\ inHand' = [inHand EXCEPT ![c] = <<>>]
    /\ Goto(c, "pump")
    /\ UNCHANGED <<connId, session, books, events, masked, recorded, peers,
                   fromClient, fromUpstream, toClient, mishaps, history>>

-----------------------------------------------------------------------------
(* The pump: a frame from the upstream                                     *)

FromUpstream(c) ==
    /\ at[c] = "pump"
    /\ NextIs(fromUpstream[c], {"text"})
    /\ inHand' = [inHand EXCEPT ![c] =
                    LET numbers == Head(fromUpstream[c]).numbers
                    IN [i \in DOMAIN numbers |-> <<numbers[i], Rehydrated(c, numbers[i])>>]]
    /\ fromUpstream' = [fromUpstream EXCEPT ![c] = Tail(@)]
    /\ Goto(c, "sendDown")
    /\ UNCHANGED <<connId, session, books, events, masked, recorded, peers,
                   fromClient, toUpstream, toClient, mishaps, history>>

SendDown(c) ==
    /\ at[c] = "sendDown"
    /\ \/ /\ client[c] = "open" /\ toClient[c] < Capacity
          /\ toClient' = [toClient EXCEPT ![c] = @ + 1]
       \/ client[c] = "gone" /\ UNCHANGED toClient
    /\ inHand' = [inHand EXCEPT ![c] = <<>>]
    /\ Goto(c, "pump")
    /\ UNCHANGED <<connId, session, books, events, masked, recorded, peers,
                   fromClient, toUpstream, fromUpstream, mishaps, history>>

-----------------------------------------------------------------------------
(* The pump: what is neither                                               *)

\* Binary frames, pings and errors are dropped.
IgnoreOther(c) ==
    /\ at[c] = "pump"
    /\ \/ /\ NextIs(fromClient[c], {"other"})
          /\ Take(c)
          /\ UNCHANGED fromUpstream
       \/ /\ NextIs(fromUpstream[c], {"other"})
          /\ fromUpstream' = [fromUpstream EXCEPT ![c] = Tail(@)]
          /\ UNCHANGED fromClient
    /\ UNCHANGED <<connId, session, books, events, masked, recorded, at, peers,
                   toUpstream, toClient, inHand, mishaps, history>>

\* Mistaken: only a close frame ends the session.
Ends_ByFrame(socket, peer) == NextIs(socket, {"close"})

\* A close frame, or the end of a stream whose peer is gone.
Ends(socket, peer) ==
    \/ NextIs(socket, {"close"})
    \/ socket = <<>> /\ peer = "gone"

\* Either side ends: the loop is left, what is buffered is flushed, and both
\* sockets are dropped - there is no await between.
Close(c) ==
    /\ at[c] = "pump"
    /\ Ends(fromClient[c], client[c]) \/ Ends(fromUpstream[c], upstream[c])
    /\ Flush(c, events[c])
    /\ Goto(c, "closed")
    /\ UNCHANGED <<connId, session, books, masked, peers, sockets, inHand, mishaps, handled, meant>>

\* The process ends, or drops the task at an await: the buffer goes with it.
TaskDropped(c) ==
    /\ at[c] \in {"connecting", "pump", "sendUp", "sendDown"}
    /\ Mishap
    /\ Goto(c, "lost")
    /\ UNCHANGED <<connId, session, books, events, masked, recorded, peers,
                   sockets, inHand, history>>

-----------------------------------------------------------------------------
(* The peers                                                               *)

ClientSends(c, frame) ==
    /\ client[c] = "open" /\ at[c] \notin {"none"} \cup Finished
    /\ sent < MaxFrames
    /\ Len(fromClient[c]) < Capacity
    /\ fromClient' = [fromClient EXCEPT ![c] = Append(@, frame)]
    /\ sent' = sent + 1
    /\ UNCHANGED <<connId, session, books, events, masked, recorded, at, client,
                   upstream, toUpstream, fromUpstream, toClient, inHand, mishaps, history>>

UpstreamSends(c, frame) ==
    /\ upstream[c] = "open" /\ at[c] \in {"pump", "sendUp", "sendDown"}
    /\ sent < MaxFrames
    /\ Len(fromUpstream[c]) < Capacity
    /\ fromUpstream' = [fromUpstream EXCEPT ![c] = Append(@, frame)]
    /\ sent' = sent + 1
    /\ UNCHANGED <<connId, session, books, events, masked, recorded, at, client,
                   upstream, fromClient, toUpstream, toClient, inHand, mishaps, history>>

ClientReads(c) ==
    /\ client[c] = "open" /\ toClient[c] > 0
    /\ toClient' = [toClient EXCEPT ![c] = @ - 1]
    /\ UNCHANGED <<connId, session, books, events, masked, recorded, at, peers,
                   fromClient, toUpstream, fromUpstream, inHand, mishaps, history>>

UpstreamReads(c) ==
    /\ upstream[c] = "open" /\ toUpstream[c] > 0
    /\ toUpstream' = [toUpstream EXCEPT ![c] = @ - 1]
    /\ UNCHANGED <<connId, session, books, events, masked, recorded, at, peers,
                   fromClient, fromUpstream, toClient, inHand, mishaps, history>>

\* A peer vanishes; what it sent may arrive or not.
ClientGoes(c) ==
    /\ client[c] = "open" /\ Mishap /\ at[c] \notin {"none"} \cup Finished
    /\ client' = [client EXCEPT ![c] = "gone"]
    /\ \E arrives \in {<<>>, fromClient[c]} : fromClient' = [fromClient EXCEPT ![c] = arrives]
    /\ UNCHANGED <<connId, session, books, events, masked, recorded, at, upstream,
                   sent, toUpstream, fromUpstream, toClient, inHand, history>>

UpstreamGoes(c) ==
    /\ upstream[c] = "open" /\ Mishap /\ at[c] \in {"pump", "sendUp", "sendDown"}
    /\ upstream' = [upstream EXCEPT ![c] = "gone"]
    /\ \E arrives \in {<<>>, fromUpstream[c]} : fromUpstream' = [fromUpstream EXCEPT ![c] = arrives]
    /\ UNCHANGED <<connId, session, books, events, masked, recorded, at, client,
                   sent, fromClient, toUpstream, toClient, inHand, history>>

-----------------------------------------------------------------------------
Task(c) ==
    \/ Connects(c) \/ ConnectFails(c) \/ FromClient(c) \/ SendUp(c)
    \/ FromUpstream(c) \/ SendDown(c) \/ IgnoreOther(c) \/ Close(c)

Peers(c) ==
    \/ \E f \in ClientFrames : ClientSends(c, f)
    \/ \E f \in UpstreamFrames : UpstreamSends(c, f)
    \/ ClientReads(c) \/ UpstreamReads(c)
    \/ ClientGoes(c) \/ UpstreamGoes(c)

Next ==
    \E c \in Connections :
        Refuse(c) \/ Upgrade(c) \/ Task(c) \/ MaskPanics(c) \/ TaskDropped(c) \/ Peers(c)

Spec == Init /\ [][Next]_vars

\* The runtime polls a task that is ready, and select! picks a branch at random:
\* one that is ready again and again is taken in the end.  The peers read what
\* has come: a peer that reads nothing until it has sent everything can stop
\* both sides for ever, as there is no time-out.
FairSpec ==
    /\ Spec
    /\ \A c \in Connections :
        /\ WF_vars(Task(c))
        /\ SF_vars(Close(c))
        /\ WF_vars(ClientReads(c)) /\ WF_vars(UpstreamReads(c))

-----------------------------------------------------------------------------
(***************************************************************************)
(* Properties                                                              *)
(***************************************************************************)

\* The type invariant.
TypeOK ==
    /\ connId \in 0..Cardinality(Connections)
    /\ session \in [Connections -> 0..connId]
    /\ books \in [Sessions -> Seq(Values)]
    /\ masked \in Nat /\ mishaps \in 0..MaxMishaps /\ sent \in 0..MaxFrames
    /\ {events, handled, failed} \subseteq [Connections -> Nat]
    /\ recorded \in [Sessions -> Nat]
    /\ at \in [Connections -> Places]
    /\ {client, upstream} \subseteq [Connections -> {"open", "gone"}]
    /\ \A c \in Connections :
        /\ session[c] = 0 <=> at[c] \in {"none", "refused"}
        /\ inHand[c] # <<>> => at[c] \in {"sendUp", "sendDown", "lost"}
        /\ Len(fromClient[c]) <= Capacity /\ toUpstream[c] \in 0..Capacity
        /\ Len(fromUpstream[c]) <= Capacity /\ toClient[c] \in 0..Capacity

\* A client is sent its own words only: a placeholder masked on this connection
\* comes back as the value it replaced here, and any other number stays as it is,
\* whatever other connections masked meanwhile (responses_ws.rs:14-16).
OwnWords ==
    [][\A c \in Connections :
        at[c] = "pump" /\ at'[c] = "sendDown" =>
            \A p \in ToSet(inHand'[c]) :
                \/ p \in meant[c]
                \/ p[2] = p[1] /\ \A q \in meant[c] : q[1] # p[1]]_vars

\* No event is written twice or forgotten: what was found is in the ledger, in
\* an append that failed, or in the buffer, and a session that was closed has
\* an empty buffer.  A task that is dropped or panics loses its buffer.
EventsAccounted ==
    \A c \in Connections :
        session[c] # 0 =>
            /\ handled[c] = recorded[session[c]] + failed[c] + events[c]
            /\ at[c] = "closed" => events[c] = 0

\* What a session holds back, and a crash can take, stays below the threshold.
BufferBounded == \A c \in Connections : events[c] < Threshold

\* A session one side has left ends: the task flushes and drops both sockets,
\* although frames still wait on the other side.
LeftIsClosed ==
    \A c \in Connections :
        client[c] = "gone" \/ upstream[c] = "gone" ~> at[c] \in Finished
=============================================================================
