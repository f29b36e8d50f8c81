------------------------------ MODULE LiveReload ------------------------------
(***************************************************************************)
(* Live reload: how the outcome of a tick reaches the documents that are   *)
(* open in browser tabs.  The watcher's callback turns an outcome into     *)
(* events on a broadcast channel; a session per WebSocket forwards them to *)
(* the client script of its tab, a stream per SSE connection to a tool.    *)
(*                                                                         *)
(* What is served and what a tab shows are versions, one per kind of event *)
(* that refreshes it.                                                      *)
(***************************************************************************)
EXTENDS Naturals, SequencesExt

CONSTANTS Tabs,          \* subscribers of the channel
          Capacity,      \* of the broadcast channel
          WireCapacity,  \* messages that fit between a session and its browser
          Outcomes,      \* what a tick may change, see OutcomeType
          MaxTicks,      \* bound: ticks
          MaxBreaks,     \* bound: lost connections and server restarts
          MaxHides,      \* bound: navigations away from a tab
          None

Kinds == {"page", "css", "islands"}
PageReasons == {"pages_written", "pages_stale", "pages_pruned", "client_scripts_changed",
                "ssr_routes_published", "dynamic_injected_restaled"}
OutcomeType ==
  [reasons : SUBSET PageReasons, css : BOOLEAN,
   islands : {"same", "changed", "components"}, recovery : BOOLEAN]

ASSUME LiveReloadAssumption ==
  /\ {Capacity, WireCapacity} \subseteq Nat \ {0}
  /\ Outcomes \subseteq OutcomeType
  /\ {MaxTicks, MaxBreaks, MaxHides} \subseteq Nat
  /\ None \notin Kinds \cup Nat \cup Seq(Kinds)

VARIABLES
  tooling,    \* subscribers on the SSE endpoint: never changes
  attentive,  \* those that keep handling messages: never changes
  served,   \* version of each kind that a request gets now
  outbox,   \* per sender, events it has not sent yet
  held,     \* events that the pre-warm of a recovered boot sends at its end
  log,      \* everything sent on the channel since the server started
  phase,    \* of a tab
  seen,     \* versions a tab shows
  synced,   \* history: was the tab current when its receiver subscribed
  rx,       \* position of the tab's receiver in the log
  sending,  \* message its session is sending
  wire,     \* messages its browser has not handled
  used      \* counters of the bounds

fixed == <<tooling, attentive>>
vars  == <<fixed, served, outbox, held, log, phase, seen, synced, rx, sending, wire,
           used>>
tabs  == <<phase, seen, synced, rx, sending, wire>>

Senders == {"watcher", "prewarm"}
Phases  == {"loading", "connecting", "open", "waiting", "hidden"}

Oldest == IF Len(log) > Capacity THEN Len(log) - Capacity + 1 ELSE 1
Unsent == ToSet(outbox["watcher"]) \cup ToSet(outbox["prewarm"])
            \cup (IF held = None THEN {} ELSE ToSet(held))
Spend(bound, max) == used[bound] < max /\ used' = [used EXCEPT ![bound] = @ + 1]
-----------------------------------------------------------------------------
Init ==
  /\ tooling \in SUBSET Tabs /\ attentive \in SUBSET Tabs
  /\ served = [k \in Kinds |-> 0] /\ log = <<>> /\ held = None
  /\ outbox = [s \in Senders |-> <<>>]
  /\ phase = [t \in Tabs |-> "loading"] /\ seen = [t \in Tabs |-> served]
  /\ synced = [t \in Tabs |-> FALSE] /\ rx = [t \in Tabs |-> None]
  /\ sending = [t \in Tabs |-> None] /\ wire = [t \in Tabs |-> <<>>]
  /\ used = [ticks |-> 0, breaks |-> 0, hides |-> 0]
-----------------------------------------------------------------------------
(* The tick's outcome *)

(* Mutant: a tick that only prunes routes tells nobody. *)
EventsWithoutPrunes(o) ==
  (IF o.reasons \ {"pages_pruned"} # {} THEN <<"page">> ELSE <<>>)
    \o (IF o.css THEN <<"css">> ELSE <<>>)
    \o (IF o.islands = "same" THEN <<>> ELSE <<"islands">>)

(* One page event for all its reasons; an islands event per changed        *)
(* component, or one for the bundle when they are not known.               *)
outcome_to_events(o) ==
  (IF o.reasons # {} THEN <<"page">> ELSE <<>>)
    \o (IF o.css THEN <<"css">> ELSE <<>>)
    \o (CASE o.islands = "same"       -> <<>>
          [] o.islands = "changed"    -> <<"islands">>
          [] o.islands = "components" -> <<"islands", "islands">>)

Refreshes(o) ==
  (IF o.reasons # {} THEN {"page"} ELSE {}) \cup (IF o.css THEN {"css"} ELSE {})
    \cup (IF o.islands = "same" THEN {} ELSE {"islands"})

(* A tick has ended and its callback runs.  The outcome that recovers a     *)
(* cold boot hands its events to a pass that renders rewrite targets first. *)
Tick(o) ==
  /\ outbox["watcher"] = <<>> /\ Spend("ticks", MaxTicks)
  /\ o.recovery => held = None
  /\ served' = [k \in Kinds |-> IF k \in Refreshes(o) THEN served[k] + 1 ELSE served[k]]
  /\ IF o.recovery
     THEN held' = outcome_to_events(o) /\ UNCHANGED outbox
     ELSE outbox' = [outbox EXCEPT !["watcher"] = outcome_to_events(o)] /\ UNCHANGED held
  /\ UNCHANGED <<fixed, log, tabs>>

(* The pass ends, or panics: what it holds is sent either way, and a page   *)
(* it rendered adds an event unless one is there already.                   *)
PrewarmEnds(rendered) ==
  /\ held # None /\ outbox["prewarm"] = <<>>
  /\ served' = IF rendered THEN [served EXCEPT !["page"] = @ + 1] ELSE served
  /\ outbox' = [outbox EXCEPT !["prewarm"] =
                  IF rendered /\ "page" \notin ToSet(held) THEN Append(held, "page") ELSE held]
  /\ held' = None
  /\ UNCHANGED <<fixed, log, tabs, used>>

Broadcast(s) ==
  /\ outbox[s] # <<>>
  /\ log' = Append(log, Head(outbox[s]))
  /\ outbox' = [outbox EXCEPT ![s] = Tail(@)]
  /\ UNCHANGED <<fixed, served, held, tabs, used>>
-----------------------------------------------------------------------------
(* A session: it takes an event, and sends it within five seconds or ends. *)

(* Mutant: a WebSocket drops what it missed, like the SSE stream. *)
DropsMissed(t) == None

MessageForLag(t) == IF t \in tooling THEN None ELSE "page"

Receive(t) ==
  /\ rx[t] # None /\ sending[t] = None
  /\ rx[t] <= Len(log)
  /\ IF rx[t] < Oldest
     THEN rx' = [rx EXCEPT ![t] = Oldest] /\ sending' = [sending EXCEPT ![t] = MessageForLag(t)]
     ELSE rx' = [rx EXCEPT ![t] = @ + 1] /\ sending' = [sending EXCEPT ![t] = log[rx[t]]]
  /\ UNCHANGED <<fixed, served, outbox, held, log, phase, seen, synced, wire, used>>

Send(t) ==
  /\ sending[t] # None /\ Len(wire[t]) < WireCapacity
  /\ wire' = [wire EXCEPT ![t] = Append(@, sending[t])]
  /\ sending' = [sending EXCEPT ![t] = None]
  /\ UNCHANGED <<fixed, served, outbox, held, log, phase, seen, synced, rx, used>>

(* Mutant: a blocked send waits for ever. *)
NeverTimesOut(t) == FALSE /\ UNCHANGED vars

SendTimesOut(t) ==
  /\ t \notin tooling
  /\ sending[t] # None /\ Len(wire[t]) = WireCapacity
  /\ rx' = [rx EXCEPT ![t] = None] /\ sending' = [sending EXCEPT ![t] = None]
  /\ UNCHANGED <<fixed, served, outbox, held, log, phase, seen, synced, wire, used>>
-----------------------------------------------------------------------------
(* The client script of a tab *)

Load(t) ==
  /\ phase[t] = "loading"
  /\ seen' = [seen EXCEPT ![t] = served]
  /\ phase' = [phase EXCEPT ![t] = "connecting"]
  /\ UNCHANGED <<fixed, served, outbox, held, log, synced, rx, sending, wire, used>>

(* The upgrade: the receiver subscribes before the socket opens. *)
Connect(t) ==
  /\ phase[t] \in {"connecting", "waiting"} /\ rx[t] = None
  /\ phase' = [phase EXCEPT ![t] = "open"]
  /\ rx' = [rx EXCEPT ![t] = Len(log) + 1]
  /\ synced' = [synced EXCEPT ![t] = \A k \in Kinds : seen[t][k] = served[k] \/ k \in Unsent]
  /\ UNCHANGED <<fixed, served, outbox, held, log, seen, sending, wire, used>>

(* location.reload() hides the page, which closes the socket; a tool reads *)
(* everything again and keeps its stream.                                  *)
Handle(t) ==
  LET kind == Head(wire[t])
      page == kind = "page"
  IN  /\ phase[t] = "open" /\ wire[t] # <<>>
      /\ seen' = [seen EXCEPT ![t] =
                    IF page THEN (IF t \in tooling THEN served ELSE @)
                    ELSE [@ EXCEPT ![kind] = served[kind]]]
      /\ IF page /\ t \notin tooling
         THEN /\ phase' = [phase EXCEPT ![t] = "loading"]
              /\ wire' = [wire EXCEPT ![t] = <<>>]
              /\ rx' = [rx EXCEPT ![t] = None] /\ sending' = [sending EXCEPT ![t] = None]
         ELSE wire' = [wire EXCEPT ![t] = Tail(@)] /\ UNCHANGED <<phase, rx, sending>>
      /\ UNCHANGED <<fixed, served, outbox, held, log, synced, used>>

(* The close event comes after the messages before it. *)
Closed(t) ==
  /\ phase[t] = "open" /\ rx[t] = None /\ wire[t] = <<>>
  /\ phase' = [phase EXCEPT ![t] = "waiting"]
  /\ UNCHANGED <<fixed, served, outbox, held, log, seen, synced, rx, sending, wire, used>>

Hide(t) ==
  /\ t \notin tooling
  /\ phase[t] \in {"connecting", "open", "waiting"} /\ Spend("hides", MaxHides)
  /\ phase' = [phase EXCEPT ![t] = "hidden"]
  /\ rx' = [rx EXCEPT ![t] = None] /\ sending' = [sending EXCEPT ![t] = None]
  /\ wire' = [wire EXCEPT ![t] = <<>>]
  /\ UNCHANGED <<fixed, served, outbox, held, log, seen, synced>>

(* Back to the tab: from the cache of the browser, or loaded again. *)
Show(t, persisted) ==
  /\ phase[t] = "hidden"
  /\ phase' = [phase EXCEPT ![t] = IF persisted THEN "connecting" ELSE "loading"]
  /\ UNCHANGED <<fixed, served, outbox, held, log, seen, synced, rx, sending, wire, used>>

LoseConnection(t) ==
  /\ phase[t] = "open" /\ Spend("breaks", MaxBreaks)
  /\ phase' = [phase EXCEPT ![t] = "waiting"]
  /\ rx' = [rx EXCEPT ![t] = None] /\ sending' = [sending EXCEPT ![t] = None]
  /\ wire' = [wire EXCEPT ![t] = <<>>]
  /\ UNCHANGED <<fixed, served, outbox, held, log, seen, synced>>

(* The server ends and starts again, perhaps over edited sources. *)
Restart(edited) ==
  /\ Spend("breaks", MaxBreaks)
  /\ served' = IF edited THEN [served EXCEPT !["page"] = @ + 1] ELSE served
  /\ outbox' = [s \in Senders |-> <<>>] /\ held' = None /\ log' = <<>>
  /\ rx' = [t \in Tabs |-> None] /\ sending' = [t \in Tabs |-> None]
  /\ wire' = [t \in Tabs |-> <<>>]
  /\ phase' = [t \in Tabs |-> IF phase[t] = "open" THEN "waiting" ELSE phase[t]]
  /\ UNCHANGED <<fixed, seen, synced>>
-----------------------------------------------------------------------------
Server ==
  \/ \E s \in Senders : Broadcast(s)
  \/ \E rendered \in BOOLEAN : PrewarmEnds(rendered)
Session(t) == Receive(t) \/ Send(t)
Browser(t) == Load(t) \/ Connect(t) \/ Handle(t) \/ Closed(t)

Next ==
  \/ \E o \in Outcomes : Tick(o)
  \/ Server
  \/ \E t \in Tabs : Session(t) \/ SendTimesOut(t) \/ Browser(t) \/ Hide(t) \/ LoseConnection(t)
  \/ \E t \in Tabs, persisted \in BOOLEAN : Show(t, persisted)
  \/ \E edited \in BOOLEAN : Restart(edited)

(* Sessions and senders run; only attentive browsers handle their messages. *)
Spec ==
  /\ Init /\ [][Next]_vars
  /\ WF_vars(Server)
  /\ \A t \in Tabs : WF_vars(Session(t)) /\ WF_vars(SendTimesOut(t))
  /\ \A t \in Tabs : WF_vars(t \in attentive /\ Browser(t))
-----------------------------------------------------------------------------
TypeOK ==
  /\ tooling \in SUBSET Tabs /\ attentive \in SUBSET Tabs
  /\ served \in [Kinds -> Nat] /\ seen \in [Tabs -> [Kinds -> Nat]]
  /\ outbox \in [Senders -> Seq(Kinds)] /\ held \in Seq(Kinds) \cup {None}
  /\ log \in Seq(Kinds)
  /\ phase \in [Tabs -> Phases] /\ synced \in [Tabs -> BOOLEAN]
  /\ rx \in [Tabs -> (Nat \ {0}) \cup {None}]
  /\ sending \in [Tabs -> Kinds \cup {None}]
  /\ wire \in [Tabs -> Seq(Kinds)] /\ \A t \in Tabs : Len(wire[t]) <= WireCapacity
  /\ used \in [ticks : 0..MaxTicks, breaks : 0..MaxBreaks, hides : 0..MaxHides]

(* A tab that was current when it subscribed and has handled everything    *)
(* that was sent shows what is served, also when its session was too slow  *)
(* for the channel and lost events.  A tool that lost events is current in *)
(* what the last event refreshes, and only in that.                        *)
Drained(t) ==
  /\ phase[t] = "open" /\ synced[t]
  /\ rx[t] = Len(log) + 1 /\ sending[t] = None /\ wire[t] = <<>>
DrainedMeansCurrent ==
  \A t \in Tabs, k \in Kinds :
    /\ Drained(t) /\ k \notin Unsent
    /\ t \in tooling => log # <<>> /\ rx[t] > 1 /\ Last(log) = k
    => seen[t][k] = served[k]

(* A browser that handles its messages shows what is served some time      *)
(* after it has connected, however far its session falls behind, unless    *)
(* it loses the connection.                                                *)
TabCatchesUp ==
  \A t \in Tabs :
    t \in attentive \ tooling /\ phase[t] = "open" /\ synced[t] ~>
      seen[t] = served \/ phase[t] \in {"waiting", "hidden"}

(* A browser that has stopped reading does not keep its session in a send, *)
(* and with it a receiver of the channel, for ever.                        *)
StoppedReaderIsReleased ==
  \A t \in Tabs : t \notin tooling /\ sending[t] # None ~> sending[t] = None
=============================================================================
