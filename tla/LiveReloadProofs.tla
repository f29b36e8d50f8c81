--------------------------- MODULE LiveReloadProofs ---------------------------
(***************************************************************************)
(* Theorems about live reload, for any number of tabs, any capacity of the *)
(* channel and of the connections, and any ticks.                          *)
(***************************************************************************)
EXTENDS LiveReload, SequenceTheorems, TLAPS

-----------------------------------------------------------------------------
(* Sequences of messages *)

LEMMA SetOfEmpty == ToSet(<<>>) = {}
BY DEF ToSet

LEMMA SetOfAppend ==
  ASSUME NEW S, NEW s \in Seq(S), NEW e \in S
  PROVE  ToSet(Append(s, e)) = ToSet(s) \cup {e}
<1>1. Append(s, e) \in Seq(S) /\ Len(Append(s, e)) = Len(s) + 1
      /\ (\A i \in 1..Len(s) : Append(s, e)[i] = s[i]) /\ Append(s, e)[Len(s) + 1] = e
  BY AppendProperties
<1>2. Len(s) \in Nat /\ DOMAIN s = 1..Len(s) /\ DOMAIN Append(s, e) = 1..Len(s) + 1
  BY <1>1, LenProperties
<1> QED BY <1>1, <1>2 DEF ToSet

LEMMA SetOfTail ==
  ASSUME NEW S, NEW s \in Seq(S), s # <<>>
  PROVE  ToSet(s) = {Head(s)} \cup ToSet(Tail(s))
<1>1. Tail(s) \in Seq(S) /\ Len(Tail(s)) = Len(s) - 1
      /\ \A i \in 1..Len(Tail(s)) : Tail(s)[i] = s[i + 1]
  BY HeadTailProperties
<1>2. Len(s) \in Nat \ {0} /\ DOMAIN s = 1..Len(s) /\ DOMAIN Tail(s) = 1..Len(s) - 1
  BY <1>1, EmptySeq, LenProperties
<1>3. Head(s) = s[1]
  OBVIOUS
<1>4. ASSUME NEW i \in 1..Len(s), i # 1 PROVE i - 1 \in 1..Len(s) - 1 /\ s[i] = Tail(s)[i - 1]
  BY <1>1, <1>2, <1>4
<1>5. ToSet(s) \subseteq {Head(s)} \cup ToSet(Tail(s))
  BY <1>2, <1>3, <1>4 DEF ToSet
<1>6. {Head(s)} \cup ToSet(Tail(s)) \subseteq ToSet(s)
  BY <1>1, <1>2, <1>3 DEF ToSet
<1> QED BY <1>5, <1>6

LEMMA SetOfConcat ==
  ASSUME NEW S, NEW s \in Seq(S), NEW t \in Seq(S)
  PROVE  ToSet(s \o t) = ToSet(s) \cup ToSet(t)
<1> DEFINE u == s \o t
<1>1. u \in Seq(S) /\ Len(u) = Len(s) + Len(t)
      /\ \A i \in 1..Len(s) + Len(t) : u[i] = IF i <= Len(s) THEN s[i] ELSE t[i - Len(s)]
  BY ConcatProperties
<1>2. /\ Len(s) \in Nat /\ DOMAIN s = 1..Len(s)
      /\ Len(t) \in Nat /\ DOMAIN t = 1..Len(t) /\ DOMAIN u = 1..Len(s) + Len(t)
  BY <1>1, LenProperties
<1> HIDE DEF u
<1>3. ASSUME NEW i \in 1..Len(t) PROVE Len(s) + i \in DOMAIN u /\ u[Len(s) + i] = t[i]
  BY <1>1, <1>2
<1>4. ToSet(t) \subseteq ToSet(u)
  BY <1>2, <1>3 DEF ToSet
<1>5. ToSet(s) \subseteq ToSet(u)
  BY <1>1, <1>2 DEF ToSet
<1>6. ASSUME NEW i \in DOMAIN u PROVE u[i] \in ToSet(s) \cup ToSet(t)
  <2>1. CASE i <= Len(s)
    BY <1>1, <1>2, <2>1 DEF ToSet
  <2>2. CASE i > Len(s)
    <3>1. i - Len(s) \in DOMAIN t /\ u[i] = t[i - Len(s)]
      BY <1>1, <1>2, <2>2
    <3> QED BY <3>1 DEF ToSet
  <2> QED BY <1>2, <2>1, <2>2
<1>7. ToSet(u) \subseteq ToSet(s) \cup ToSet(t)
  BY <1>6 DEF ToSet
<1>8. ToSet(u) = ToSet(s) \cup ToSet(t)
  BY <1>4, <1>5, <1>7
<1> QED BY <1>8 DEF u

LEMMA SetOfOne ==
  ASSUME NEW S, NEW e \in S
  PROVE  <<e>> \in Seq(S) /\ ToSet(<<e>>) = {e}
<1>1. <<e>> \in Seq(S) /\ Len(<<e>>) = 1 /\ <<e>>[1] = e
  OBVIOUS
<1>2. DOMAIN <<e>> = 1..1
  BY <1>1, LenProperties
<1> QED BY <1>1, <1>2 DEF ToSet

(* What a tick changes, it tells. *)
LEMMA EventsTell ==
  ASSUME NEW o \in OutcomeType
  PROVE  outcome_to_events(o) \in Seq(Kinds) /\ Refreshes(o) \subseteq ToSet(outcome_to_events(o))
<1> DEFINE p == IF o.reasons # {} THEN <<"page">> ELSE <<>>
           c == IF o.css THEN <<"css">> ELSE <<>>
           i == CASE o.islands = "same"       -> <<>>
                  [] o.islands = "changed"    -> <<"islands">>
                  [] o.islands = "components" -> <<"islands", "islands">>
<1>0. <<>> \in Seq(Kinds) /\ \A k \in Kinds : <<k>> \in Seq(Kinds) /\ ToSet(<<k>>) = {k}
  BY SetOfOne, EmptySeq
<1> HIDE DEF Kinds
<1>1. p \in Seq(Kinds) /\ (o.reasons # {} => "page" \in ToSet(p))
  BY <1>0 DEF Kinds
<1>2. c \in Seq(Kinds) /\ (o.css => "css" \in ToSet(c))
  BY <1>0 DEF Kinds
<1>3. i \in Seq(Kinds) /\ (o.islands # "same" => "islands" \in ToSet(i))
  <2>1. "islands" \in Kinds
    BY DEF Kinds
  <2>2. <<"islands", "islands">> \in Seq(Kinds) /\ Len(<<"islands", "islands">>) = 2
        /\ <<"islands", "islands">>[1] = "islands"
    BY <2>1
  <2>3. "islands" \in ToSet(<<"islands", "islands">>)
    BY <2>2, LenProperties DEF ToSet
  <2>4. o.islands \in {"same", "changed", "components"}
    BY DEF OutcomeType
  <2> QED BY <1>0, <2>1, <2>2, <2>3, <2>4
<1>4. outcome_to_events(o) = (p \o c) \o i
  BY DEF outcome_to_events
<1> HIDE DEF p, c, i
<1>5. p \o c \in Seq(Kinds) /\ ToSet(p \o c) = ToSet(p) \cup ToSet(c)
  BY <1>1, <1>2, SetOfConcat, ConcatProperties
<1> DEFINE pc == p \o c
<1>6. pc \in Seq(Kinds)
  BY <1>5
<1> HIDE DEF pc
<1>7. pc \o i \in Seq(Kinds) /\ ToSet(pc \o i) = ToSet(pc) \cup ToSet(i)
  BY <1>3, <1>6, SetOfConcat, ConcatProperties
<1>8. Refreshes(o) = (IF o.reasons # {} THEN {"page"} ELSE {}) \cup (IF o.css THEN {"css"} ELSE {})
                       \cup (IF o.islands = "same" THEN {} ELSE {"islands"})
  BY DEF Refreshes
<1> QED BY <1>1, <1>2, <1>3, <1>4, <1>5, <1>7, <1>8 DEF pc
-----------------------------------------------------------------------------
(* A tab has no receiver unless it is open, and a receiver is never past   *)
(* the next event.                                                         *)
Types ==
  /\ TypeOK
  /\ \A t \in Tabs : rx[t] # None => phase[t] = "open" /\ rx[t] <= Len(log) + 1

\* What the session of an open tab still brings it.
Ahead(t)   == {log[i] : i \in rx[t]..Len(log)}
Awaited(t) == Ahead(t) \cup {sending[t]} \cup ToSet(wire[t])

\* Which kinds the session answers for: a tool may have lost all but the last.
Answers(t, k) == t \in tooling => log # <<>> /\ log[Len(log)] = k

(* A tab that was current when it subscribed is behind in a kind only if   *)
(* the news is on its way: not sent, in its receiver, lost with the loss   *)
(* still to be noticed, being sent, or with the browser.                   *)
OnItsWay(t, k) ==
  \/ seen[t][k] = served[k]
  \/ k \in Unsent
  \/ t \notin tooling /\ rx[t] < Oldest
  \/ {k, "page"} \cap Awaited(t) # {}
NewsArrives ==
  \A t \in Tabs, k \in Kinds :
    rx[t] # None /\ synced[t] /\ Answers(t, k) => OnItsWay(t, k)

Inv == Types /\ NewsArrives

LEMMA InitInv == Init => Inv
<1> SUFFICES ASSUME Init PROVE Inv
  OBVIOUS
<1> USE LiveReloadAssumption DEF Init
<1>1. <<>> \in Seq(Kinds) /\ Len(<<>>) = 0
  BY EmptySeq
<1>2. TypeOK
  BY <1>1 DEF TypeOK, Senders, Phases
<1> QED BY <1>2 DEF Inv, Types, NewsArrives

Spends == [ticks : 0..MaxTicks, breaks : 0..MaxBreaks, hides : 0..MaxHides]

LEMMA Spent ==
  ASSUME used \in Spends,
         \/ Spend("ticks", MaxTicks) \/ Spend("breaks", MaxBreaks) \/ Spend("hides", MaxHides)
  PROVE  used' \in Spends
<1> USE LiveReloadAssumption DEF Spends
<1>1. MaxTicks \in Nat /\ MaxBreaks \in Nat /\ MaxHides \in Nat
  OBVIOUS
<1>2. CASE Spend("ticks", MaxTicks)
  <2>1. used.ticks \in 0..MaxTicks /\ used.ticks < MaxTicks /\ used' = [used EXCEPT !.ticks = used.ticks + 1]
    BY <1>2 DEF Spend
  <2>2. used.ticks + 1 \in 0..MaxTicks
    BY <1>1, <2>1
  <2> QED BY <2>1, <2>2
<1>3. CASE Spend("breaks", MaxBreaks)
  <2>1. used.breaks \in 0..MaxBreaks /\ used.breaks < MaxBreaks /\ used' = [used EXCEPT !.breaks = used.breaks + 1]
    BY <1>3 DEF Spend
  <2>2. used.breaks + 1 \in 0..MaxBreaks
    BY <1>1, <2>1
  <2> QED BY <2>1, <2>2
<1>4. CASE Spend("hides", MaxHides)
  <2>1. used.hides \in 0..MaxHides /\ used.hides < MaxHides /\ used' = [used EXCEPT !.hides = used.hides + 1]
    BY <1>4 DEF Spend
  <2>2. used.hides + 1 \in 0..MaxHides
    BY <1>1, <2>1
  <2> QED BY <2>1, <2>2
<1> QED BY <1>2, <1>3, <1>4

LEMMA OldestType ==
  ASSUME log \in Seq(Kinds)
  PROVE  Oldest \in Nat \ {0} /\ (Oldest = 1 \/ Oldest <= Len(log))
<1>1. Capacity \in Nat \ {0} /\ Len(log) \in Nat
  BY LiveReloadAssumption, LenProperties
<1> QED BY <1>1 DEF Oldest

LEMMA TypesStep == Types /\ [Next]_vars => Types'
<1> SUFFICES ASSUME Types, [Next]_vars PROVE Types'
  OBVIOUS
<1> USE LiveReloadAssumption DEF Types, TypeOK, fixed, tabs, Spend, Senders, Phases
<1>0. /\ <<>> \in Seq(Kinds) /\ Len(<<>>) = 0
      /\ Capacity \in Nat \ {0} /\ WireCapacity \in Nat \ {0} /\ MaxTicks \in Nat
      /\ MaxBreaks \in Nat /\ MaxHides \in Nat /\ Len(log) \in Nat
  BY EmptySeq, LenProperties
<1>1. ASSUME NEW o \in Outcomes, Tick(o) PROVE Types'
  <2>1. outcome_to_events(o) \in Seq(Kinds)
    BY EventsTell
  <2>2. served' \in [Kinds -> Nat]
    BY <1>1 DEF Tick
  <2>4. used' \in [ticks : 0..MaxTicks, breaks : 0..MaxBreaks, hides : 0..MaxHides]
    BY <1>1, Spent DEF Tick, Spends
  <2>3. outbox' \in [Senders -> Seq(Kinds)] /\ held' \in Seq(Kinds) \cup {None}
    BY <1>1, <2>1 DEF Tick
  <2> QED BY <1>1, <2>2, <2>3, <2>4 DEF Tick
<1>2. ASSUME NEW rendered \in BOOLEAN, PrewarmEnds(rendered) PROVE Types'
  <2>1. "page" \in Kinds /\ held \in Seq(Kinds)
    BY <1>2 DEF Kinds, PrewarmEnds
  <2>2. Append(held, "page") \in Seq(Kinds)
    BY <2>1, AppendProperties
  <2>3. served' \in [Kinds -> Nat]
    BY <1>2, <2>1 DEF PrewarmEnds
  <2>4. outbox' \in [Senders -> Seq(Kinds)] /\ held' \in Seq(Kinds) \cup {None}
    BY <1>2, <2>1, <2>2 DEF PrewarmEnds
  <2> QED BY <1>2, <2>3, <2>4 DEF PrewarmEnds
<1>3. ASSUME NEW s \in Senders, Broadcast(s) PROVE Types'
  <2>1. Head(outbox[s]) \in Kinds /\ Tail(outbox[s]) \in Seq(Kinds)
    BY <1>3, HeadTailProperties DEF Broadcast
  <2>2. log' \in Seq(Kinds) /\ Len(log') = Len(log) + 1
    BY <1>3, <2>1, AppendProperties DEF Broadcast
  <2>3. outbox' \in [Senders -> Seq(Kinds)]
    BY <1>3, <2>1 DEF Broadcast
  <2> QED BY <1>0, <1>3, <2>2, <2>3 DEF Broadcast
<1>4. ASSUME NEW t \in Tabs, Receive(t) PROVE Types'
  <2>1. Len(log) \in Nat /\ rx[t] \in Nat \ {0} /\ \A i \in 1..Len(log) : log[i] \in Kinds
    BY <1>4, LenProperties, ElementOfSeq DEF Receive
  <2>2. Oldest \in Nat \ {0} /\ (rx[t] < Oldest => Oldest <= Len(log))
    BY <1>0, <2>1, OldestType
  <2>3. rx'[t] \in Nat \ {0} /\ rx'[t] <= Len(log) + 1
    <3>1. CASE rx[t] < Oldest
      <4>1. rx'[t] = Oldest
        BY <1>4, <3>1 DEF Receive
      <4> QED BY <1>0, <2>2, <3>1, <4>1
    <3>2. CASE ~(rx[t] < Oldest)
      <4>1. rx'[t] = rx[t] + 1 /\ rx[t] <= Len(log)
        BY <1>4, <2>1, <3>2 DEF Receive
      <4> QED BY <1>0, <2>1, <4>1
    <3> QED BY <3>1, <3>2
  <2>4. sending'[t] \in Kinds \cup {None}
    <3>1. CASE rx[t] < Oldest
      BY <1>4, <3>1 DEF Receive, MessageForLag, Kinds
    <3>2. CASE ~(rx[t] < Oldest)
      <4>1. sending'[t] = log[rx[t]] /\ rx[t] \in 1..Len(log)
        BY <1>0, <1>4, <2>1, <3>2 DEF Receive
      <4> QED BY <2>1, <4>1
    <3> QED BY <3>1, <3>2
  <2>5. /\ rx' = [rx EXCEPT ![t] = rx'[t]] /\ sending' = [sending EXCEPT ![t] = sending'[t]]
    BY <1>4, <2>1 DEF Receive
  <2>6. UNCHANGED <<fixed, served, outbox, held, log, phase, seen, synced, wire, used>>
    BY <1>4 DEF Receive
  <2>7. phase[t] = "open"
    BY <1>4 DEF Receive
  <2> HIDE DEF Phases
  <2> QED BY <2>3, <2>4, <2>5, <2>6, <2>7
<1>5. ASSUME NEW t \in Tabs, Send(t) PROVE Types'
  <2>1. Append(wire[t], sending[t]) \in Seq(Kinds) /\ Len(Append(wire[t], sending[t])) = Len(wire[t]) + 1
    BY <1>5, AppendProperties DEF Send
  <2>2. Len(wire[t]) \in Nat /\ Len(wire[t]) + 1 <= WireCapacity
    BY <1>5, LenProperties DEF Send
  <2> QED BY <1>5, <2>1, <2>2 DEF Send
<1>6. ASSUME NEW t \in Tabs, SendTimesOut(t) PROVE Types'
  BY <1>6 DEF SendTimesOut
<1>7. ASSUME NEW t \in Tabs, Load(t) PROVE Types'
  BY <1>7 DEF Load
<1>8. ASSUME NEW t \in Tabs, Connect(t) PROVE Types'
  <2>1. Len(log) \in Nat
    BY LenProperties
  <2> QED BY <1>8, <2>1 DEF Connect
<1>9. ASSUME NEW t \in Tabs, Handle(t) PROVE Types'
  <2>1. Head(wire[t]) \in Kinds /\ Tail(wire[t]) \in Seq(Kinds) /\ Len(Tail(wire[t])) = Len(wire[t]) - 1
    BY <1>9, HeadTailProperties DEF Handle
  <2>2. seen' \in [Tabs -> [Kinds -> Nat]]
    BY <1>9, <2>1 DEF Handle
  <2>3. Len(wire[t]) \in Nat
    BY LenProperties
  <2>4. wire' \in [Tabs -> Seq(Kinds)] /\ \A u \in Tabs : Len(wire'[u]) <= WireCapacity
    <3>1. PICK w \in Seq(Kinds) : wire' = [wire EXCEPT ![t] = w] /\ Len(w) <= WireCapacity
      <4>1. Len(wire[t]) <= WireCapacity
        OBVIOUS
      <4>2. wire' = [wire EXCEPT ![t] = <<>>] \/ wire' = [wire EXCEPT ![t] = Tail(wire[t])]
        BY <1>9 DEF Handle
      <4>3. Len(Tail(wire[t])) <= WireCapacity
        BY <1>0, <2>1, <2>3, <4>1
      <4>4. Len(<<>>) <= WireCapacity
        BY <1>0
      <4> HIDE DEF TypeOK
      <4>5. CASE wire' = [wire EXCEPT ![t] = <<>>]
        BY <1>0, <4>4, <4>5
      <4>6. CASE wire' = [wire EXCEPT ![t] = Tail(wire[t])]
        BY <2>1, <4>3, <4>6
      <4> QED BY <4>2, <4>5, <4>6
    <3> QED BY <3>1
  <2>5. phase' \in [Tabs -> Phases] /\ rx' \in [Tabs -> (Nat \ {0}) \cup {None}]
        /\ sending' \in [Tabs -> Kinds \cup {None}]
    BY <1>9 DEF Handle
  <2>6. \A u \in Tabs : rx'[u] # None => rx'[u] = rx[u] /\ phase'[u] = phase[u]
    BY <1>9 DEF Handle
  <2> QED BY <1>9, <2>2, <2>4, <2>5, <2>6 DEF Handle
<1>10. ASSUME NEW t \in Tabs, Closed(t) PROVE Types'
  BY <1>10 DEF Closed
<1>11. ASSUME NEW t \in Tabs, Hide(t) PROVE Types'
  <2>1. used' \in [ticks : 0..MaxTicks, breaks : 0..MaxBreaks, hides : 0..MaxHides]
    BY <1>11, Spent DEF Hide, Spends
  <2> QED BY <1>11, <1>0, <2>1 DEF Hide
<1>12. ASSUME NEW t \in Tabs, NEW persisted \in BOOLEAN, Show(t, persisted) PROVE Types'
  BY <1>12 DEF Show
<1>13. ASSUME NEW t \in Tabs, LoseConnection(t) PROVE Types'
  <2>1. used' \in [ticks : 0..MaxTicks, breaks : 0..MaxBreaks, hides : 0..MaxHides]
    BY <1>13, Spent DEF LoseConnection, Spends
  <2>2. phase' \in [Tabs -> Phases] /\ rx' \in [Tabs -> (Nat \ {0}) \cup {None}]
        /\ sending' \in [Tabs -> Kinds \cup {None}]
    BY <1>13 DEF LoseConnection
  <2>3. wire' \in [Tabs -> Seq(Kinds)] /\ \A u \in Tabs : Len(wire'[u]) <= WireCapacity
    BY <1>0, <1>13 DEF LoseConnection
  <2>4. \A u \in Tabs : rx'[u] # None => rx'[u] = rx[u] /\ phase'[u] = phase[u]
    BY <1>13 DEF LoseConnection
  <2>5. UNCHANGED <<fixed, served, outbox, held, log, seen, synced>>
    BY <1>13 DEF LoseConnection
  <2> HIDE DEF Phases, Senders
  <2> QED BY <2>1, <2>2, <2>3, <2>4, <2>5
<1>14. ASSUME NEW edited \in BOOLEAN, Restart(edited) PROVE Types'
  <2>1. used' \in [ticks : 0..MaxTicks, breaks : 0..MaxBreaks, hides : 0..MaxHides]
    BY <1>14, Spent DEF Restart, Spends
  <2>2. served' \in [Kinds -> Nat]
    BY <1>14 DEF Restart, Kinds
  <2>3. phase' \in [Tabs -> Phases]
    BY <1>14 DEF Restart
  <2>4. outbox' \in [Senders -> Seq(Kinds)] /\ held' \in Seq(Kinds) \cup {None} /\ log' \in Seq(Kinds)
    BY <1>0, <1>14 DEF Restart
  <2>5. rx' \in [Tabs -> (Nat \ {0}) \cup {None}] /\ sending' \in [Tabs -> Kinds \cup {None}]
        /\ \A t \in Tabs : rx'[t] = None
    BY <1>14 DEF Restart
  <2>6. wire' \in [Tabs -> Seq(Kinds)] /\ \A t \in Tabs : Len(wire'[t]) <= WireCapacity
    BY <1>0, <1>14 DEF Restart
  <2>7. UNCHANGED <<fixed, seen, synced>>
    BY <1>14 DEF Restart
  <2>8. tooling' \in SUBSET Tabs /\ attentive' \in SUBSET Tabs /\ seen' \in [Tabs -> [Kinds -> Nat]]
        /\ synced' \in [Tabs -> BOOLEAN]
    BY <2>7
  <2> HIDE DEF Phases, Senders
  <2>9. TypeOK'
    BY <2>1, <2>2, <2>3, <2>4, <2>5, <2>6, <2>8
  <2> HIDE DEF TypeOK
  <2> QED BY <2>5, <2>9
<1>15. CASE UNCHANGED vars
  BY <1>15 DEF vars
<1> HIDE DEF Types, TypeOK, Phases, Senders
<1> QED BY <1>1, <1>2, <1>3, <1>4, <1>5, <1>6, <1>7, <1>8, <1>9, <1>10, <1>11, <1>12,
           <1>13, <1>14, <1>15 DEF Next, Server, Session, Browser

-----------------------------------------------------------------------------
(* Steps that leave the session of a tab alone *)

LEMMA UntouchedTab ==
  ASSUME NEW t \in Tabs, NEW k \in Kinds,
         tooling' = tooling, log' = log,
         rx'[t] = rx[t], sending'[t] = sending[t], wire'[t] = wire[t], synced'[t] = synced[t],
         rx[t] # None /\ synced[t] /\ Answers(t, k) => OnItsWay(t, k),
         seen[t][k] = served[k] => seen'[t][k] = served'[k] \/ k \in Unsent',
         k \in Unsent => k \in Unsent' \/ seen'[t][k] = served'[k]
  PROVE  (rx[t] # None /\ synced[t] /\ Answers(t, k) => OnItsWay(t, k))'
<1> SUFFICES ASSUME (rx[t] # None /\ synced[t] /\ Answers(t, k))' PROVE OnItsWay(t, k)'
  OBVIOUS
<1>1. rx[t] # None /\ synced[t] /\ Answers(t, k)
  BY DEF Answers
<1>2. Awaited(t)' = Awaited(t) /\ Oldest' = Oldest
  BY DEF Awaited, Ahead, Oldest
<1> QED BY <1>1, <1>2 DEF OnItsWay

(* The events not sent yet: a tick and a pre-warm add, a broadcast takes one. *)
LEMMA TickUnsent ==
  ASSUME Types, NEW o \in Outcomes, Tick(o)
  PROVE  Unsent \subseteq Unsent' /\ Refreshes(o) \subseteq Unsent'
<1>1. o \in OutcomeType
  BY LiveReloadAssumption
<1> DEFINE e == outcome_to_events(o)
<1>2. e \in Seq(Kinds) /\ Refreshes(o) \subseteq ToSet(e) /\ e # None
  BY <1>1, EventsTell, LiveReloadAssumption
<1>3. outbox["watcher"] = <<>> /\ outbox \in [Senders -> Seq(Kinds)]
      /\ "watcher" \in Senders /\ "prewarm" \in Senders
  BY DEF Tick, Types, TypeOK, Senders
<1> HIDE DEF e
<1>4. CASE o.recovery
  BY <1>2, <1>3, <1>4, SetOfEmpty DEF Tick, Unsent, e
<1>5. CASE ~o.recovery
  <2>1. outbox'["watcher"] = e /\ outbox'["prewarm"] = outbox["prewarm"] /\ held' = held
    BY <1>3, <1>5 DEF Tick, e
  <2> QED BY <1>2, <1>3, <2>1, SetOfEmpty DEF Unsent
<1> QED BY <1>4, <1>5

LEMMA PrewarmUnsent ==
  ASSUME Types, NEW rendered \in BOOLEAN, PrewarmEnds(rendered)
  PROVE  Unsent \subseteq Unsent' /\ (rendered => "page" \in Unsent')
<1>1. /\ outbox["prewarm"] = <<>> /\ outbox \in [Senders -> Seq(Kinds)] /\ held \in Seq(Kinds)
      /\ held # None /\ held' = None /\ "watcher" \in Senders /\ "prewarm" \in Senders
  BY DEF PrewarmEnds, Types, TypeOK, Senders
<1>2. outbox'["watcher"] = outbox["watcher"]
      /\ outbox'["prewarm"] = (IF rendered /\ "page" \notin ToSet(held) THEN Append(held, "page") ELSE held)
  BY <1>1 DEF PrewarmEnds
<1>3. ToSet(Append(held, "page")) = ToSet(held) \cup {"page"}
  BY <1>1, SetOfAppend DEF Kinds
<1>4. ToSet(held) \subseteq ToSet(outbox'["prewarm"]) /\ (rendered => "page" \in ToSet(outbox'["prewarm"]))
  BY <1>2, <1>3
<1> QED BY <1>1, <1>2, <1>4, SetOfEmpty DEF Unsent

LEMMA BroadcastUnsent ==
  ASSUME Types, NEW s \in Senders, Broadcast(s)
  PROVE  Unsent \subseteq Unsent' \cup {log'[Len(log) + 1]}
<1>1. outbox[s] \in Seq(Kinds) /\ outbox[s] # <<>> /\ outbox \in [Senders -> Seq(Kinds)] /\ log \in Seq(Kinds)
      /\ "watcher" \in Senders /\ "prewarm" \in Senders /\ held' = held
  BY DEF Broadcast, Types, TypeOK, Senders
<1>2. ToSet(outbox[s]) = {Head(outbox[s])} \cup ToSet(Tail(outbox[s])) /\ Head(outbox[s]) \in Kinds
  BY <1>1, SetOfTail, HeadTailProperties
<1>3. log'[Len(log) + 1] = Head(outbox[s])
  BY <1>1, <1>2, AppendProperties DEF Broadcast
<1>4. outbox' = [outbox EXCEPT ![s] = Tail(outbox[s])]
  BY DEF Broadcast
<1>5. \A u \in Senders : ToSet(outbox[u]) \subseteq ToSet(outbox'[u]) \cup {log'[Len(log) + 1]}
  BY <1>1, <1>2, <1>3, <1>4
<1> QED BY <1>1, <1>5 DEF Unsent

LEMMA NewsStep == Inv /\ [Next]_vars => NewsArrives'
<1> SUFFICES ASSUME Inv, [Next]_vars, NEW v \in Tabs, NEW k \in Kinds
             PROVE  (rx[v] # None /\ synced[v] /\ Answers(v, k) => OnItsWay(v, k))'
  BY DEF NewsArrives
<1> USE DEF fixed, tabs
<1>0. /\ Types /\ TypeOK /\ log \in Seq(Kinds) /\ Len(log) \in Nat /\ Oldest \in Nat \ {0}
      /\ (Oldest = 1 \/ Oldest <= Len(log)) /\ Types' /\ TypeOK'
  BY TypesStep, OldestType, LenProperties DEF Inv, Types, TypeOK
<1>00. rx[v] # None /\ synced[v] /\ Answers(v, k) => OnItsWay(v, k)
  BY DEF Inv, NewsArrives
<1>1. ASSUME NEW o \in Outcomes, Tick(o) PROVE (rx[v] # None /\ synced[v] /\ Answers(v, k) => OnItsWay(v, k))'
  <2>1. Unsent \subseteq Unsent' /\ Refreshes(o) \subseteq Unsent'
    BY <1>0, <1>1, TickUnsent
  <2>2. k \notin Refreshes(o) => served'[k] = served[k]
    BY <1>1 DEF Tick
  <2> QED BY <1>00, <1>1, <2>1, <2>2, UntouchedTab DEF Tick
<1>2. ASSUME NEW rendered \in BOOLEAN, PrewarmEnds(rendered)
      PROVE (rx[v] # None /\ synced[v] /\ Answers(v, k) => OnItsWay(v, k))'
  <2>1. Unsent \subseteq Unsent' /\ (rendered => "page" \in Unsent')
    BY <1>0, <1>2, PrewarmUnsent
  <2>2. ~rendered \/ k # "page" => served'[k] = served[k]
    BY <1>0, <1>2 DEF PrewarmEnds, TypeOK
  <2> QED BY <1>00, <1>2, <2>1, <2>2, UntouchedTab DEF PrewarmEnds
<1>3. ASSUME NEW s \in Senders, Broadcast(s)
      PROVE (rx[v] # None /\ synced[v] /\ Answers(v, k) => OnItsWay(v, k))'
  <2> DEFINE new == log'[Len(log) + 1]
  <2>1. Unsent \subseteq Unsent' \cup {new}
    BY <1>0, <1>3, BroadcastUnsent
  <2>2. Len(log') = Len(log) + 1 /\ \A i \in 1..Len(log) : log'[i] = log[i]
    BY <1>0, <1>3, AppendProperties, HeadTailProperties DEF Broadcast, TypeOK
  <2>3. SUFFICES ASSUME (rx[v] # None /\ synced[v] /\ Answers(v, k))' PROVE OnItsWay(v, k)'
    OBVIOUS
  <2>4. rx[v] \in Nat \ {0} /\ rx[v] <= Len(log) + 1 /\ synced[v]
    BY <1>0, <1>3, <2>3 DEF Broadcast, Types, TypeOK
  <2>5. new \in Awaited(v)' /\ Awaited(v) \subseteq Awaited(v)'
    BY <1>0, <1>3, <2>2, <2>4 DEF Broadcast, Awaited, Ahead
  <2>6. Oldest <= Oldest' /\ Oldest' \in Nat
    BY <1>0, <2>2, LiveReloadAssumption DEF Oldest
  <2>7. CASE v \in tooling
    <3>1. new = k
      BY <1>0, <1>3, <2>2, <2>3, <2>7 DEF Answers, Broadcast
    <3> QED BY <2>5, <3>1 DEF OnItsWay
  <2>8. CASE v \notin tooling
    <3>1. OnItsWay(v, k)
      <4>1. rx[v] # None
        BY <1>3, <2>3 DEF Broadcast
      <4> QED BY <1>00, <2>4, <2>8, <4>1 DEF Answers
    <3>2. CASE seen[v][k] = served[k]
      BY <1>3, <3>2 DEF OnItsWay, Broadcast
    <3>3. CASE k \in Unsent
      BY <2>1, <2>5, <3>3 DEF OnItsWay
    <3>4. CASE rx[v] < Oldest
      <4>1. rx'[v] = rx[v] /\ tooling' = tooling
        BY <1>3 DEF Broadcast
      <4>2. rx[v] < Oldest'
        BY <1>0, <2>4, <2>6, <3>4
      <4> QED BY <2>8, <4>1, <4>2 DEF OnItsWay
    <3>5. CASE {k, "page"} \cap Awaited(v) # {}
      BY <2>5, <3>5 DEF OnItsWay
    <3> QED BY <2>8, <3>1, <3>2, <3>3, <3>4, <3>5 DEF OnItsWay
  <2> QED BY <2>7, <2>8
<1>4. ASSUME NEW t \in Tabs, Receive(t)
      PROVE (rx[v] # None /\ synced[v] /\ Answers(v, k) => OnItsWay(v, k))'
  <2>1. CASE v # t
    <3>1. rx'[v] = rx[v] /\ sending'[v] = sending[v] /\ wire'[v] = wire[v] /\ seen'[v] = seen[v]
      BY <1>0, <1>4, <2>1 DEF Receive, TypeOK
    <3>2. UNCHANGED <<fixed, served, log, synced>> /\ Unsent' = Unsent
      BY <1>4 DEF Receive, Unsent
    <3> QED BY <1>00, <3>1, <3>2, UntouchedTab
  <2>2. CASE v = t
    <3>1. /\ rx[v] \in Nat \ {0} /\ rx[v] # None /\ rx[v] <= Len(log) /\ sending[v] = None
          /\ UNCHANGED <<fixed, served, outbox, held, log, seen, synced, wire>>
      BY <1>0, <1>4, <2>2 DEF Receive, TypeOK
    <3>2. SUFFICES ASSUME rx[v] # None, synced[v], Answers(v, k), OnItsWay(v, k) PROVE OnItsWay(v, k)'
      BY <1>00, <3>1 DEF Answers
    <3>3. Unsent' = Unsent
      BY <3>1 DEF Unsent
    <3>4. CASE rx[v] < Oldest
      <4>1. rx'[v] = Oldest /\ sending'[v] = MessageForLag(v)
        BY <1>0, <1>4, <2>2, <3>4 DEF Receive, TypeOK
      <4>2. CASE v \notin tooling
        BY <4>1, <4>2 DEF OnItsWay, Awaited, MessageForLag
      <4>3. CASE v \in tooling
        <5>1. Oldest <= Len(log) /\ Len(log) \in Oldest..Len(log)
          BY <1>0, <3>1, <3>4
        <5>2. log[Len(log)] \in Awaited(v)'
          BY <3>1, <4>1, <5>1 DEF Awaited, Ahead
        <5> QED BY <3>2, <4>3, <5>2 DEF OnItsWay, Answers
      <4> QED BY <4>2, <4>3
    <3>5. CASE ~(rx[v] < Oldest)
      <4>1. rx'[v] = rx[v] + 1 /\ sending'[v] = log[rx[v]]
        BY <1>0, <1>4, <2>2, <3>5 DEF Receive, TypeOK
      <4>2. Ahead(v) \subseteq {log[rx[v]]} \cup Ahead(v)'
        <5>1. ASSUME NEW i \in rx[v]..Len(log), i # rx[v] PROVE i \in rx[v] + 1..Len(log)
          BY <1>0, <3>1, <5>1
        <5> QED BY <3>1, <4>1, <5>1 DEF Ahead
      <4>3. Awaited(v) \ {None} \subseteq Awaited(v)'
        BY <3>1, <4>1, <4>2 DEF Awaited
      <4>4. k # None /\ None # "page"
        BY LiveReloadAssumption DEF Kinds
      <4> QED BY <3>1, <3>2, <3>3, <3>5, <4>3, <4>4 DEF OnItsWay
    <3> QED BY <3>4, <3>5
  <2> QED BY <2>1, <2>2
<1>5. ASSUME NEW t \in Tabs, Send(t)
      PROVE (rx[v] # None /\ synced[v] /\ Answers(v, k) => OnItsWay(v, k))'
  <2>1. CASE v # t
    BY <1>00, <1>5, <2>1, UntouchedTab DEF Send, Unsent
  <2>2. CASE v = t
    <3>1. /\ UNCHANGED <<fixed, served, outbox, held, log, seen, synced, rx>>
          /\ sending[v] \in Kinds /\ wire[v] \in Seq(Kinds) /\ wire'[v] = Append(wire[v], sending[v])
      BY <1>0, <1>5, <2>2 DEF Send, TypeOK
    <3>2. ToSet(wire'[v]) = ToSet(wire[v]) \cup {sending[v]}
      BY <3>1, SetOfAppend
    <3>3. Awaited(v) \subseteq Awaited(v)'
      BY <3>1, <3>2 DEF Awaited, Ahead
    <3>4. Unsent' = Unsent /\ Oldest' = Oldest
      BY <3>1 DEF Unsent, Oldest
    <3> QED BY <1>00, <3>1, <3>3, <3>4 DEF OnItsWay, Answers
  <2> QED BY <2>1, <2>2
<1>6. ASSUME NEW t \in Tabs, SendTimesOut(t)
      PROVE (rx[v] # None /\ synced[v] /\ Answers(v, k) => OnItsWay(v, k))'
  <2>1. CASE v # t
    BY <1>00, <1>6, <2>1, UntouchedTab DEF SendTimesOut, Unsent
  <2>2. CASE v = t
    BY <1>0, <1>6, <2>2 DEF SendTimesOut, TypeOK
  <2> QED BY <2>1, <2>2
<1>7. ASSUME NEW t \in Tabs, Load(t)
      PROVE (rx[v] # None /\ synced[v] /\ Answers(v, k) => OnItsWay(v, k))'
  <2>1. CASE v # t
    BY <1>00, <1>7, <2>1, UntouchedTab DEF Load, Unsent
  <2>2. CASE v = t
    BY <1>0, <1>7, <2>2 DEF Load, Types
  <2> QED BY <2>1, <2>2
<1>8. ASSUME NEW t \in Tabs, Connect(t)
      PROVE (rx[v] # None /\ synced[v] /\ Answers(v, k) => OnItsWay(v, k))'
  <2>1. CASE v # t
    <3>1. rx'[v] = rx[v] /\ synced'[v] = synced[v]
      BY <1>0, <1>8, <2>1 DEF Connect, TypeOK
    <3>2. UNCHANGED <<fixed, served, log, seen, sending, wire>> /\ Unsent' = Unsent
      BY <1>8 DEF Connect, Unsent
    <3> QED BY <1>00, <3>1, <3>2, UntouchedTab
  <2>2. CASE v = t
    <3>1. synced'[v] = (\A c \in Kinds : seen[v][c] = served[c] \/ c \in Unsent)
      BY <1>0, <1>8, <2>2 DEF Connect, TypeOK
    <3>2. UNCHANGED <<served, outbox, held, seen>> /\ Unsent' = Unsent
      BY <1>8 DEF Connect, Unsent
    <3> QED BY <3>1, <3>2 DEF OnItsWay
  <2> QED BY <2>1, <2>2
<1>9. ASSUME NEW t \in Tabs, Handle(t)
      PROVE (rx[v] # None /\ synced[v] /\ Answers(v, k) => OnItsWay(v, k))'
  <2>0. UNCHANGED <<fixed, served, outbox, held, log, synced>> /\ Unsent' = Unsent /\ Oldest' = Oldest
    BY <1>9 DEF Handle, Unsent, Oldest
  <2>1. CASE v # t
    <3>1. rx'[v] = rx[v] /\ sending'[v] = sending[v] /\ wire'[v] = wire[v] /\ seen'[v] = seen[v]
      BY <1>0, <1>9, <2>1 DEF Handle, TypeOK
    <3>2. UNCHANGED <<fixed, served, log, synced>> /\ Unsent' = Unsent
      BY <1>9 DEF Handle, Unsent
    <3> QED BY <1>00, <3>1, <3>2, UntouchedTab
  <2>2. CASE v = t /\ Head(wire[v]) = "page" /\ v \notin tooling
    BY <1>0, <1>9, <2>2 DEF Handle, TypeOK
  <2>3. CASE v = t /\ Head(wire[v]) = "page" /\ v \in tooling
    <3>1. seen'[v] = served
      BY <1>0, <1>9, <2>3 DEF Handle, TypeOK
    <3> QED BY <2>0, <3>1 DEF OnItsWay
  <2>4. CASE v = t /\ Head(wire[v]) # "page"
    <3> DEFINE kind == Head(wire[v])
    <3>1. wire[v] \in Seq(Kinds) /\ wire[v] # <<>> /\ wire'[v] = Tail(wire[v]) /\ rx' = rx /\ sending' = sending
      BY <1>0, <1>9, <2>4 DEF Handle, TypeOK
    <3>2. seen'[v] = [seen[v] EXCEPT ![kind] = served[kind]] /\ seen[v] \in [Kinds -> Nat]
      BY <1>0, <1>9, <2>4 DEF Handle, TypeOK
    <3>3. ToSet(wire[v]) = {kind} \cup ToSet(wire'[v])
      BY <3>1, SetOfTail
    <3>4. Awaited(v) \subseteq {kind} \cup Awaited(v)'
      BY <2>0, <3>1, <3>3 DEF Awaited, Ahead
    <3>5. CASE k = kind
      BY <2>0, <3>2, <3>5 DEF OnItsWay
    <3>6. CASE k # kind
      <4>1. seen'[v][k] = seen[v][k]
        BY <3>2, <3>6
      <4>2. {k, "page"} \cap Awaited(v) # {} => {k, "page"} \cap Awaited(v)' # {}
        BY <2>4, <3>4, <3>6
      <4> QED BY <1>00, <2>0, <3>1, <4>1, <4>2 DEF OnItsWay, Answers
    <3> QED BY <3>5, <3>6
  <2> QED BY <2>1, <2>2, <2>3, <2>4
<1>10. ASSUME NEW t \in Tabs, Closed(t)
      PROVE (rx[v] # None /\ synced[v] /\ Answers(v, k) => OnItsWay(v, k))'
  BY <1>00, <1>10, UntouchedTab DEF Closed, Unsent
<1>11. ASSUME NEW t \in Tabs, Hide(t)
      PROVE (rx[v] # None /\ synced[v] /\ Answers(v, k) => OnItsWay(v, k))'
  <2>1. CASE v # t
    <3>1. rx'[v] = rx[v] /\ sending'[v] = sending[v] /\ wire'[v] = wire[v] /\ seen'[v] = seen[v]
      BY <1>0, <1>11, <2>1 DEF Hide, TypeOK
    <3>2. UNCHANGED <<fixed, served, log, synced>> /\ Unsent' = Unsent
      BY <1>11 DEF Hide, Unsent
    <3> QED BY <1>00, <3>1, <3>2, UntouchedTab
  <2>2. CASE v = t
    BY <1>0, <1>11, <2>2 DEF Hide, TypeOK
  <2> QED BY <2>1, <2>2
<1>12. ASSUME NEW t \in Tabs, NEW persisted \in BOOLEAN, Show(t, persisted)
      PROVE (rx[v] # None /\ synced[v] /\ Answers(v, k) => OnItsWay(v, k))'
  BY <1>00, <1>12, UntouchedTab DEF Show, Unsent
<1>13. ASSUME NEW t \in Tabs, LoseConnection(t)
      PROVE (rx[v] # None /\ synced[v] /\ Answers(v, k) => OnItsWay(v, k))'
  <2>1. CASE v # t
    BY <1>00, <1>13, <2>1, UntouchedTab DEF LoseConnection, Unsent
  <2>2. CASE v = t
    BY <1>0, <1>13, <2>2 DEF LoseConnection, TypeOK
  <2> QED BY <2>1, <2>2
<1>14. ASSUME NEW edited \in BOOLEAN, Restart(edited)
      PROVE (rx[v] # None /\ synced[v] /\ Answers(v, k) => OnItsWay(v, k))'
  BY <1>14 DEF Restart
<1>15. CASE UNCHANGED vars
  BY <1>00, <1>15, UntouchedTab DEF vars, Unsent
<1> QED BY <1>1, <1>2, <1>3, <1>4, <1>5, <1>6, <1>7, <1>8, <1>9, <1>10, <1>11, <1>12,
           <1>13, <1>14, <1>15 DEF Next, Server, Session, Browser

-----------------------------------------------------------------------------
(* Live reload keeps its invariant in every behaviour. *)
THEOREM LiveReloadInvariant == Spec => []Inv
<1>1. Init => Inv
  BY InitInv
<1>2. Inv /\ [Next]_vars => Inv'
  BY TypesStep, NewsStep DEF Inv
<1> QED BY <1>1, <1>2, PTL DEF Spec

(* Every variable keeps its type; no connection holds more than it can, and *)
(* the bounds are kept.                                                     *)
THEOREM TypeCorrect == Spec => []TypeOK
<1>1. Inv => TypeOK
  BY DEF Inv, Types
<1> QED BY <1>1, LiveReloadInvariant, PTL

(* A tab that has handled everything its session brings shows what is      *)
(* served, however often the session was too slow for the channel; a tool  *)
(* that lost events is current in the kind of the last one.                *)
THEOREM ReloadsArrive == Spec => []DrainedMeansCurrent
<1>1. Inv => DrainedMeansCurrent
  <2> SUFFICES ASSUME Inv, NEW t \in Tabs, NEW k \in Kinds, Drained(t), k \notin Unsent,
                      t \in tooling => log # <<>> /\ rx[t] > 1 /\ Last(log) = k
               PROVE  seen[t][k] = served[k]
    BY DEF DrainedMeansCurrent
  <2>1. /\ log \in Seq(Kinds) /\ Len(log) \in Nat /\ Oldest \in Nat \ {0}
        /\ (Oldest = 1 \/ Oldest <= Len(log))
    BY OldestType, LenProperties DEF Inv, Types, TypeOK
  <2>2. rx[t] = Len(log) + 1 /\ sending[t] = None /\ wire[t] = <<>> /\ synced[t]
    BY DEF Drained
  <2>3. rx[t] # None /\ None # k /\ None # "page"
    BY <2>1, <2>2, LiveReloadAssumption DEF Kinds
  <2>4. Answers(t, k)
    BY DEF Answers, Last
  <2>5. OnItsWay(t, k)
    BY <2>2, <2>3, <2>4 DEF Inv, NewsArrives
  <2>6. Awaited(t) = {None}
    <3>1. rx[t]..Len(log) = {}
      BY <2>1, <2>2
    <3>2. Ahead(t) = {}
      BY <3>1 DEF Ahead
    <3> QED BY <2>2, <3>2, SetOfEmpty DEF Awaited
  <2>7. ~(rx[t] < Oldest)
    BY <2>1, <2>2
  <2> QED BY <2>3, <2>5, <2>6, <2>7 DEF OnItsWay
<1> QED BY <1>1, LiveReloadInvariant, PTL
=============================================================================
