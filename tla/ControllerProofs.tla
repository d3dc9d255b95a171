-------------------------- MODULE ControllerProofs --------------------------
(***************************************************************************)
(* Proofs about Controller: whatever users do, whatever the informer        *)
(* misses and whatever fails, every goroutine can still be stopped           *)
(* (Reachable), the objects of a cluster carry its labels (Labelled), and no *)
(* goroutine is started where one still runs (StartsOnce).                   *)
(*                                                                         *)
(* The argument rests on the order of uids: the informer delivers events in *)
(* that order, a goroutine never knows a CR before the informer does, and    *)
(* one that was told to stop knows only CRs that are gone.  So it is the     *)
(* goroutine in the map that reports a failure, and when the map forgets     *)
(* the CR as failed, that goroutine has ended.                              *)
(***************************************************************************)
EXTENDS Controller, TLAPS

\* Leaves about numbers, sequences and records name SMT; Zenon does the others.
USE Zenon

----------------------------------------------------------------------------
(***************************************************************************)
(* Records and sequences.                                                  *)
(***************************************************************************)

\* A CR with a new phase and version is one, of the same name, uid and labels.
WithPhase(o, h) == [o EXCEPT !.phase = h, !.version = @ + 1]
LEMMA NewPhase ==
    ASSUME NEW o \in CRs, NEW h \in Phases
    PROVE  LET r == WithPhase(o, h) IN
           /\ r \in CRs /\ r.name = o.name /\ r.uid = o.uid /\ r.labels = o.labels
           /\ r.phase = h
<1> DEFINE v == o.version + 1
<1>1. v \in Nat  BY SMT DEF CRs
<1> HIDE DEF v
<1>2. LET r == [o EXCEPT !.phase = h, !.version = v] IN
      /\ r \in CRs /\ r.name = o.name /\ r.uid = o.uid /\ r.labels = o.labels /\ r.phase = h
  BY <1>1 DEF CRs
<1> QED  BY <1>2 DEF v, WithPhase

\* The same for the phase alone.
Noted(o, h) == [o EXCEPT !.phase = h]
LEMMA FailedWrite ==
    ASSUME NEW o \in CRs, NEW h \in Phases
    PROVE  LET r == Noted(o, h) IN
           /\ r \in CRs /\ r.name = o.name /\ r.uid = o.uid /\ r.labels = o.labels
           /\ r.phase = h
BY DEF Noted, CRs

\* The same for an edit.
Edited(o, f) == [o EXCEPT !.labels = f.labels, !.spec = f.spec, !.version = @ + 1]
LEMMA NewForm ==
    ASSUME NEW o \in CRs, NEW f \in Forms
    PROVE  LET r == Edited(o, f) IN
           /\ r \in CRs /\ r.name = o.name /\ r.uid = o.uid /\ r.phase = o.phase
<1> DEFINE v == o.version + 1
           l == f.labels
           s == f.spec
<1>1. v \in Nat /\ l \in Labels /\ s \in Specs  BY SMT DEF CRs, Labels, Specs
<1> HIDE DEF v, l, s, Edited
<1>2. LET r == [o EXCEPT !.labels = l, !.spec = s, !.version = v] IN
      /\ r \in CRs /\ r.name = o.name /\ r.uid = o.uid /\ r.phase = o.phase
  BY <1>1 DEF CRs
<1> QED  BY <1>2 DEF v, l, s, Edited

\* What a goroutine becomes in the actions below, an operator for each update of the
\* record and what the update does.
AtPC(g, p) == [g EXCEPT !.pc = p]
LEMMA NewPC ==
    ASSUME NEW g \in Goroutines, NEW p \in PCs
    PROVE  LET r == AtPC(g, p) IN
           /\ r \in Goroutines /\ r.pc = p /\ r.stop = g.stop /\ r.eventCh = g.eventCh
           /\ r.rss = g.rss /\ r.phase = g.phase
BY DEF AtPC, Goroutines

AtPCPhase(g, p, h) == [g EXCEPT !.pc = p, !.phase = h]
LEMMA NewPCPhase ==
    ASSUME NEW g \in Goroutines, NEW p \in PCs, NEW h \in Phases
    PROVE  LET r == AtPCPhase(g, p, h) IN
           /\ r \in Goroutines /\ r.pc = p /\ r.stop = g.stop /\ r.eventCh = g.eventCh
           /\ r.rss = g.rss /\ r.phase = h
BY DEF AtPCPhase, Goroutines

AtPCPhaseRss(g, p, h, o) == [g EXCEPT !.pc = p, !.phase = h, !.rss = o]
LEMMA NewPCPhaseRss ==
    ASSUME NEW g \in Goroutines, NEW p \in PCs, NEW h \in Phases, NEW o \in CRs
    PROVE  LET r == AtPCPhaseRss(g, p, h, o) IN
           /\ r \in Goroutines /\ r.pc = p /\ r.stop = g.stop /\ r.eventCh = g.eventCh
           /\ r.rss = o /\ r.phase = h
BY DEF AtPCPhaseRss, Goroutines

AtPCPhaseNoted(g, p, h) == [g EXCEPT !.pc = p, !.phase = h, !.rss.phase = h]
LEMMA NewPCPhaseRssPhase ==
    ASSUME NEW g \in Goroutines, NEW p \in PCs, NEW h \in Phases, g.rss \in CRs
    PROVE  LET r == AtPCPhaseNoted(g, p, h) IN
           /\ r \in Goroutines /\ r.pc = p /\ r.stop = g.stop /\ r.eventCh = g.eventCh
           /\ r.rss = Noted(g.rss, h) /\ r.phase = h
<1>1. [g.rss EXCEPT !.phase = h] \in CRs  BY FailedWrite DEF Noted
<1> QED  BY <1>1 DEF Goroutines, AtPCPhaseNoted, Noted

AtPCRssEvents(g, p, o, q) == [g EXCEPT !.pc = p, !.rss = o, !.eventCh = q]
LEMMA NewPCRssEvents ==
    ASSUME NEW g \in Goroutines, NEW p \in PCs, NEW o \in CRs, NEW q \in Seq(CRs)
    PROVE  LET r == AtPCRssEvents(g, p, o, q) IN
           /\ r \in Goroutines /\ r.pc = p /\ r.stop = g.stop /\ r.eventCh = q
           /\ r.rss = o /\ r.phase = g.phase
BY DEF AtPCRssEvents, Goroutines

LEMMA NoGoroutineRecord ==
    /\ NoGoroutine \in Goroutines /\ NoGoroutine.pc = "none" /\ NoGoroutine.stop = FALSE
    /\ NoGoroutine.eventCh = <<>>
BY SMT DEF NoGoroutine, Goroutines, PCs, Phases

LEMMA StartedRecord ==
    ASSUME NEW o \in CRs
    PROVE  /\ New(o) \in Goroutines /\ New(o).pc = "setup" /\ New(o).stop = FALSE
           /\ New(o).eventCh = <<>> /\ New(o).rss = o /\ New(o).phase = o.phase
<1>1. ASSUME NEW g \in Goroutines
      PROVE  LET r == [g EXCEPT !.pc = "setup", !.rss = o, !.phase = o.phase] IN
             /\ r \in Goroutines /\ r.pc = "setup" /\ r.stop = g.stop
             /\ r.eventCh = g.eventCh /\ r.rss = o /\ r.phase = o.phase
  <2> DEFINE p == "setup"
             h == o.phase
  <2>1. p \in PCs /\ h \in Phases  BY DEF PCs, CRs
  <2> HIDE DEF p, h
  <2>2. LET r == [g EXCEPT !.pc = p, !.rss = o, !.phase = h] IN
        /\ r \in Goroutines /\ r.pc = p /\ r.stop = g.stop
        /\ r.eventCh = g.eventCh /\ r.rss = o /\ r.phase = h
    BY <2>1 DEF Goroutines
  <2> QED  BY <2>2 DEF p, h
<1> QED  BY <1>1, NoGoroutineRecord DEF New

Ended(s, q) == [NoGoroutine EXCEPT !.pc = "exited", !.stop = s, !.eventCh = q]
LEMMA ExitedRecord ==
    ASSUME NEW s \in BOOLEAN, NEW q \in Seq(CRs)
    PROVE  LET r == Ended(s, q) IN
           r \in Goroutines /\ r.pc = "exited" /\ r.stop = s /\ r.eventCh = q
BY DEF Ended, NoGoroutine, Goroutines, PCs, Phases

----------------------------------------------------------------------------
(***************************************************************************)
(* What a step of a goroutine leaves of the goroutine.                     *)
(***************************************************************************)

\* Goroutine u keeps its name and its stopCh; it learns nothing, and has a phase
\* Failed only while it reports that.
Works(u) ==
    /\ gor' \in [Uids -> Goroutines] /\ \A v \in Uids \ {u} : gor'[v] = gor[v]
    /\ gor'[u].stop = gor[u].stop /\ Len(gor'[u].eventCh) <= EventCap
    /\ Live(u)' =>
          /\ gor'[u].rss \in CRs /\ gor'[u].rss.name = gor[u].rss.name
          /\ gor'[u].rss.labels = gor[u].rss.labels
             \/ \E i \in DOMAIN gor[u].eventCh : gor'[u].rss.labels = gor[u].eventCh[i].labels
          /\ Known(u)' \subseteq Known(u)
          /\ \A i \in DOMAIN gor'[u].eventCh : \E j \in DOMAIN gor[u].eventCh :
                gor'[u].eventCh[i] = gor[u].eventCh[j]
          /\ gor'[u].phase = "Failed" => gor'[u].pc = "failing"

\* Becomes, without the case distinction.
LEMMA BecomesIs ==
    ASSUME gor \in [Uids -> Goroutines], NEW u \in Uids, NEW g \in Goroutines, Becomes(u, g)
    PROVE  /\ gor' \in [Uids -> Goroutines] /\ \A v \in Uids \ {u} : gor'[v] = gor[v]
           /\ gor'[u].pc = g.pc /\ gor'[u].stop = g.stop /\ gor'[u].eventCh = g.eventCh
           /\ g.pc # "exited" => gor'[u] = g
<1> DEFINE e == Ended(g.stop, g.eventCh)
           h == IF g.pc # "exited" THEN g ELSE e
<1>1. e \in Goroutines /\ e.pc = "exited" /\ e.stop = g.stop /\ e.eventCh = g.eventCh
  <2>1. g.stop \in BOOLEAN /\ g.eventCh \in Seq(CRs)  BY DEF Goroutines
  <2> QED  BY <2>1, ExitedRecord
<1>2. gor' = [gor EXCEPT ![u] = h]  BY DEF Becomes, Ended
<1> HIDE DEF e
<1>3. /\ h \in Goroutines /\ h.pc = g.pc /\ h.stop = g.stop /\ h.eventCh = g.eventCh
      /\ g.pc # "exited" => h = g
  BY <1>1
<1> HIDE DEF h
<1> QED  BY <1>2, <1>3

\* A goroutine that keeps its queue and what it knows of its CR.
LEMMA BecomesWorks ==
    ASSUME TypeOK, NEW u \in Uids, NEW g \in Goroutines, Becomes(u, g), g.rss \in CRs,
           g.stop = gor[u].stop, g.eventCh = gor[u].eventCh,
           g.rss.name = gor[u].rss.name, g.rss.uid = gor[u].rss.uid,
           g.rss.labels = gor[u].rss.labels, g.phase = "Failed" => g.pc \in {"failing", "exited"}
    PROVE  Works(u)
<1>1. /\ gor' \in [Uids -> Goroutines] /\ \A v \in Uids \ {u} : gor'[v] = gor[v]
      /\ gor'[u].pc = g.pc /\ gor'[u].stop = g.stop /\ gor'[u].eventCh = g.eventCh
      /\ g.pc # "exited" => gor'[u] = g
  BY BecomesIs DEF TypeOK
<1>2. Live(u)' => gor'[u] = g  BY <1>1 DEF Live
<1>3. Len(gor'[u].eventCh) <= EventCap  BY <1>1 DEF TypeOK
<1>4. gor'[u] = g => Known(u)' = Known(u)  BY DEF Known
<1>5. Live(u)' => (g.phase = "Failed" => g.pc = "failing")  BY <1>1 DEF Live
<1> QED  BY <1>1, <1>2, <1>3, <1>4, <1>5 DEF Works

LEMMA GoToWorks ==
    ASSUME TypeOK, FailedInv, NEW u \in Uids, NEW p \in PCs, Live(u), GoTo(u, p),
           gor[u].pc = "failing" => p = "failing"
    PROVE  Works(u)
<1> DEFINE g == AtPC(gor[u], p)
<1>1. gor[u] \in Goroutines /\ gor[u].rss \in CRs  BY DEF TypeOK
<1>2. /\ g \in Goroutines /\ g.pc = p /\ g.stop = gor[u].stop /\ g.eventCh = gor[u].eventCh
      /\ g.rss = gor[u].rss /\ g.phase = gor[u].phase
  BY <1>1, NewPC
<1>3. Becomes(u, g)  BY DEF GoTo, AtPC
<1>4. g.phase = "Failed" => g.pc = "failing"  BY <1>2 DEF FailedInv
<1> HIDE DEF g
<1> QED  BY <1>1, <1>2, <1>3, <1>4, BecomesWorks

\* What updateCRStatus does to the goroutine, and to the API server: it writes the
\* CR the goroutine knows, if it is there.
Writes(u, o) ==
    /\ o \in CRs /\ Put(o) /\ o.name = gor[u].rss.name /\ o.uid = gor[u].rss.uid
    /\ crs[o.name] # <<>> /\ crs[o.name][1].uid = o.uid
    /\ o.phase = "Failed" => ~Live(u)'

LEMMA UpdateWorks ==
    ASSUME TypeOK, NEW u \in Uids, NEW h \in Phases, NEW ok \in BOOLEAN, NEW p \in PCs,
           Live(u), updateCRStatus(u, h, ok, p),
           h = "Failed" => p = "exited" \/ (~ok /\ p = "failing")
    PROVE  /\ Works(u)
           /\ UNCHANGED <<crs, watch>> \/ \E o \in CRs : Writes(u, o)
           /\ UNCHANGED troubles \/ Fault
<1> DEFINE o == gor[u].rss
           new == WithPhase(o, h)
           g1 == AtPCPhase(gor[u], p, h)
           g2 == AtPCPhaseRss(gor[u], p, h, new)
           g3 == AtPCPhaseNoted(gor[u], p, h)
<1>1. gor[u] \in Goroutines /\ o \in CRs  BY DEF TypeOK
<1>2. /\ new \in CRs /\ new.name = o.name /\ new.uid = o.uid /\ new.labels = o.labels
      /\ new.phase = h
  BY <1>1, NewPhase
<1>3. \/ Becomes(u, g1) /\ UNCHANGED <<crs, watch, troubles>>
      \/ ok /\ Current(o) /\ Put(new) /\ Becomes(u, g2) /\ UNCHANGED troubles
      \/ Becomes(u, g3) /\ UNCHANGED <<crs, watch>> /\ (UNCHANGED troubles \/ Fault)
  BY DEF updateCRStatus, WithPhase, AtPCPhase, AtPCPhaseRss, AtPCPhaseNoted
<1>4. CASE Becomes(u, g1) /\ UNCHANGED <<crs, watch, troubles>>
  <2>1. /\ g1 \in Goroutines /\ g1.pc = p /\ g1.stop = gor[u].stop
        /\ g1.eventCh = gor[u].eventCh /\ g1.rss = o /\ g1.phase = h
    BY <1>1, NewPCPhase, SMT
  <2> HIDE DEF g1
  <2>2. Works(u)  BY <1>1, <1>4, <2>1, BecomesWorks
  <2> QED  BY <1>4, <2>2
<1>5. CASE ok /\ Current(o) /\ Put(new) /\ Becomes(u, g2) /\ UNCHANGED troubles
  <2> HIDE DEF new
  <2>1. /\ g2 \in Goroutines /\ g2.pc = p /\ g2.stop = gor[u].stop
        /\ g2.eventCh = gor[u].eventCh /\ g2.rss = new /\ g2.phase = h
    BY <1>1, <1>2, NewPCPhaseRss, SMT
  <2> HIDE DEF g2
  <2>2. Works(u)  BY <1>1, <1>2, <1>5, <2>1, BecomesWorks
  <2>3. gor'[u].pc = p  BY <1>5, <2>1, BecomesIs DEF TypeOK
  <2>4. h = "Failed" => ~Live(u)'  BY <1>5, <2>3 DEF Live
  <2>5. Writes(u, new)
    <3>1. crs[o.name] # <<>> /\ crs[o.name][1].uid = o.uid  BY <1>5 DEF Current
    <3> QED  BY <1>2, <1>5, <2>4, <3>1 DEF Writes
  <2> QED  BY <1>2, <1>5, <2>2, <2>5
<1>6. CASE Becomes(u, g3) /\ UNCHANGED <<crs, watch>> /\ (UNCHANGED troubles \/ Fault)
  <2>1. /\ g3 \in Goroutines /\ g3.pc = p /\ g3.stop = gor[u].stop
        /\ g3.eventCh = gor[u].eventCh /\ g3.rss = Noted(o, h) /\ g3.phase = h
    BY <1>1, NewPCPhaseRssPhase, SMT
  <2>2. LET r == Noted(o, h) IN
        r \in CRs /\ r.name = o.name /\ r.uid = o.uid /\ r.labels = o.labels
    BY <1>1, FailedWrite
  <2> HIDE DEF g3
  <2>3. Works(u)  BY <1>6, <2>1, <2>2, BecomesWorks
  <2> QED  BY <1>6, <2>3
<1> QED  BY <1>3, <1>4, <1>5, <1>6

\* An event is taken from the queue.
LEMMA TakeWorks ==
    ASSUME TypeOK, FailedInv, NamesInv, NEW u \in Uids, NEW p \in PCs, Live(u),
           gor[u].pc # "failing", gor[u].eventCh # <<>>,
           Becomes(u, [gor[u] EXCEPT !.pc = p, !.rss = Head(gor[u].eventCh), !.eventCh = Tail(@)]),
           p # "exited"
    PROVE  Works(u)
<1> DEFINE ch == gor[u].eventCh
           ev == Head(ch)
           g == AtPCRssEvents(gor[u], p, ev, Tail(ch))
<1>1. gor[u] \in Goroutines /\ ch \in Seq(CRs) /\ Len(ch) <= EventCap
  BY DEF TypeOK, Goroutines
<1>2. /\ ev \in CRs /\ Tail(ch) \in Seq(CRs) /\ Len(Tail(ch)) <= EventCap
      /\ 1 \in DOMAIN ch /\ ev = ch[1]
      /\ \A i \in DOMAIN Tail(ch) : i + 1 \in DOMAIN ch /\ Tail(ch)[i] = ch[i + 1]
  BY <1>1, ControllerAssumption, SMT
<1>3. /\ g \in Goroutines /\ g.pc = p /\ g.stop = gor[u].stop /\ g.eventCh = Tail(ch)
      /\ g.rss = ev /\ g.phase = gor[u].phase
  <2>1. PICK e \in CRs, q \in Seq(CRs) : e = ev /\ q = Tail(ch)  BY <1>2
  <2>2. LET r == AtPCRssEvents(gor[u], p, e, q) IN
        /\ r \in Goroutines /\ r.pc = p /\ r.stop = gor[u].stop /\ r.eventCh = q
        /\ r.rss = e /\ r.phase = gor[u].phase
    BY <1>1, NewPCRssEvents, SMT
  <2> QED  BY <2>1, <2>2
<1>4. Becomes(u, g)  BY DEF AtPCRssEvents
<1> HIDE DEF g
<1>5. /\ gor' \in [Uids -> Goroutines] /\ \A v \in Uids \ {u} : gor'[v] = gor[v]
      /\ gor'[u] = g
  BY <1>3, <1>4, BecomesIs DEF TypeOK
<1>6. ev.name = gor[u].rss.name  BY <1>2 DEF NamesInv, Named, NameOf
<1>7. g.phase # "Failed"  BY <1>3 DEF FailedInv
<1>8. Known(u)' \subseteq Known(u)
  <2> SUFFICES ASSUME NEW k \in Known(u)' PROVE k \in Known(u)
    OBVIOUS
  <2>1. k = u \/ k = ev.uid \/ \E i \in DOMAIN Tail(ch) : k = Tail(ch)[i].uid
    BY <1>3, <1>5 DEF Known
  <2> QED  BY <2>1, <1>2 DEF Known
<1>9. \A i \in DOMAIN gor'[u].eventCh : \E j \in DOMAIN ch : gor'[u].eventCh[i] = ch[j]
  BY <1>2, <1>3, <1>5
<1>10. \E i \in DOMAIN ch : gor'[u].rss.labels = ch[i].labels
  BY <1>2, <1>3, <1>5
<1> QED  BY <1>2, <1>3, <1>5, <1>6, <1>7, <1>8, <1>9, <1>10 DEF Works

\* Where the loop goes on is a place.
LEMMA BackIs == ASSUME NEW u PROVE Back(u) \in {"run", "drain"}
BY DEF Back

LEMMA TroubleIs ==
    ASSUME TypeOK, NEW t \in Troubles, Trouble(t)
    PROVE  troubles' \subseteq Troubles
BY DEF TypeOK, Trouble

\* All a goroutine does, as far as CRs and goroutines are concerned.
Quiet(u) ==
    /\ Live(u) /\ Works(u)
    /\ UNCHANGED <<crs, watch>> \/ \E o \in CRs : Writes(u, o)
    /\ UNCHANGED <<uid, store, sending, clusters>> /\ troubles' \subseteq Troubles

LEMMA FaultIs == ASSUME TypeOK, Fault \/ UNCHANGED troubles PROVE troubles' \subseteq Troubles
BY TroubleIs DEF Fault, TypeOK, Troubles

LEMMA StatusQuiet ==
    ASSUME TypeOK, NEW u \in Uids, NEW h \in Phases, NEW ok \in BOOLEAN, NEW p \in PCs,
           Live(u), updateCRStatus(u, h, ok, p), UNCHANGED <<uid, store, sending, clusters>>,
           h = "Failed" => p = "exited" \/ (~ok /\ p = "failing")
    PROVE  Quiet(u)
BY UpdateWorks, FaultIs DEF Quiet

LEMMA GoToQuiet ==
    ASSUME TypeOK, FailedInv, NEW u \in Uids, NEW p \in PCs, Live(u), GoTo(u, p),
           gor[u].pc # "failing", UNCHANGED <<crs, uid, informer, clusters>>,
           Fault \/ UNCHANGED troubles
    PROVE  Quiet(u)
BY GoToWorks, FaultIs DEF Quiet, informer

LEMMA SetupQuiet ==
    ASSUME TypeOK, FailedInv, NEW u \in Uids, Setup(u)
    PROVE  Quiet(u)
<1>1. Live(u) /\ gor[u].pc # "failing"  BY DEF Setup, Live
<1>2. UNCHANGED <<uid, store, sending, clusters>>  BY DEF Setup
<1>3. ASSUME NEW ok \in BOOLEAN,
             updateCRStatus(u, "Creating", ok, IF ok THEN "service" ELSE "setupFailed")
      PROVE  Quiet(u)
  <2> DEFINE p == IF ok THEN "service" ELSE "setupFailed"
  <2>1. p \in PCs /\ "Creating" \in Phases  BY DEF PCs, Phases
  <2>2. updateCRStatus(u, "Creating", ok, p)  BY <1>3
  <2> HIDE DEF p
  <2> QED  BY <1>1, <1>2, <2>1, <2>2, StatusQuiet
<1>4. ASSUME NEW p \in {"start", "setupFailed"}, GoTo(u, p), UNCHANGED <<crs, watch>>,
             Fault \/ UNCHANGED troubles
      PROVE  Quiet(u)
  BY <1>1, <1>2, <1>4, GoToQuiet DEF PCs, informer
<1> QED  BY <1>3, <1>4 DEF Setup

LEMMA EventQuiet ==
    ASSUME TypeOK, FailedInv, NamesInv, NEW u \in Uids, HandleUpdateEvent(u)
    PROVE  Quiet(u)
<1> DEFINE take(pc) == Becomes(u, [gor[u] EXCEPT !.pc = pc, !.rss = Head(gor[u].eventCh),
                                                 !.eventCh = Tail(@)])
<1>1. /\ Live(u) /\ gor[u].pc # "failing" /\ gor[u].eventCh # <<>>
      /\ UNCHANGED <<crs, uid, informer, clusters>>
  BY DEF HandleUpdateEvent, Live
<1>2. PICK p \in {Back(u), "patch", "failing"} : take(p)
  BY DEF HandleUpdateEvent
<1>3. Fault \/ UNCHANGED troubles  BY DEF HandleUpdateEvent
<1>4. p \in PCs /\ p # "exited"  BY BackIs DEF PCs
<1>5. Works(u)  BY <1>1, <1>2, <1>4, TakeWorks
<1> QED  BY <1>1, <1>3, <1>5, FaultIs DEF Quiet, informer

LEMMA GoroutineQuiet ==
    ASSUME TypeOK, FailedInv, NamesInv, NEW u \in Uids, Goroutine(u)
    PROVE  Quiet(u)
<1>1. CASE Setup(u)  BY <1>1, SetupQuiet
<1>2. CASE HandleUpdateEvent(u)  BY <1>2, EventQuiet
<1>3. ASSUME NEW p \in {"setupFailed", "secret", "sts", "start", "exited", "round", "failing",
                        Back(u)},
             GoTo(u, p), gor[u].pc \in {"service", "secret", "sts", "run", "drain", "patch"},
             UNCHANGED <<crs, uid, informer, clusters>>, Fault \/ UNCHANGED troubles
      PROVE  Quiet(u)
  <2>1. p \in PCs  BY BackIs DEF PCs
  <2>2. Live(u) /\ gor[u].pc # "failing"  BY <1>3 DEF Live
  <2> QED  BY <1>3, <2>1, <2>2, GoToQuiet
<1>4. CASE CreateFails(u) \/ CreateService(u) \/ CreateSecret(u) \/ CreateSts(u)
  BY <1>3, <1>4 DEF CreateFails, CreateService, CreateSecret, CreateSts
<1>5. CASE Stop(u) \/ pollPods(u) \/ PatchSts(u)
  BY <1>3, <1>5 DEF Stop, pollPods, PatchSts
<1>6. ASSUME NEW h \in Phases, NEW ok \in BOOLEAN, NEW p \in PCs, updateCRStatus(u, h, ok, p),
             gor[u].pc \in {"setupFailed", "start", "round", "failing"},
             h = "Failed" => p = "exited" \/ (~ok /\ p = "failing"),
             UNCHANGED <<uid, store, sending, clusters>>
      PROVE  Quiet(u)
  <2>1. Live(u)  BY <1>6 DEF Live
  <2> QED  BY <1>6, <2>1, StatusQuiet
<1>7. CASE SetupFailed(u)
  BY <1>6, <1>7 DEF SetupFailed, PCs, Phases
<1>8. CASE Start(u)
  BY <1>6, <1>8 DEF Start, PCs, Phases
<1>9. CASE RoundEnds(u)
  <2>1. gor[u].phase \in Phases /\ gor[u].phase # "Failed"
    BY <1>9 DEF RoundEnds, TypeOK, Goroutines, FailedInv, Live
  <2>2. Back(u) \in PCs  BY BackIs DEF PCs
  <2> QED  BY <1>6, <1>9, <2>1, <2>2 DEF RoundEnds
<1>10. CASE ReportFailedStatus(u)
  <2>1. PICK ok \in BOOLEAN :
           updateCRStatus(u, "Failed", ok, IF ok THEN "exited" ELSE "failing")
    BY <1>10 DEF ReportFailedStatus
  <2> DEFINE p == IF ok THEN "exited" ELSE "failing"
  <2>2. /\ p \in PCs /\ "Failed" \in Phases
        /\ p = "exited" \/ (~ok /\ p = "failing")
    BY DEF PCs, Phases
  <2>3. updateCRStatus(u, "Failed", ok, p)  BY <2>1
  <2> HIDE DEF p
  <2> QED  BY <1>6, <1>10, <2>2, <2>3 DEF ReportFailedStatus
<1> QED  BY <1>1, <1>2, <1>4, <1>5, <1>7, <1>8, <1>9, <1>10 DEF Goroutine


----------------------------------------------------------------------------
(***************************************************************************)
(* The informer's events.                                                  *)
(***************************************************************************)

LEMMA InOrderAppend ==
    ASSUME NEW w \in Seq(Events), NEW d \in Events, InOrder(w),
           \A i \in DOMAIN w : /\ w[i].obj.uid <= d.obj.uid
                               /\ w[i].type = "delete" => w[i].obj.uid < d.obj.uid
    PROVE  InOrder(Append(w, d))
<1> DEFINE a == Append(w, d)
<1>1. /\ a \in Seq(Events) /\ Len(a) = Len(w) + 1 /\ Len(w) \in Nat /\ a[Len(a)] = d
      /\ \A i \in DOMAIN w : a[i] = w[i]
      /\ DOMAIN w = 1..Len(w) /\ DOMAIN a = 1..Len(a)
  BY SMT
<1> HIDE DEF a
<1> SUFFICES ASSUME NEW i \in DOMAIN a, NEW j \in DOMAIN a, i < j
             PROVE  /\ a[i].obj.uid <= a[j].obj.uid
                    /\ a[i].type = "delete" => a[i].obj.uid < a[j].obj.uid
  BY DEF InOrder, a
<1>2. i \in DOMAIN w  BY <1>1, SMT
<1>3. j \in DOMAIN w \/ j = Len(a)  BY <1>1, SMT
<1>4. CASE j \in DOMAIN w  BY <1>1, <1>2, <1>4 DEF InOrder
<1>5. CASE j = Len(a)  BY <1>1, <1>2, <1>5
<1> QED  BY <1>3, <1>4, <1>5

LEMMA InOrderTail ==
    ASSUME NEW w \in Seq(Events), w # <<>>, InOrder(w)
    PROVE  /\ InOrder(Tail(w)) /\ Head(w) \in Events
           /\ \A i \in DOMAIN Tail(w) : /\ Head(w).obj.uid <= Tail(w)[i].obj.uid
                                        /\ Head(w).type = "delete" =>
                                             Head(w).obj.uid < Tail(w)[i].obj.uid
<1> DEFINE t == Tail(w)
<1>1. /\ t \in Seq(Events) /\ DOMAIN t = 1..Len(t) /\ Len(t) = Len(w) - 1 /\ Len(w) \in Nat
      /\ \A i \in DOMAIN t : t[i] = w[i + 1] /\ i + 1 \in DOMAIN w /\ i \in Nat
      /\ 1 \in DOMAIN w /\ Head(w) = w[1] /\ Head(w) \in Events
  BY SMT
<1> HIDE DEF t
<1>2. InOrder(t)
  <2> SUFFICES ASSUME NEW i \in DOMAIN t, NEW j \in DOMAIN t, i < j
               PROVE  /\ t[i].obj.uid <= t[j].obj.uid
                      /\ t[i].type = "delete" => t[i].obj.uid < t[j].obj.uid
    BY DEF InOrder
  <2>1. i + 1 < j + 1  BY <1>1, SMT
  <2> QED  BY <1>1, <2>1 DEF InOrder
<1>3. ASSUME NEW i \in DOMAIN t
      PROVE  /\ w[1].obj.uid <= t[i].obj.uid
             /\ w[1].type = "delete" => w[1].obj.uid < t[i].obj.uid
  <2>1. 1 < i + 1  BY <1>1, SMT
  <2> QED  BY <1>1, <2>1 DEF InOrder
<1> QED  BY <1>1, <1>2, <1>3 DEF t

\* The events about a CR that exists end with its own.
LEMMA CurrentIsLast ==
    ASSUME TypeOK, InformerInv, NEW n \in Names, crs[n] # <<>>
    PROVE  \A i \in DOMAIN watch[n] :
              /\ watch[n][i].obj.uid <= crs[n][1].uid
              /\ watch[n][i].type = "delete" => watch[n][i].obj.uid < crs[n][1].uid
<1> DEFINE w == watch[n]
           d == w[Len(w)]
<1>1. w \in Seq(Events)  BY DEF TypeOK
<1> SUFFICES ASSUME NEW i \in DOMAIN w
             PROVE  /\ w[i].obj.uid <= crs[n][1].uid
                    /\ w[i].type = "delete" => w[i].obj.uid < crs[n][1].uid
  OBVIOUS
<1>2. /\ w # <<>> /\ Len(w) \in DOMAIN w /\ d \in Events /\ i <= Len(w) /\ i \in Nat
      /\ Len(w) \in Nat
  BY <1>1, SMT
<1>3. crs[n] = IF d.type = "put" THEN <<d.obj>> ELSE <<>>
  BY <1>2 DEF InformerInv, Informed
<1>4. d.type = "put" /\ crs[n] = <<d.obj>>  BY <1>2, <1>3
<1>5. crs[n][1] = d.obj /\ d.obj.uid \in Nat  BY <1>2, <1>4, SMT DEF Events, CRs, Uids
<1>6. CASE i = Len(w)  BY <1>4, <1>5, <1>6, SMT
<1>7. CASE i < Len(w)
  <2>1. InOrder(w)  BY DEF InformerInv
  <2> QED  BY <1>2, <1>5, <1>7, <2>1 DEF InOrder
<1> QED  BY <1>2, <1>6, <1>7, SMT

\* The same for a CR that failed.
LEMMA FailedBehind ==
    ASSUME TypeOK, InformerInv, NEW n \in Names, crs[n] # <<>>, crs[n][1].phase = "Failed"
    PROVE  \A i \in DOMAIN watch[n] :
              watch[n][i].type = "put" /\ (watch[n][i].obj.phase = "Failed" \/ clusters[n] # 0)
<1> DEFINE w == watch[n]
           d == w[Len(w)]
<1>1. w \in Seq(Events)  BY DEF TypeOK
<1> SUFFICES ASSUME NEW i \in DOMAIN w
             PROVE  w[i].type = "put" /\ (w[i].obj.phase = "Failed" \/ clusters[n] # 0)
  OBVIOUS
<1>2. /\ w # <<>> /\ Len(w) \in DOMAIN w /\ d \in Events /\ i <= Len(w) /\ i \in Nat
      /\ Len(w) \in Nat
  BY <1>1, SMT
<1>3. crs[n] = IF d.type = "put" THEN <<d.obj>> ELSE <<>>
  BY <1>2 DEF InformerInv, Informed
<1>4. d.type = "put" /\ crs[n] = <<d.obj>>  BY <1>2, <1>3
<1>5. d.obj.phase = "Failed"  BY <1>4, SMT
<1>6. CASE i = Len(w)  BY <1>4, <1>5, <1>6
<1>7. CASE i < Len(w)
  <2>1. FailedLast(n)  BY DEF InformerInv
  <2> QED  BY <1>2, <1>5, <1>7, <2>1 DEF FailedLast
<1> QED  BY <1>2, <1>6, <1>7, SMT

\* The API server changes the CR called n, and the informer will say so.
LEMMA AppendInformed ==
    ASSUME TypeOK, InformerInv, NEW n \in Names, NEW d \in Events,
           crs' = [crs EXCEPT ![n] = IF d.type = "put" THEN <<d.obj>> ELSE <<>>],
           watch' = [watch EXCEPT ![n] = Append(@, d)], UNCHANGED <<store, clusters>>,
           \A i \in DOMAIN watch[n] :
              /\ watch[n][i].obj.uid <= d.obj.uid
              /\ watch[n][i].type = "delete" => watch[n][i].obj.uid < d.obj.uid,
           d.obj.phase = "Failed" => \A i \in DOMAIN watch[n] :
              watch[n][i].type = "put" /\ (watch[n][i].obj.phase = "Failed" \/ clusters[n] # 0)
    PROVE  /\ InformerInv'
           /\ crs' \in [Names -> Seq(CRs)] /\ watch' \in [Names -> Seq(Events)]
           /\ \A m \in Names : Len(crs'[m]) <= 1 /\ Seen(m)' \subseteq Seen(m) \union {d.obj}
           /\ \A m \in Names \ {n} : Seen(m)' = Seen(m)
<1> DEFINE w == watch[n]
           a == Append(w, d)
           c == IF d.type = "put" THEN <<d.obj>> ELSE <<>>
<1>1. w \in Seq(Events) /\ InOrder(w) /\ FailedLast(n)  BY DEF TypeOK, InformerInv
<1>2. /\ a \in Seq(Events) /\ Len(a) = Len(w) + 1 /\ Len(w) \in Nat /\ a[Len(a)] = d /\ a # <<>>
      /\ \A i \in DOMAIN w : a[i] = w[i]
      /\ DOMAIN w = 1..Len(w) /\ DOMAIN a = 1..Len(a)
  BY <1>1, SMT
<1>3. InOrder(a)  BY <1>1, InOrderAppend
<1>4. d.obj \in CRs /\ c \in Seq(CRs) /\ Len(c) <= 1 /\ (\A i \in DOMAIN c : c[i] = d.obj)
  BY SMT DEF Events
<1> HIDE DEF a, c
<1>5. /\ crs' = [crs EXCEPT ![n] = c] /\ watch' = [watch EXCEPT ![n] = a]
  BY DEF a, c
<1>6. /\ crs' \in [Names -> Seq(CRs)] /\ watch' \in [Names -> Seq(Events)]
      /\ crs'[n] = c /\ watch'[n] = a
      /\ \A m \in Names \ {n} : crs'[m] = crs[m] /\ watch'[m] = watch[m]
  BY <1>2, <1>4, <1>5, SMT DEF TypeOK
<1>7. \A m \in Names \ {n} : Seen(m)' = Seen(m)  BY <1>6, SMT DEF Seen
<1>8. Seen(n)' \subseteq Seen(n) \union {d.obj}
  <2> SUFFICES ASSUME NEW o \in Seen(n)' PROVE o \in Seen(n) \/ o = d.obj
    OBVIOUS
  <2>1. \/ \E i \in DOMAIN c : o = c[i]
        \/ \E i \in DOMAIN store[n] : o = store[n][i]
        \/ \E i \in DOMAIN a : o = a[i].obj
    BY <1>6 DEF Seen
  <2>2. CASE \E i \in DOMAIN c : o = c[i]  BY <1>4, <2>2
  <2>3. CASE \E i \in DOMAIN store[n] : o = store[n][i]  BY <2>3 DEF Seen
  <2>4. CASE \E i \in DOMAIN a : o = a[i].obj
    <3>1. PICK i \in DOMAIN a : o = a[i].obj  BY <2>4
    <3>2. i \in DOMAIN w \/ i = Len(a)  BY <1>2, SMT
    <3> QED  BY <1>2, <3>1, <3>2 DEF Seen
  <2> QED  BY <2>1, <2>2, <2>3, <2>4
<1>9. Informed(n)'  BY <1>2, <1>6 DEF Informed, c
<1>10. FailedLast(n)'
  <2> SUFFICES ASSUME NEW i \in DOMAIN a, NEW j \in DOMAIN a, i < j, a[j].obj.phase = "Failed"
               PROVE  a[i].type = "put" /\ (a[i].obj.phase = "Failed" \/ clusters[n] # 0)
    BY <1>6 DEF FailedLast
  <2>1. i \in DOMAIN w /\ (j \in DOMAIN w \/ j = Len(a))  BY <1>2, SMT
  <2>2. CASE j \in DOMAIN w  BY <1>1, <1>2, <2>1, <2>2 DEF FailedLast
  <2>3. CASE j = Len(a)  BY <1>2, <2>1, <2>3
  <2> QED  BY <2>1, <2>2, <2>3
<1>11. ASSUME NEW m \in Names \ {n}
       PROVE  Informed(m)' /\ InOrder(watch[m])' /\ FailedLast(m)'
  BY <1>6, SMT DEF InformerInv, Informed, FailedLast
<1>12. InformerInv'  BY <1>3, <1>6, <1>9, <1>10, <1>11 DEF InformerInv
<1>13. \A m \in Names : Len(crs'[m]) <= 1  BY <1>4, <1>6 DEF TypeOK
<1> QED  BY <1>6, <1>7, <1>8, <1>12, <1>13


\* The event that waits is about a CR.
LEMMA SendingIs ==
    ASSUME TypeOK, sending # <<>>
    PROVE  sending[1] \in CRs /\ sending[1].name \in Names /\ sending[1].uid \in Uids
<1>1. sending \in Seq(CRs)  BY DEF TypeOK
<1>2. sending[1] \in CRs  BY <1>1, SMT
<1> QED  BY <1>2 DEF CRs

\* A goroutine writes the CR it knows: it was not told to stop, so it is the one in
\* the map, and no event about an older CR is left.
LEMMA WriterKnows ==
    ASSUME ControllerInv, NEW u \in Uids, Live(u), NEW o \in CRs, Writes(u, o)
    PROVE  /\ NameOf(u) = o.name /\ crs[o.name][1] \in Seen(o.name) /\ ~gor[u].stop
           /\ clusters[o.name] = u
           /\ \A i \in DOMAIN watch[o.name] :
                 watch[o.name][i].obj.uid <= o.uid /\ watch[o.name][i].type = "put"
<1> DEFINE n == o.name
           c == crs[n][1]
<1>1. n \in Names /\ o.uid \in Nat  BY SMT DEF CRs, Uids
<1>2. /\ NameOf(u) = n /\ gor[u].rss.uid = o.uid /\ crs[n] # <<>> /\ c.uid = o.uid
  BY DEF Writes, NameOf
<1>3. c \in Seen(n)
  <2>1. crs[n] \in Seq(CRs)  BY <1>1 DEF ControllerInv, TypeOK
  <2>2. 1 \in DOMAIN crs[n]  BY <1>2, <2>1, SMT
  <2> QED  BY <2>2 DEF Seen
<1>4. o.uid \in Known(u)  BY <1>2 DEF Known
<1>5. \A p \in Seen(n), k \in Known(u) : k <= p.uid /\ (gor[u].stop => k < p.uid)
  BY <1>2 DEF ControllerInv, KnownInv
<1>6. ~gor[u].stop  BY <1>1, <1>2, <1>3, <1>4, <1>5, SMT
<1>7. clusters[n] = u  BY <1>2, <1>6 DEF ControllerInv, Reachable
<1>8. ASSUME NEW i \in DOMAIN watch[n]
      PROVE  watch[n][i].obj.uid <= o.uid /\ watch[n][i].type = "put"
  <2>1. /\ watch[n][i].obj.uid <= o.uid
        /\ watch[n][i].type = "delete" => watch[n][i].obj.uid < o.uid
    BY <1>1, <1>2, CurrentIsLast DEF ControllerInv
  <2>2. watch[n][i].obj \in Seen(n)  BY DEF Seen
  <2>3. o.uid <= watch[n][i].obj.uid  BY <1>4, <1>5, <2>2
  <2>4. watch[n][i] \in Events  BY <1>1, SMT DEF ControllerInv, TypeOK
  <2>5. watch[n][i].obj.uid \in Nat  BY <2>4, SMT DEF Events, CRs, Uids
  <2>6. watch[n][i].type # "delete"  BY <1>1, <2>1, <2>3, <2>5, SMT
  <2> QED  BY <2>1, <2>4, <2>6 DEF Events
<1> QED  BY <1>2, <1>3, <1>6, <1>7, <1>8

\* What a step of goroutine u leaves of the CRs.
LEMMA QuietSeen ==
    ASSUME ControllerInv, NEW u \in Uids, Quiet(u)
    PROVE  /\ InformerInv'
           /\ crs' \in [Names -> Seq(CRs)] /\ watch' \in [Names -> Seq(Events)]
           /\ \A n \in Names : Len(crs'[n]) <= 1
           /\ \A n \in Names : \A o \in Seen(n)' :
                 /\ o.name = n /\ \E p \in Seen(n) : p.uid = o.uid
                 /\ o.phase = "Failed" =>
                       o \in Seen(n) \/ (NameOf(u) = n /\ ~Live(u)' /\ ~gor[u].stop)
<1> USE DEF ControllerInv
<1>1. \A n \in Names : \A o \in Seen(n) : o.name = n  BY DEF NamesInv, Named
<1>2. UNCHANGED <<store, clusters>> /\ Live(u)  BY DEF Quiet
<1>3. CASE UNCHANGED <<crs, watch>>
  <2>1. InformerInv'  BY <1>2, <1>3 DEF InformerInv, Informed, FailedLast
  <2>2. \A n \in Names : Seen(n)' = Seen(n)  BY <1>2, <1>3 DEF Seen
  <2>3. /\ crs' \in [Names -> Seq(CRs)] /\ watch' \in [Names -> Seq(Events)]
        /\ \A n \in Names : Len(crs'[n]) <= 1
    BY <1>3 DEF TypeOK
  <2> QED  BY <1>1, <2>1, <2>2, <2>3
<1>4. ASSUME NEW o \in CRs, Writes(u, o)
      PROVE  /\ InformerInv'
             /\ crs' \in [Names -> Seq(CRs)] /\ watch' \in [Names -> Seq(Events)]
             /\ \A n \in Names : Len(crs'[n]) <= 1
             /\ \A n \in Names : \A p \in Seen(n)' :
                   /\ p.name = n /\ \E q \in Seen(n) : q.uid = p.uid
                   /\ p.phase = "Failed" =>
                         p \in Seen(n) \/ (NameOf(u) = n /\ ~Live(u)' /\ ~gor[u].stop)
  <2> DEFINE n == o.name
             d == [type |-> "put", obj |-> o]
  <2>1. /\ NameOf(u) = n /\ crs[n][1] \in Seen(n) /\ ~gor[u].stop /\ clusters[n] = u
        /\ \A i \in DOMAIN watch[n] :
              watch[n][i].obj.uid <= o.uid /\ watch[n][i].type = "put"
    BY <1>2, <1>4, WriterKnows
  <2>2. n \in Names /\ d \in Events /\ d.type = "put" /\ d.obj = o /\ u # 0
    BY SMT DEF CRs, Events, Uids
  <2>3. /\ crs' = [crs EXCEPT ![n] = IF d.type = "put" THEN <<d.obj>> ELSE <<>>]
        /\ watch' = [watch EXCEPT ![n] = Append(@, d)]
        /\ crs[n][1].uid = o.uid /\ (o.phase = "Failed" => ~Live(u)')
    BY <1>4 DEF Writes, Put
  <2> HIDE DEF d, n
  <2>4. /\ InformerInv'
        /\ crs' \in [Names -> Seq(CRs)] /\ watch' \in [Names -> Seq(Events)]
        /\ \A m \in Names : Len(crs'[m]) <= 1 /\ Seen(m)' \subseteq Seen(m) \union {o}
        /\ \A m \in Names \ {n} : Seen(m)' = Seen(m)
    <3>1. \A i \in DOMAIN watch[n] :
              /\ watch[n][i].obj.uid <= d.obj.uid
              /\ watch[n][i].type = "delete" => watch[n][i].obj.uid < d.obj.uid
      BY <2>1, <2>2
    <3>2. \A i \in DOMAIN watch[n] :
            watch[n][i].type = "put" /\ (watch[n][i].obj.phase = "Failed" \/ clusters[n] # 0)
      BY <2>1, <2>2
    <3>3. /\ InformerInv'
          /\ crs' \in [Names -> Seq(CRs)] /\ watch' \in [Names -> Seq(Events)]
          /\ \A m \in Names : Len(crs'[m]) <= 1 /\ Seen(m)' \subseteq Seen(m) \union {d.obj}
          /\ \A m \in Names \ {n} : Seen(m)' = Seen(m)
      BY <1>2, <2>2, <2>3, <3>1, <3>2, AppendInformed
    <3> QED  BY <2>2, <3>3
  <2>5. ASSUME NEW m \in Names, NEW p \in Seen(m)'
        PROVE  /\ p.name = m /\ \E q \in Seen(m) : q.uid = p.uid
               /\ p.phase = "Failed" =>
                     p \in Seen(m) \/ (NameOf(u) = m /\ ~Live(u)' /\ ~gor[u].stop)
    <3>1. CASE p \in Seen(m)  BY <1>1, <3>1
    <3>2. CASE p \notin Seen(m)
      <4>1. p = o /\ m = n  BY <2>4, <2>5, <3>2
      <4> QED  BY <2>1, <2>3, <4>1 DEF n
    <3> QED  BY <3>1, <3>2
  <2> QED  BY <2>4, <2>5
<1> QED  BY <1>3, <1>4 DEF Quiet

\* A step of a goroutine preserves what is known of names, uids and goroutines.
LEMMA QuietInv ==
    ASSUME ControllerInv, NEW u \in Uids, Quiet(u)
    PROVE  /\ TypeOK' /\ InformerInv' /\ NamesInv' /\ MapInv' /\ KnownInv' /\ FailedInv'
           /\ Reachable' /\ AcceptedInv'
<1>1. /\ TypeOK /\ NamesInv /\ MapInv /\ KnownInv /\ FailedInv /\ Reachable /\ AcceptedInv
  BY DEF ControllerInv
<1>2. /\ InformerInv'
      /\ crs' \in [Names -> Seq(CRs)] /\ watch' \in [Names -> Seq(Events)]
      /\ \A n \in Names : Len(crs'[n]) <= 1
      /\ \A n \in Names : \A o \in Seen(n)' :
            /\ o.name = n /\ \E p \in Seen(n) : p.uid = o.uid
            /\ o.phase = "Failed" =>
                  o \in Seen(n) \/ (NameOf(u) = n /\ ~Live(u)' /\ ~gor[u].stop)
  BY QuietSeen
<1>3. /\ Live(u) /\ UNCHANGED <<uid, store, sending, clusters>> /\ troubles' \subseteq Troubles
      /\ gor' \in [Uids -> Goroutines] /\ \A v \in Uids \ {u} : gor'[v] = gor[v]
      /\ gor'[u].stop = gor[u].stop /\ Len(gor'[u].eventCh) <= EventCap
      /\ Live(u)' =>
            /\ gor'[u].rss \in CRs /\ NameOf(u)' = NameOf(u)
            /\ gor'[u].rss.labels = gor[u].rss.labels
               \/ \E i \in DOMAIN gor[u].eventCh : gor'[u].rss.labels = gor[u].eventCh[i].labels
            /\ Known(u)' \subseteq Known(u)
            /\ \A i \in DOMAIN gor'[u].eventCh : \E j \in DOMAIN gor[u].eventCh :
                  gor'[u].eventCh[i] = gor[u].eventCh[j]
            /\ gor'[u].phase = "Failed" => gor'[u].pc = "failing"
  BY DEF Quiet, Works, NameOf
<1>4. \A v \in Uids \ {u} : /\ Live(v)' = Live(v) /\ NameOf(v)' = NameOf(v)
                            /\ Known(v)' = Known(v)
  BY <1>3, SMT DEF Live, NameOf, Known
<1>5. \A v \in Uids : gor'[v].stop = gor[v].stop /\ (Live(v)' => Live(v) /\ NameOf(v)' = NameOf(v))
  BY <1>3, <1>4
<1>6. TypeOK'
  <2>1. \A v \in Uids : (Live(v)' => gor'[v].rss \in CRs) /\ Len(gor'[v].eventCh) <= EventCap
    BY <1>1, <1>3, <1>4 DEF TypeOK
  <2> QED  BY <1>1, <1>2, <1>3, <2>1 DEF TypeOK
<1>7. \A v \in Uids : Live(v)' => NameOf(v) \in Names /\ Known(v)' \subseteq Known(v)
  <2>1. \A v \in Uids : Live(v) => NameOf(v) \in Names  BY <1>1 DEF TypeOK, NameOf, CRs
  <2> QED  BY <1>3, <1>4, <2>1
<1>8. NamesInv'
  <2>1. PICK owner \in [1..uid -> Names] : Named(owner)  BY <1>1 DEF NamesInv
  <2>2. ASSUME NEW n \in Names
        PROVE  /\ \A o \in Seen(n)' : o.name = n /\ o.uid <= uid' /\ owner[o.uid] = n
               /\ clusters'[n] # 0 => clusters'[n] <= uid' /\ owner[clusters'[n]] = n
    BY <1>2, <1>3, <2>1, SMT DEF Named
  <2>3. ASSUME NEW v \in Uids, Live(v)'
        PROVE  /\ \A k \in Known(v)' : k <= uid' /\ owner[k] = NameOf(v)'
               /\ \A i \in DOMAIN gor'[v].eventCh : gor'[v].eventCh[i].name = NameOf(v)'
    <3>1. \A k \in Known(v) : k <= uid /\ owner[k] = NameOf(v)
      BY <1>5, <2>1, <2>3 DEF Named
    <3>2. \A i \in DOMAIN gor[v].eventCh : gor[v].eventCh[i].name = NameOf(v)
      BY <1>5, <2>1, <2>3 DEF Named
    <3>3. \A i \in DOMAIN gor'[v].eventCh : \E j \in DOMAIN gor[v].eventCh :
             gor'[v].eventCh[i] = gor[v].eventCh[j]
      BY <1>3, <2>3
    <3> QED  BY <1>3, <1>5, <1>7, <2>3, <3>1, <3>2, <3>3, SMT
  <2>4. sending' # <<>> =>
           sending'[1].uid <= uid' /\ owner[sending'[1].uid] = sending'[1].name
    BY <1>3, <2>1 DEF Named
  <2>5. Named(owner)'  BY <2>2, <2>3, <2>4 DEF Named
  <2> QED  BY <1>3, <2>5 DEF NamesInv
<1>9. MapInv'
  <2>1. \A n \in Names : clusters[n] # 0 => clusters[n] \in Uids  BY <1>1, SMT DEF TypeOK, Uids
  <2> QED  BY <1>1, <1>3, <1>5, <2>1 DEF MapInv
<1>10. KnownInv'
  <2>1. ASSUME NEW v \in Uids, Live(v)', NEW o \in Seen(NameOf(v))', NEW k \in Known(v)'
        PROVE  k <= o.uid /\ (gor'[v].stop => k < o.uid)
    <3>1. NameOf(v)' = NameOf(v) /\ Live(v) /\ NameOf(v) \in Names /\ k \in Known(v)
      BY <1>5, <1>7, <2>1
    <3>2. PICK n \in Names : n = NameOf(v)  BY <3>1
    <3>3. Seen(NameOf(v))' = Seen(n)'  BY <3>1, <3>2 DEF Seen
    <3>4. PICK p \in Seen(n) : p.uid = o.uid  BY <1>2, <2>1, <3>3
    <3> QED  BY <1>1, <1>5, <3>1, <3>2, <3>4 DEF KnownInv
  <2>2. ASSUME sending' # <<>>, NEW o \in Seen(sending[1].name)'
        PROVE  sending'[1].uid <= o.uid
    <3>1. sending[1].name \in Names
      BY <1>1, <1>3, <2>2, SendingIs
    <3>2. PICK n \in Names : n = sending[1].name  BY <3>1
    <3>3. Seen(sending[1].name)' = Seen(n)'  BY <1>3, <3>2, SMT DEF Seen
    <3>4. PICK p \in Seen(n) : p.uid = o.uid  BY <1>2, <2>2, <3>3
    <3> QED  BY <1>1, <1>3, <2>2, <3>2, <3>4 DEF KnownInv
  <2> QED  BY <2>1, <2>2 DEF KnownInv
<1>11. FailedInv'
  <2>1. \A v \in Uids : Live(v)' /\ gor'[v].phase = "Failed" => gor'[v].pc = "failing"
    BY <1>1, <1>3, <1>4 DEF FailedInv
  <2>2. ASSUME NEW n \in Names, NEW o \in Seen(n)', o.phase = "Failed",
               NEW v \in Uids, Live(v)', NameOf(v)' = n
        PROVE  gor'[v].stop
    <3>1. CASE o \in Seen(n)  BY <1>1, <1>5, <2>2, <3>1 DEF FailedInv
    <3>2. CASE NameOf(u) = n /\ ~Live(u)' /\ ~gor[u].stop
      <4>1. clusters[n] = u  BY <1>1, <1>3, <3>2 DEF Reachable
      <4>2. v # u /\ Live(v) /\ NameOf(v) = n  BY <1>5, <2>2, <3>2
      <4> QED  BY <1>1, <1>5, <4>1, <4>2 DEF Reachable
    <3> QED  BY <1>2, <2>2, <3>1, <3>2
  <2> QED  BY <2>1, <2>2 DEF FailedInv
<1>12. Reachable'  BY <1>1, <1>3, <1>5 DEF Reachable
<1>13. AcceptedInv'
  <2>1. ASSUME NEW v \in Uids, Live(v)'
        PROVE  /\ Unreserved(gor'[v].rss)
               /\ \A i \in DOMAIN gor'[v].eventCh : Unreserved(gor'[v].eventCh[i])
    <3>1. CASE v = u  BY <1>1, <1>3, <2>1, <3>1 DEF AcceptedInv, Unreserved
    <3>2. CASE v # u  BY <1>1, <1>3, <1>4, <2>1, <3>2 DEF AcceptedInv
    <3> QED  BY <3>1, <3>2
  <2>2. sending' # <<>> => Unreserved(sending'[1])  BY <1>1, <1>3 DEF AcceptedInv
  <2> QED  BY <2>1, <2>2 DEF AcceptedInv
<1> QED  BY <1>2, <1>6, <1>8, <1>9, <1>10, <1>11, <1>12, <1>13


----------------------------------------------------------------------------
(***************************************************************************)
(* Users, and the informer's list.                                         *)
(***************************************************************************)

\* A sequence that is not longer than one.
LEMMA Single ==
    ASSUME NEW S, NEW s \in Seq(S), Len(s) <= 1, s # <<>>
    PROVE  s = <<s[1]>> /\ s[1] \in S /\ 1 \in DOMAIN s /\ \A i \in DOMAIN s : i = 1
<1>1. Len(s) = 1 /\ DOMAIN s = 1..1 /\ s[1] \in S  BY SMT
<1>2. <<s[1]>> \in Seq(S) /\ Len(<<s[1]>>) = 1 /\ <<s[1]>>[1] = s[1]  BY <1>1, SMT
<1>3. \A i \in 1..Len(s) : s[i] = <<s[1]>>[i]  BY <1>1, <1>2, SMT
<1>4. s = <<s[1]>>  BY <1>1, <1>2, <1>3, SMT
<1> QED  BY <1>1, <1>4, SMT

LEMMA ShortInOrder ==
    ASSUME NEW S, NEW s \in Seq(S), Len(s) <= 1
    PROVE  \A i, j \in DOMAIN s : ~(i < j)
<1>1. Len(s) \in Nat /\ DOMAIN s = 1..Len(s)  BY SMT
<1> QED  BY <1>1, SMT

\* The CR that exists under a name, and the informer's copy.
LEMMA TheCR ==
    ASSUME TypeOK, NEW n \in Names
    PROVE  /\ crs[n] # <<>> =>
                /\ crs[n] = <<crs[n][1]>> /\ crs[n][1] \in CRs /\ crs[n][1] \in Seen(n)
           /\ store[n] # <<>> =>
                /\ store[n] = <<store[n][1]>> /\ store[n][1] \in CRs /\ store[n][1] \in Seen(n)
<1>1. crs[n] \in Seq(CRs) /\ Len(crs[n]) <= 1 /\ store[n] \in Seq(CRs) /\ Len(store[n]) <= 1
  BY DEF TypeOK
<1>2. crs[n] # <<>> => crs[n] = <<crs[n][1]>> /\ crs[n][1] \in CRs /\ 1 \in DOMAIN crs[n]
  BY <1>1, Single
<1>3. store[n] # <<>> => store[n] = <<store[n][1]>> /\ store[n][1] \in CRs /\ 1 \in DOMAIN store[n]
  BY <1>1, Single
<1> QED  BY <1>2, <1>3 DEF Seen

LEMMA SeenAreCRs ==
    ASSUME TypeOK, NEW n \in Names
    PROVE  \A o \in Seen(n) : o \in CRs
<1>1. crs[n] \in Seq(CRs) /\ store[n] \in Seq(CRs) /\ watch[n] \in Seq(Events)
  BY DEF TypeOK
<1>2. \A i \in DOMAIN watch[n] : watch[n][i] \in Events  BY <1>1, SMT
<1> QED  BY <1>1, <1>2, SMT DEF Seen, Events

\* Nothing new is heard of, and goroutines and map stay as they are.
LEMMA SameGoroutines ==
    ASSUME ControllerInv, UNCHANGED <<gor, clusters, sending, uid>>,
           \A n \in Names : \A o \in Seen(n)' :
              /\ o.name = n
              /\ \E p \in Seen(n) : p.uid = o.uid /\ (o.phase = "Failed" => p.phase = "Failed")
    PROVE  NamesInv' /\ MapInv' /\ KnownInv' /\ FailedInv' /\ Reachable' /\ AcceptedInv'
<1>1. /\ TypeOK /\ NamesInv /\ MapInv /\ KnownInv /\ FailedInv /\ Reachable /\ AcceptedInv
  BY DEF ControllerInv
<1>2. \A v \in Uids : Live(v)' = Live(v) /\ NameOf(v)' = NameOf(v) /\ Known(v)' = Known(v)
  BY SMT DEF Live, NameOf, Known
<1>3. \A v \in Uids : Live(v) => NameOf(v) \in Names  BY <1>1 DEF TypeOK, NameOf, CRs
<1>4. NamesInv'
  <2>1. PICK owner \in [1..uid -> Names] : Named(owner)  BY <1>1 DEF NamesInv
  <2>2. Named(owner)'  BY <1>2, <2>1, SMT DEF Named
  <2> QED  BY <2>2 DEF NamesInv
<1>5. KnownInv'
  <2>1. ASSUME NEW v \in Uids, Live(v), NEW o \in Seen(NameOf(v))', NEW k \in Known(v)
        PROVE  k <= o.uid /\ (gor[v].stop => k < o.uid)
    <3>1. PICK n \in Names : n = NameOf(v)  BY <1>3, <2>1
    <3>2. Seen(NameOf(v))' = Seen(n)'  BY <1>2, <3>1, SMT DEF Seen
    <3>3. PICK p \in Seen(n) : p.uid = o.uid  BY <2>1, <3>2
    <3> QED  BY <1>1, <2>1, <3>1, <3>3 DEF KnownInv
  <2>2. ASSUME sending # <<>>, NEW o \in Seen(sending[1].name)'
        PROVE  sending[1].uid <= o.uid
    <3>1. PICK n \in Names : n = sending[1].name  BY <1>1, <2>2, SendingIs
    <3>2. Seen(sending[1].name)' = Seen(n)'  BY <3>1, SMT DEF Seen
    <3>3. PICK p \in Seen(n) : p.uid = o.uid  BY <2>2, <3>2, SMT
    <3> QED  BY <1>1, <2>2, <3>1, <3>3 DEF KnownInv
  <2> QED  BY <1>2, <2>1, <2>2 DEF KnownInv
<1>6. FailedInv'  BY <1>1, <1>2 DEF FailedInv
<1>7. MapInv' /\ Reachable' /\ AcceptedInv'
  BY <1>1, <1>2 DEF MapInv, Reachable, AcceptedInv
<1> QED  BY <1>4, <1>5, <1>6, <1>7

\* TypeOK is preserved if the variables that change keep their types.
LEMMA TypeStays ==
    ASSUME TypeOK, UNCHANGED <<gor, clusters, sending, store>>,
           crs' \in [Names -> Seq(CRs)], \A n \in Names : Len(crs'[n]) <= 1,
           watch' \in [Names -> Seq(Events)], uid' \in 0..MaxUid, troubles' \subseteq Troubles
    PROVE  TypeOK'
BY DEF TypeOK, Live

LEMMA EditInv ==
    ASSUME ControllerInv, NEW n \in Names, UserEdits(n)
    PROVE  /\ TypeOK' /\ InformerInv' /\ NamesInv' /\ MapInv' /\ KnownInv' /\ FailedInv'
           /\ Reachable' /\ AcceptedInv'
<1> USE DEF ControllerInv
<1> DEFINE c == crs[n][1]
<1>1. /\ crs[n] # <<>> /\ Trouble("edit")
      /\ UNCHANGED <<uid, store, sending, clusters, gor>>
  BY DEF UserEdits
<1>2. PICK f \in Forms : Put(Edited(c, f))  BY DEF UserEdits, Edited
<1> DEFINE o == Edited(c, f)
           d == [type |-> "put", obj |-> o]
<1>3. c \in CRs /\ c \in Seen(n) /\ c.name = n
  BY <1>1, TheCR DEF NamesInv, Named
<1>4. o \in CRs /\ o.name = n /\ o.uid = c.uid /\ o.phase = c.phase
  BY <1>3, NewForm
<1> HIDE DEF o
<1>5. d \in Events /\ d.type = "put" /\ d.obj = o  BY <1>4 DEF Events
<1>6. /\ crs' = [crs EXCEPT ![n] = IF d.type = "put" THEN <<d.obj>> ELSE <<>>]
      /\ watch' = [watch EXCEPT ![n] = Append(@, d)]
  BY <1>2, <1>4 DEF Put, o
<1> HIDE DEF d
<1>7. \A i \in DOMAIN watch[n] :
              /\ watch[n][i].obj.uid <= d.obj.uid
              /\ watch[n][i].type = "delete" => watch[n][i].obj.uid < d.obj.uid
  BY <1>1, <1>4, <1>5, CurrentIsLast
<1>8. d.obj.phase = "Failed" => \A i \in DOMAIN watch[n] :
              watch[n][i].type = "put" /\ (watch[n][i].obj.phase = "Failed" \/ clusters[n] # 0)
  BY <1>1, <1>4, <1>5, FailedBehind
<1>9. /\ InformerInv'
      /\ crs' \in [Names -> Seq(CRs)] /\ watch' \in [Names -> Seq(Events)]
      /\ \A m \in Names : Len(crs'[m]) <= 1 /\ Seen(m)' \subseteq Seen(m) \union {o}
      /\ \A m \in Names \ {n} : Seen(m)' = Seen(m)
  <2>1. UNCHANGED <<store, clusters>>  BY <1>1
  <2> QED  BY <1>5, <1>6, <1>7, <1>8, <2>1, AppendInformed
<1>10. ASSUME NEW m \in Names, NEW p \in Seen(m)'
       PROVE  /\ p.name = m
              /\ \E q \in Seen(m) : q.uid = p.uid /\ (p.phase = "Failed" => q.phase = "Failed")
  <2>1. CASE p \in Seen(m)  BY <2>1 DEF NamesInv, Named
  <2>2. CASE p \notin Seen(m)
    <3>1. p = o /\ m = n  BY <1>9, <1>10, <2>2
    <3> QED  BY <1>3, <1>4, <3>1
  <2> QED  BY <2>1, <2>2
<1>11. TypeOK'
  <2>1. "edit" \in Troubles  BY DEF Troubles
  <2>2. troubles' \subseteq Troubles  BY <1>1, <2>1, TroubleIs
  <2>3. uid' \in 0..MaxUid  BY <1>1 DEF TypeOK
  <2> QED  BY <1>1, <1>9, <2>2, <2>3, TypeStays
<1> QED  BY <1>1, <1>9, <1>10, <1>11, SameGoroutines

LEMMA DeleteInv ==
    ASSUME ControllerInv, NEW n \in Names, UserDeletes(n)
    PROVE  /\ TypeOK' /\ InformerInv' /\ NamesInv' /\ MapInv' /\ KnownInv' /\ FailedInv'
           /\ Reachable' /\ AcceptedInv'
<1> USE DEF ControllerInv
<1> DEFINE c == crs[n][1]
           d == [type |-> "delete", obj |-> c]
<1>1. /\ crs[n] # <<>> /\ UNCHANGED <<uid, store, sending, clusters, gor, troubles>>
  BY DEF UserDeletes
<1>3. c \in CRs /\ c \in Seen(n) /\ c.name = n
  BY <1>1, TheCR DEF NamesInv, Named
<1>5. d \in Events /\ d.type = "delete" /\ d.obj = c  BY <1>3 DEF Events
<1>6. /\ crs' = [crs EXCEPT ![n] = IF d.type = "put" THEN <<d.obj>> ELSE <<>>]
      /\ watch' = [watch EXCEPT ![n] = Append(@, d)]
  BY DEF UserDeletes
<1> HIDE DEF d
<1>7. \A i \in DOMAIN watch[n] :
              /\ watch[n][i].obj.uid <= d.obj.uid
              /\ watch[n][i].type = "delete" => watch[n][i].obj.uid < d.obj.uid
  BY <1>1, <1>5, CurrentIsLast
<1>8. d.obj.phase = "Failed" => \A i \in DOMAIN watch[n] :
              watch[n][i].type = "put" /\ (watch[n][i].obj.phase = "Failed" \/ clusters[n] # 0)
  BY <1>1, <1>5, FailedBehind
<1>9. /\ InformerInv'
      /\ crs' \in [Names -> Seq(CRs)] /\ watch' \in [Names -> Seq(Events)]
      /\ \A m \in Names : Len(crs'[m]) <= 1 /\ Seen(m)' \subseteq Seen(m) \union {c}
      /\ \A m \in Names \ {n} : Seen(m)' = Seen(m)
  <2>1. UNCHANGED <<store, clusters>>  BY <1>1
  <2> QED  BY <1>5, <1>6, <1>7, <1>8, <2>1, AppendInformed
<1>10. \A m \in Names : Seen(m)' \subseteq Seen(m)  BY <1>3, <1>9
<1>11. \A m \in Names : \A p \in Seen(m) : p.name = m  BY DEF NamesInv, Named
<1>12. TypeOK'
  <2>1. uid' \in 0..MaxUid /\ troubles' \subseteq Troubles  BY <1>1 DEF TypeOK
  <2> QED  BY <1>1, <1>9, <2>1, TypeStays
<1> QED  BY <1>1, <1>9, <1>10, <1>11, <1>12, SameGoroutines


\* A new CR has a uid that nobody has seen.
LEMMA CreateInv ==
    ASSUME ControllerInv, NEW n \in Names, UserCreates(n)
    PROVE  /\ TypeOK' /\ InformerInv' /\ NamesInv' /\ MapInv' /\ KnownInv' /\ FailedInv'
           /\ Reachable' /\ AcceptedInv'
<1>1. /\ TypeOK /\ InformerInv /\ NamesInv /\ MapInv /\ KnownInv /\ FailedInv /\ Reachable
      /\ AcceptedInv
  BY DEF ControllerInv
<1>2. /\ crs[n] = <<>> /\ uid < MaxUid /\ uid' = uid + 1
      /\ UNCHANGED <<store, sending, clusters, gor>>
      /\ UNCHANGED troubles \/ Trouble("haste")
  BY DEF UserCreates
<1>3. uid \in Nat /\ MaxUid \in Nat /\ uid' \in Uids /\ uid' \in 1..MaxUid /\ uid < uid'
  BY <1>1, <1>2, ControllerAssumption, SMT DEF TypeOK, Uids
<1>4. PICK f \in NewForms :
         Put([name |-> n, labels |-> f.labels, spec |-> f.spec, uid |-> uid', version |-> 1,
              phase |-> "None"])
  BY DEF UserCreates
<1> DEFINE o == [name |-> n, labels |-> f.labels, spec |-> f.spec, uid |-> uid', version |-> 1,
                 phase |-> "None"]
           d == [type |-> "put", obj |-> o]
<1>5. o \in CRs /\ o.name = n /\ o.uid = uid' /\ o.phase = "None"
  <2>1. f \in Forms  BY ControllerAssumption
  <2>2. f.labels \in Labels /\ f.spec \in Specs  BY <2>1 DEF Labels, Specs
  <2> QED  BY <1>3, <2>2 DEF CRs, Phases
<1>6. /\ crs' = [crs EXCEPT ![n] = <<o>>]
      /\ watch' = [watch EXCEPT ![n] = Append(@, d)]
  BY <1>4, <1>5 DEF Put
<1> HIDE DEF o
<1>7. d \in Events /\ d.type = "put" /\ d.obj = o  BY <1>5 DEF Events
<1>8. crs' = [crs EXCEPT ![n] = IF d.type = "put" THEN <<d.obj>> ELSE <<>>]
  BY <1>6, <1>7
<1> HIDE DEF d
<1>9. PICK owner \in [1..uid -> Names] : Named(owner)  BY <1>1 DEF NamesInv
<1>10. \A i \in DOMAIN watch[n] :
              /\ watch[n][i].obj.uid <= d.obj.uid
              /\ watch[n][i].type = "delete" => watch[n][i].obj.uid < d.obj.uid
  <2> SUFFICES ASSUME NEW i \in DOMAIN watch[n] PROVE watch[n][i].obj.uid < d.obj.uid
    <3>1. \A i \in DOMAIN watch[n] : watch[n][i].obj.uid \in Nat
      <4>1. \A i \in DOMAIN watch[n] : watch[n][i] \in Events  BY <1>1, SMT DEF TypeOK
      <4> QED  BY <4>1, SMT DEF Events, CRs, Uids
    <3> QED  BY <1>3, <1>5, <1>7, <3>1, SMT
  <2>1. watch[n][i].obj \in Seen(n)  BY DEF Seen
  <2>2. watch[n][i].obj.uid <= uid  BY <1>9, <2>1 DEF Named
  <2>3. watch[n][i].obj.uid \in Nat
    <3>1. watch[n][i] \in Events  BY <1>1, SMT DEF TypeOK
    <3> QED  BY <3>1, SMT DEF Events, CRs, Uids
  <2> QED  BY <1>2, <1>3, <1>5, <1>7, <2>2, <2>3, SMT
<1>11. d.obj.phase # "Failed"  BY <1>5, <1>7
<1>12. /\ InformerInv'
       /\ crs' \in [Names -> Seq(CRs)] /\ watch' \in [Names -> Seq(Events)]
       /\ \A m \in Names : Len(crs'[m]) <= 1 /\ Seen(m)' \subseteq Seen(m) \union {o}
       /\ \A m \in Names \ {n} : Seen(m)' = Seen(m)
  <2>1. UNCHANGED <<store, clusters>>  BY <1>2
  <2> QED  BY <1>1, <1>6, <1>7, <1>8, <1>10, <1>11, <2>1, AppendInformed
<1>13. TypeOK'
  <2>1. uid' \in 0..MaxUid  BY <1>3, SMT
  <2>2. "haste" \in Troubles  BY DEF Troubles
  <2>3. troubles' \subseteq Troubles  BY <1>1, <1>2, <2>2, TroubleIs DEF TypeOK
  <2> QED  BY <1>1, <1>2, <1>12, <2>1, <2>3, TypeStays
<1>14. \A v \in Uids : Live(v)' = Live(v) /\ NameOf(v)' = NameOf(v) /\ Known(v)' = Known(v)
  BY <1>2 DEF Live, NameOf, Known
<1>15. \A v \in Uids : Live(v) =>
          NameOf(v) \in Names /\ \A k \in Known(v) : k \in 1..uid /\ k < uid'
  <2> SUFFICES ASSUME NEW v \in Uids, Live(v)
               PROVE  NameOf(v) \in Names /\ \A k \in Known(v) : k \in 1..uid /\ k < uid'
    OBVIOUS
  <2>1. gor[v].rss \in CRs /\ gor[v].eventCh \in Seq(CRs)  BY <1>1 DEF TypeOK, Goroutines
  <2>2. NameOf(v) \in Names /\ gor[v].rss.uid \in Uids  BY <2>1 DEF NameOf, CRs
  <2>3. \A i \in DOMAIN gor[v].eventCh : gor[v].eventCh[i].uid \in Uids
    <3>1. \A i \in DOMAIN gor[v].eventCh : gor[v].eventCh[i] \in CRs  BY <2>1, SMT
    <3> QED  BY <3>1 DEF CRs
  <2>4. \A k \in Known(v) : k \in Uids  BY <2>2, <2>3 DEF Known
  <2>5. \A k \in Known(v) : k <= uid  BY <1>9 DEF Named
  <2> QED  BY <1>2, <1>3, <2>2, <2>4, <2>5, SMT DEF Uids
<1>16. \A m \in Names : \A p \in Seen(m) : p.uid \in 1..uid /\ p.name = m
  <2> SUFFICES ASSUME NEW m \in Names, NEW p \in Seen(m) PROVE p.uid \in 1..uid /\ p.name = m
    OBVIOUS
  <2>1. p \in CRs  BY <1>1, SeenAreCRs
  <2>2. p.uid \in Uids  BY <2>1 DEF CRs
  <2> QED  BY <1>3, <1>9, <2>2, SMT DEF Named, Uids
<1>17. NamesInv'
  <2>1. PICK new \in [1..uid' -> Names] :
           new[uid'] = n /\ \A i \in 1..uid : new[i] = owner[i] /\ i <= uid'
    <3> DEFINE w == [i \in 1..uid' |-> IF i = uid' THEN n ELSE owner[i]]
    <3>1. /\ w \in [1..uid' -> Names] /\ w[uid'] = n
          /\ \A i \in 1..uid : w[i] = owner[i] /\ i <= uid'
      BY <1>2, <1>3, SMT
    <3> HIDE DEF w
    <3> QED  BY <3>1
  <2>2. ASSUME NEW m \in Names
        PROVE  \A p \in Seen(m)' : p.name = m /\ p.uid <= uid' /\ new[p.uid] = m
    <3> SUFFICES ASSUME NEW p \in Seen(m)'
                 PROVE  p.name = m /\ p.uid <= uid' /\ new[p.uid] = m
      OBVIOUS
    <3>1. CASE p \in Seen(m)  BY <1>9, <1>16, <2>1, <3>1 DEF Named
    <3>2. CASE p \notin Seen(m)
      <4>1. p = o /\ m = n  BY <1>12, <3>2
      <4> QED  BY <1>3, <1>5, <2>1, <4>1, SMT
    <3> QED  BY <3>1, <3>2
  <2>3. ASSUME NEW m \in Names, clusters[m] # 0
        PROVE  clusters[m] <= uid' /\ new[clusters[m]] = m
    <3>1. clusters[m] \in 0..MaxUid /\ clusters[m] <= uid  BY <1>1, <1>9, <2>3 DEF TypeOK, Named
    <3>2. clusters[m] \in 1..uid  BY <1>3, <2>3, <3>1, SMT
    <3> QED  BY <1>9, <2>1, <2>3, <3>2 DEF Named
  <2>4. ASSUME NEW v \in Uids, Live(v)
        PROVE  /\ \A k \in Known(v) : k <= uid' /\ new[k] = NameOf(v)
               /\ \A i \in DOMAIN gor[v].eventCh : gor[v].eventCh[i].name = NameOf(v)
    BY <1>9, <1>15, <2>1, <2>4 DEF Named
  <2>5. sending # <<>> => sending[1].uid <= uid' /\ new[sending[1].uid] = sending[1].name
    <3> SUFFICES ASSUME sending # <<>>
                 PROVE  sending[1].uid <= uid' /\ new[sending[1].uid] = sending[1].name
      OBVIOUS
    <3>1. sending[1].uid \in Uids  BY <1>1, SendingIs
    <3>2. sending[1].uid <= uid /\ owner[sending[1].uid] = sending[1].name  BY <1>9 DEF Named
    <3>3. sending[1].uid \in 1..uid  BY <1>3, <3>1, <3>2, SMT DEF Uids
    <3> QED  BY <2>1, <3>2, <3>3
  <2>6. Named(new)'  BY <1>2, <1>14, <2>2, <2>3, <2>4, <2>5, SMT DEF Named
  <2> QED  BY <2>1, <2>6 DEF NamesInv
<1>18. KnownInv'
  <2>1. ASSUME NEW v \in Uids, Live(v), NEW p \in Seen(NameOf(v))', NEW k \in Known(v)
        PROVE  k <= p.uid /\ (gor[v].stop => k < p.uid)
    <3>1. PICK m \in Names : m = NameOf(v)  BY <1>15, <2>1
    <3>2. Seen(NameOf(v))' = Seen(m)'  BY <1>14, <3>1 DEF Seen
    <3>3. CASE p \in Seen(m)  BY <1>1, <2>1, <3>1, <3>3 DEF KnownInv
    <3>4. CASE p \notin Seen(m)
      <4>1. p = o  BY <1>12, <2>1, <3>2, <3>4, SMT
      <4> QED  BY <1>3, <1>5, <1>15, <2>1, <4>1, SMT
    <3> QED  BY <3>3, <3>4
  <2>2. ASSUME sending # <<>>, NEW p \in Seen(sending[1].name)'
        PROVE  sending[1].uid <= p.uid
    <3>1. PICK m \in Names : m = sending[1].name  BY <1>1, <2>2, SendingIs
    <3>2. Seen(sending[1].name)' = Seen(m)'  BY <1>2, <3>1 DEF Seen
    <3>3. CASE p \in Seen(m)  BY <1>1, <2>2, <3>1, <3>3 DEF KnownInv
    <3>4. CASE p \notin Seen(m)
      <4>1. p = o  BY <1>12, <2>2, <3>2, <3>4
      <4>2. sending[1].uid \in Nat  BY <1>1, <2>2, SendingIs, SMT DEF Uids
      <4>3. sending[1].uid <= uid  BY <1>9, <2>2 DEF Named
      <4> QED  BY <1>2, <1>3, <1>5, <4>1, <4>2, <4>3, SMT
    <3> QED  BY <3>3, <3>4
  <2> QED  BY <1>2, <1>14, <2>1, <2>2 DEF KnownInv
<1>19. FailedInv'
  <2>1. \A m \in Names : \A p \in Seen(m)' : p.phase = "Failed" => p \in Seen(m)
    BY <1>5, <1>12
  <2> QED  BY <1>1, <1>2, <1>14, <2>1 DEF FailedInv
<1>20. MapInv' /\ Reachable' /\ AcceptedInv'
  BY <1>1, <1>2, <1>14 DEF MapInv, Reachable, AcceptedInv
<1> QED  BY <1>12, <1>13, <1>17, <1>18, <1>19, <1>20

\* A list says what is there, and what is no longer.
LEMMA RelistInv ==
    ASSUME ControllerInv, Relist
    PROVE  /\ TypeOK' /\ InformerInv' /\ NamesInv' /\ MapInv' /\ KnownInv' /\ FailedInv'
           /\ Reachable' /\ AcceptedInv'
<1> USE DEF ControllerInv
<1> DEFINE e(n) == IF crs[n] # <<>> THEN <<[type |-> "put", obj |-> crs[n][1]]>>
                   ELSE IF store[n] # <<>> THEN <<[type |-> "delete", obj |-> store[n][1]]>>
                   ELSE <<>>
<1>1. /\ Trouble("list") /\ UNCHANGED <<crs, uid, store, sending, clusters, gor>>
      /\ watch' = [n \in Names |-> e(n)]
  BY DEF Relist
<1>2. ASSUME NEW n \in Names
      PROVE  /\ e(n) \in Seq(Events) /\ Len(e(n)) <= 1
             /\ \A i \in DOMAIN e(n) : e(n)[i].obj \in Seen(n)
             /\ IF e(n) = <<>> THEN store[n] = crs[n]
                ELSE crs[n] = IF e(n)[Len(e(n))].type = "put" THEN <<e(n)[Len(e(n))].obj>>
                              ELSE <<>>
  <2>1. CASE crs[n] # <<>>
    <3> DEFINE d == [type |-> "put", obj |-> crs[n][1]]
    <3>1. e(n) = <<d>>  BY <2>1
    <3>2. d \in Events /\ d.type = "put" /\ d.obj \in Seen(n) /\ crs[n] = <<d.obj>>
      BY <2>1, TheCR DEF Events
    <3> HIDE DEF d, e
    <3> QED  BY <3>1, <3>2, SMT
  <2>2. CASE crs[n] = <<>> /\ store[n] # <<>>
    <3> DEFINE d == [type |-> "delete", obj |-> store[n][1]]
    <3>1. e(n) = <<d>>  BY <2>2
    <3>2. d \in Events /\ d.type = "delete" /\ d.obj \in Seen(n)
      BY <2>2, TheCR DEF Events
    <3> HIDE DEF d, e
    <3> QED  BY <2>2, <3>1, <3>2, SMT
  <2>3. CASE crs[n] = <<>> /\ store[n] = <<>>
    <3>1. e(n) = <<>>  BY <2>3
    <3> HIDE DEF e
    <3> QED  BY <2>3, <3>1, SMT
  <2> QED  BY <2>1, <2>2, <2>3
<1> HIDE DEF e
<1>3. watch' \in [Names -> Seq(Events)] /\ \A n \in Names : watch'[n] = e(n)  BY <1>1, <1>2
<1>4. ASSUME NEW n \in Names
      PROVE  Informed(n)' /\ InOrder(watch[n])' /\ FailedLast(n)'
  <2>1. Informed(n)'  BY <1>1, <1>2, <1>3 DEF Informed
  <2>2. \A i, j \in DOMAIN e(n) : ~(i < j)  BY <1>2, ShortInOrder
  <2> QED  BY <1>3, <2>1, <2>2 DEF InOrder, FailedLast
<1>5. \A n \in Names : Seen(n)' \subseteq Seen(n)
  <2> SUFFICES ASSUME NEW n \in Names, NEW o \in Seen(n)' PROVE o \in Seen(n)
    OBVIOUS
  <2>1. \/ \E i \in DOMAIN crs[n] : o = crs[n][i]
        \/ \E i \in DOMAIN store[n] : o = store[n][i]
        \/ \E i \in DOMAIN e(n) : o = e(n)[i].obj
    BY <1>1, <1>3 DEF Seen
  <2>2. CASE \E i \in DOMAIN e(n) : o = e(n)[i].obj  BY <1>2, <2>2
  <2> QED  BY <2>1, <2>2 DEF Seen
<1>6. \A m \in Names : \A p \in Seen(m) : p.name = m  BY DEF NamesInv, Named
<1>7. TypeOK'
  <2>1. "list" \in Troubles  BY DEF Troubles
  <2>2. troubles' \subseteq Troubles  BY <1>1, <2>1, TroubleIs
  <2>3. uid' \in 0..MaxUid /\ crs' \in [Names -> Seq(CRs)] /\ \A n \in Names : Len(crs'[n]) <= 1
    BY <1>1 DEF TypeOK
  <2> QED  BY <1>1, <1>3, <2>2, <2>3, TypeStays
<1>8. InformerInv'  BY <1>4 DEF InformerInv
<1> QED  BY <1>1, <1>5, <1>6, <1>7, <1>8, SameGoroutines


\* Nothing that is known changes.
LEMMA StutterInv ==
    ASSUME ControllerInv, UNCHANGED <<crs, uid, informer, clusters, gor, troubles>>
    PROVE  /\ TypeOK' /\ InformerInv' /\ NamesInv' /\ MapInv' /\ KnownInv' /\ FailedInv'
           /\ Reachable' /\ AcceptedInv'
<1> USE DEF ControllerInv
<1>1. UNCHANGED <<crs, uid, watch, store, sending, clusters, gor, troubles>>  BY DEF informer
<1>2. TypeOK'  BY <1>1 DEF TypeOK, Live
<1>3. InformerInv'  BY <1>1 DEF InformerInv, Informed, FailedLast
<1>4. \A n \in Names : Seen(n)' = Seen(n)  BY <1>1 DEF Seen
<1>5. \A n \in Names : \A p \in Seen(n) : p.name = n  BY DEF NamesInv, Named
<1> QED  BY <1>1, <1>2, <1>3, <1>4, <1>5, SameGoroutines

\* After a restart there are no goroutines, and the list is all that is known.
LEMMA RestartInv ==
    ASSUME ControllerInv, Restarted, troubles' \subseteq Troubles
    PROVE  /\ TypeOK' /\ InformerInv' /\ NamesInv' /\ MapInv' /\ KnownInv' /\ FailedInv'
           /\ Reachable' /\ AcceptedInv'
<1> USE DEF ControllerInv
<1> DEFINE e(n) == IF crs[n] = <<>> THEN <<>> ELSE <<[type |-> "put", obj |-> crs[n][1]]>>
<1>1. /\ watch' = [n \in Names |-> e(n)] /\ store' = [n \in Names |-> <<>>] /\ sending' = <<>>
      /\ clusters' = [n \in Names |-> 0] /\ gor' = [u \in Uids |-> NoGoroutine]
      /\ UNCHANGED <<crs, uid>>
  BY DEF Restarted
<1>2. ASSUME NEW n \in Names
      PROVE  /\ e(n) \in Seq(Events) /\ Len(e(n)) <= 1
             /\ \A i \in DOMAIN e(n) : e(n)[i].obj \in Seen(n)
             /\ IF e(n) = <<>> THEN crs[n] = <<>>
                ELSE crs[n] = IF e(n)[Len(e(n))].type = "put" THEN <<e(n)[Len(e(n))].obj>>
                              ELSE <<>>
  <2>1. CASE crs[n] # <<>>
    <3> DEFINE d == [type |-> "put", obj |-> crs[n][1]]
    <3>1. e(n) = <<d>>  BY <2>1
    <3>2. d \in Events /\ d.type = "put" /\ d.obj \in Seen(n) /\ crs[n] = <<d.obj>>
      BY <2>1, TheCR DEF Events
    <3> HIDE DEF d, e
    <3> QED  BY <3>1, <3>2, SMT
  <2>2. CASE crs[n] = <<>>
    <3>1. e(n) = <<>>  BY <2>2
    <3> HIDE DEF e
    <3> QED  BY <2>2, <3>1, SMT
  <2> QED  BY <2>1, <2>2
<1> HIDE DEF e
<1>3. /\ watch' \in [Names -> Seq(Events)] /\ \A n \in Names : watch'[n] = e(n)
      /\ \A n \in Names : store'[n] = <<>> /\ clusters'[n] = 0
      /\ \A u \in Uids : gor'[u] = NoGoroutine
  BY <1>1, <1>2
<1>4. InformerInv'
  <2> SUFFICES ASSUME NEW n \in Names
               PROVE  Informed(n)' /\ InOrder(watch[n])' /\ FailedLast(n)'
    BY DEF InformerInv
  <2>1. Informed(n)'  BY <1>1, <1>2, <1>3 DEF Informed
  <2>2. \A i, j \in DOMAIN e(n) : ~(i < j)  BY <1>2, ShortInOrder
  <2> QED  BY <1>3, <2>1, <2>2 DEF InOrder, FailedLast
<1>5. \A n \in Names : Seen(n)' \subseteq Seen(n)
  <2> SUFFICES ASSUME NEW n \in Names, NEW o \in Seen(n)' PROVE o \in Seen(n)
    OBVIOUS
  <2>1. \/ \E i \in DOMAIN crs[n] : o = crs[n][i]
        \/ \E i \in DOMAIN e(n) : o = e(n)[i].obj
    BY <1>1, <1>3, SMT DEF Seen
  <2>2. CASE \E i \in DOMAIN e(n) : o = e(n)[i].obj  BY <1>2, <2>2
  <2> QED  BY <2>1, <2>2 DEF Seen
<1>6. \A u \in Uids : ~Live(u)' /\ gor'[u] \in Goroutines /\ Len(gor'[u].eventCh) <= EventCap
  <2>1. NoGoroutine \in Goroutines /\ NoGoroutine.pc = "none" /\ Len(NoGoroutine.eventCh) = 0
    BY NoGoroutineRecord
  <2> QED  BY <1>3, <2>1, ControllerAssumption, SMT DEF Live
<1>7. TypeOK'
  <2>1. /\ store' \in [Names -> Seq(CRs)] /\ sending' \in Seq(CRs) /\ Len(sending') <= 1
        /\ \A n \in Names : Len(store'[n]) <= 1
    BY <1>1, SMT
  <2>2. clusters' \in [Names -> 0..MaxUid]  BY <1>1, ControllerAssumption, SMT
  <2>3. gor' \in [Uids -> Goroutines]  BY <1>1, <1>3, <1>6
  <2> QED  BY <1>1, <1>3, <1>6, <2>1, <2>2, <2>3 DEF TypeOK
<1>8. NamesInv'
  <2>1. PICK owner \in [1..uid -> Names] : Named(owner)  BY DEF NamesInv
  <2>2. Named(owner)'  BY <1>1, <1>3, <1>5, <1>6, <2>1 DEF Named
  <2> QED  BY <1>1, <2>2 DEF NamesInv
<1>9. MapInv' /\ KnownInv' /\ FailedInv' /\ Reachable' /\ AcceptedInv'
  BY <1>1, <1>3, <1>6 DEF MapInv, KnownInv, FailedInv, Reachable, AcceptedInv
<1> QED  BY <1>4, <1>7, <1>8, <1>9


----------------------------------------------------------------------------
(***************************************************************************)
(* Events reach the controller.                                            *)
(***************************************************************************)

\* An event is taken from the informer's queue: what remains is no older, and newer
\* if the event was that the CR is deleted.
LEMMA Delivered ==
    ASSUME TypeOK, InformerInv, NamesInv, NEW n \in Names, watch[n] # <<>>, UNCHANGED crs,
           watch' = [watch EXCEPT ![n] = Tail(@)],
           store' = [store EXCEPT ![n] = IF Head(watch[n]).type = "put"
                                         THEN <<Head(watch[n]).obj>> ELSE <<>>],
           \A m \in Names : clusters[m] # 0 =>
              clusters'[m] # 0 \/ (m = n /\ Head(watch[n]).type = "delete")
    PROVE  LET d == Head(watch[n])
               o == d.obj
           IN  /\ InformerInv'
               /\ watch' \in [Names -> Seq(Events)] /\ store' \in [Names -> Seq(CRs)]
               /\ \A m \in Names : Len(store'[m]) <= 1 /\ Seen(m)' \subseteq Seen(m)
               /\ o \in CRs /\ o \in Seen(n) /\ o.name = n
               /\ \A p \in Seen(n)' : o.uid <= p.uid /\ (d.type = "delete" => o.uid < p.uid)
               /\ d.type = "delete" \/ (clusters[n] = 0 /\ o.phase # "Failed") =>
                     \A p \in Seen(n)' : p.phase # "Failed"
<1> DEFINE w == watch[n]
           t == Tail(w)
           d == Head(w)
           o == d.obj
           s == IF d.type = "put" THEN <<o>> ELSE <<>>
<1>1. w \in Seq(Events) /\ InOrder(w) /\ FailedLast(n) /\ Informed(n)
  BY DEF TypeOK, InformerInv
<1>2. /\ t \in Seq(Events) /\ DOMAIN t = 1..Len(t) /\ Len(t) = Len(w) - 1 /\ Len(w) \in Nat
      /\ \A i \in DOMAIN t : t[i] = w[i + 1] /\ i + 1 \in DOMAIN w /\ i \in Nat /\ 1 < i + 1
      /\ 1 \in DOMAIN w /\ d = w[1] /\ d \in Events /\ w # <<>>
      /\ t # <<>> => Len(t) \in DOMAIN t
  BY <1>1, SMT
<1>3. /\ InOrder(t)
      /\ \A i \in DOMAIN t : /\ o.uid <= t[i].obj.uid
                             /\ d.type = "delete" => o.uid < t[i].obj.uid
  BY <1>1, InOrderTail
<1>4. /\ o \in CRs /\ o.uid \in Nat /\ d.type \in {"put", "delete"}
      /\ s \in Seq(CRs) /\ Len(s) <= 1 /\ (\A i \in DOMAIN s : s[i] = o)
      /\ d.type = "delete" => s = <<>>
  <2>1. o \in CRs /\ d.type \in {"put", "delete"}  BY <1>2 DEF Events
  <2>2. o.uid \in Nat  BY <2>1, SMT DEF CRs, Uids
  <2> HIDE DEF o, d
  <2> QED  BY <2>1, <2>2, SMT
<1>5. o \in Seen(n) /\ o.name = n
  <2>1. o \in Seen(n)  BY <1>2 DEF Seen
  <2> QED  BY <2>1 DEF NamesInv, Named
<1>6. watch' = [watch EXCEPT ![n] = t] /\ store' = [store EXCEPT ![n] = s]
  OBVIOUS
<1> HIDE DEF t, s
<1>7. /\ watch' \in [Names -> Seq(Events)] /\ store' \in [Names -> Seq(CRs)]
      /\ watch'[n] = t /\ store'[n] = s
      /\ \A m \in Names \ {n} : watch'[m] = watch[m] /\ store'[m] = store[m]
  BY <1>2, <1>4, <1>6, SMT DEF TypeOK
<1>8. \A m \in Names : Len(store'[m]) <= 1  BY <1>4, <1>7 DEF TypeOK
<1>9. \A m \in Names \ {n} : Seen(m)' = Seen(m)  BY <1>7, SMT DEF Seen
<1>10. ASSUME NEW p \in Seen(n)'
       PROVE  \/ crs[n] # <<>> /\ p = crs[n][1] /\ p \in Seen(n)
              \/ p = o /\ d.type = "put"
              \/ \E i \in DOMAIN t : p = t[i].obj
  <2>1. \/ \E i \in DOMAIN crs[n] : p = crs[n][i]
        \/ \E i \in DOMAIN s : p = s[i]
        \/ \E i \in DOMAIN t : p = t[i].obj
    BY <1>7, SMT DEF Seen
  <2>2. CASE \E i \in DOMAIN crs[n] : p = crs[n][i]
    <3>1. crs[n] \in Seq(CRs) /\ Len(crs[n]) <= 1  BY DEF TypeOK
    <3>2. crs[n] # <<>>  BY <2>2, <3>1, SMT
    <3>3. p = crs[n][1]  BY <2>2, <3>1, <3>2, Single
    <3> QED  BY <3>2, <3>3, TheCR
  <2>3. CASE \E i \in DOMAIN s : p = s[i]
    <3>1. s # <<>>  BY <2>3, SMT
    <3> QED  BY <1>4, <2>3, <3>1
  <2> QED  BY <2>1, <2>2, <2>3
<1>11. Seen(n)' \subseteq Seen(n)
  <2> SUFFICES ASSUME NEW p \in Seen(n)' PROVE p \in Seen(n)
    OBVIOUS
  <2>1. ASSUME NEW i \in DOMAIN t, p = t[i].obj PROVE p \in Seen(n)
    <3>1. i + 1 \in DOMAIN w /\ p = w[i + 1].obj  BY <1>2, <2>1
    <3> QED  BY <3>1 DEF Seen
  <2> QED  BY <1>5, <1>10, <2>1
<1>12. ASSUME NEW p \in Seen(n)'
       PROVE  o.uid <= p.uid /\ (d.type = "delete" => o.uid < p.uid)
  <2>1. CASE crs[n] # <<>> /\ p = crs[n][1]  BY <1>2, <2>1, CurrentIsLast
  <2>2. CASE p = o /\ d.type = "put"  BY <1>4, <2>2, SMT
  <2>3. CASE \E i \in DOMAIN t : p = t[i].obj  BY <1>3, <2>3
  <2> QED  BY <1>10, <2>1, <2>2, <2>3
<1>13. ASSUME d.type = "delete" \/ (clusters[n] = 0 /\ o.phase # "Failed"), NEW p \in Seen(n)'
       PROVE  p.phase # "Failed"
  <2> SUFFICES ASSUME p.phase = "Failed" PROVE FALSE
    OBVIOUS
  <2>1. CASE crs[n] # <<>> /\ p = crs[n][1]
    <3>1. w[1].type = "put" /\ (w[1].obj.phase = "Failed" \/ clusters[n] # 0)
      BY <1>2, <2>1, FailedBehind
    <3> QED  BY <1>2, <1>13, <3>1
  <2>2. CASE p = o /\ d.type = "put"  BY <1>13, <2>2
  <2>3. CASE \E i \in DOMAIN t : p = t[i].obj
    <3>1. PICK i \in DOMAIN t : p = t[i].obj  BY <2>3
    <3>2. i + 1 \in DOMAIN w /\ w[i + 1].obj.phase = "Failed" /\ 1 < i + 1  BY <1>2, <3>1
    <3>3. w[1].type = "put" /\ (w[1].obj.phase = "Failed" \/ clusters[n] # 0)
      BY <1>1, <1>2, <3>2 DEF FailedLast
    <3> QED  BY <1>2, <1>13, <3>3
  <2> QED  BY <1>10, <2>1, <2>2, <2>3
<1>14. Informed(n)'
  <2>1. crs[n] = IF w[Len(w)].type = "put" THEN <<w[Len(w)].obj>> ELSE <<>>
    BY <1>1, <1>2 DEF Informed
  <2>2. CASE t = <<>>
    <3>1. Len(w) = 1  BY <1>2, <2>2, SMT
    <3>2. crs[n] = s  BY <1>2, <2>1, <3>1 DEF s
    <3> QED  BY <1>7, <2>2, <3>2 DEF Informed
  <2>3. CASE t # <<>>
    <3>1. t[Len(t)] = w[Len(w)]  BY <1>2, <2>3, SMT
    <3> QED  BY <1>7, <2>1, <2>3, <3>1 DEF Informed
  <2> QED  BY <2>2, <2>3
<1>15. FailedLast(n)'
  <2> SUFFICES ASSUME NEW i \in DOMAIN t, NEW j \in DOMAIN t, i < j, t[j].obj.phase = "Failed"
               PROVE  t[i].type = "put" /\ (t[i].obj.phase = "Failed" \/ clusters'[n] # 0)
    BY <1>7 DEF FailedLast
  <2>1. /\ i + 1 \in DOMAIN w /\ j + 1 \in DOMAIN w /\ i + 1 < j + 1
        /\ t[i] = w[i + 1] /\ w[j + 1].obj.phase = "Failed" /\ 1 < j + 1
    BY <1>2, SMT
  <2>2. t[i].type = "put" /\ (t[i].obj.phase = "Failed" \/ clusters[n] # 0)
    BY <1>1, <2>1 DEF FailedLast
  <2>3. d.type = "put"  BY <1>1, <1>2, <2>1 DEF FailedLast
  <2> QED  BY <2>2, <2>3
<1>16. ASSUME NEW m \in Names \ {n}
       PROVE  Informed(m)' /\ InOrder(watch[m])' /\ FailedLast(m)'
  BY <1>7, SMT DEF InformerInv, Informed, FailedLast
<1>17. InformerInv'  BY <1>3, <1>7, <1>14, <1>15, <1>16 DEF InformerInv
<1> QED  BY <1>4, <1>5, <1>7, <1>8, <1>9, <1>11, <1>12, <1>13, <1>17, SMT


\* What the controller may do about an event for o: the goroutine-related state after
\* it, given that the CRs heard of are no more than before and none of this name is
\* older than o.
Handles(n, o) ==
    /\ UNCHANGED uid /\ o \in CRs /\ o.name = n
    /\ \A m \in Names : Seen(m)' \subseteq Seen(m)
    /\ \A p \in Seen(n)' : o.uid <= p.uid
    /\ \A owner \in [1..uid -> Names] : Named(owner) => o.uid <= uid /\ owner[o.uid] = n

\* An event is sent to the goroutine in the map.
LEMMA SendInv ==
    ASSUME ControllerInv, NEW n \in Names, NEW o, Handles(n, o), clusters[n] # 0,
           Len(gor[clusters[n]].eventCh) < EventCap, Send(clusters[n], o),
           UNCHANGED clusters, sending' = <<>>, Unreserved(o)
    PROVE  /\ gor' \in [Uids -> Goroutines]
           /\ \A v \in Uids : /\ Live(v)' => gor'[v].rss \in CRs
                              /\ Len(gor'[v].eventCh) <= EventCap
           /\ NamesInv' /\ MapInv' /\ KnownInv' /\ FailedInv' /\ Reachable' /\ AcceptedInv'
<1>1. /\ TypeOK /\ NamesInv /\ MapInv /\ KnownInv /\ FailedInv /\ Reachable /\ AcceptedInv
  BY DEF ControllerInv
<1>2. PICK u \in Uids : u = clusters[n]  BY <1>1, SMT DEF TypeOK, Uids
<1> DEFINE q == gor[u].eventCh
           a == Append(q, o)
<1>3. /\ UNCHANGED uid /\ o \in CRs /\ o.name = n
      /\ \A m \in Names : Seen(m)' \subseteq Seen(m)
      /\ \A p \in Seen(n)' : o.uid <= p.uid
  BY DEF Handles
<1>4. gor[u] \in Goroutines /\ q \in Seq(CRs)  BY <1>1 DEF TypeOK, Goroutines
<1>5. /\ a \in Seq(CRs) /\ Len(a) <= EventCap
      /\ \A i \in DOMAIN a : a[i] = o \/ \E j \in DOMAIN q : a[i] = q[j]
  <2>1. /\ a \in Seq(CRs) /\ Len(a) = Len(q) + 1 /\ Len(q) \in Nat
        /\ \A i \in DOMAIN a : (i \in DOMAIN q /\ a[i] = q[i]) \/ a[i] = o
    BY <1>3, <1>4, SMT
  <2> QED  BY <1>2, <2>1, ControllerAssumption, SMT
<1>6. gor' = [gor EXCEPT ![u].eventCh = a]  BY <1>2 DEF Send
<1> HIDE DEF a
<1>7. /\ gor' \in [Uids -> Goroutines] /\ \A v \in Uids \ {u} : gor'[v] = gor[v]
      /\ gor'[u].eventCh = a /\ gor'[u].pc = gor[u].pc /\ gor'[u].rss = gor[u].rss
      /\ gor'[u].stop = gor[u].stop /\ gor'[u].phase = gor[u].phase
  <2> DEFINE g == [gor[u] EXCEPT !.eventCh = a]
  <2>1. /\ g \in Goroutines /\ g.eventCh = a /\ g.pc = gor[u].pc /\ g.rss = gor[u].rss
        /\ g.stop = gor[u].stop /\ g.phase = gor[u].phase
    BY <1>4, <1>5 DEF Goroutines
  <2>2. gor' = [gor EXCEPT ![u] = g]  BY <1>6
  <2> HIDE DEF g
  <2> QED  BY <1>1, <2>1, <2>2 DEF TypeOK
<1>8. \A v \in Uids : /\ Live(v)' = Live(v) /\ NameOf(v)' = NameOf(v)
                      /\ gor'[v].stop = gor[v].stop /\ gor'[v].phase = gor[v].phase
                      /\ gor'[v].pc = gor[v].pc /\ gor'[v].rss = gor[v].rss
  BY <1>7 DEF Live, NameOf
<1>9. /\ \A v \in Uids \ {u} : Known(v)' = Known(v)
      /\ Known(u)' \subseteq Known(u) \union {o.uid}
  <2>1. \A v \in Uids \ {u} : Known(v)' = Known(v)  BY <1>7 DEF Known
  <2> SUFFICES ASSUME NEW k \in Known(u)' PROVE k \in Known(u) \/ k = o.uid
    BY <2>1
  <2>2. k = u \/ k = gor[u].rss.uid \/ \E i \in DOMAIN a : k = a[i].uid
    BY <1>7 DEF Known
  <2> QED  BY <1>5, <2>2 DEF Known
<1>10. \A v \in Uids : (Live(v)' => gor'[v].rss \in CRs) /\ Len(gor'[v].eventCh) <= EventCap
  BY <1>1, <1>5, <1>7, <1>8 DEF TypeOK
<1>11. PICK owner \in [1..uid -> Names] : Named(owner)  BY <1>1 DEF NamesInv
<1>12. o.uid <= uid /\ owner[o.uid] = n  BY <1>11 DEF Handles
<1>13. Live(u) => NameOf(u) = n
  <2>1. owner[u] = n  BY <1>2, <1>11 DEF Named
  <2>2. u \in Known(u)  BY DEF Known
  <2> QED  BY <1>11, <2>1, <2>2 DEF Named
<1>14. NamesInv'
  <2>1. ASSUME NEW v \in Uids, Live(v)
        PROVE  /\ \A k \in Known(v)' : k <= uid /\ owner[k] = NameOf(v)
               /\ \A i \in DOMAIN gor'[v].eventCh : gor'[v].eventCh[i].name = NameOf(v)
    <3>1. CASE v # u  BY <1>7, <1>9, <1>11, <2>1, <3>1, SMT DEF Named
    <3>2. CASE v = u
      <4>1. \A k \in Known(v) : k <= uid /\ owner[k] = NameOf(v)
        BY <1>11, <2>1 DEF Named
      <4>2. \A i \in DOMAIN q : q[i].name = NameOf(v)  BY <1>11, <2>1, <3>2 DEF Named
      <4> QED  BY <1>3, <1>5, <1>7, <1>9, <1>12, <1>13, <2>1, <3>2, <4>1, <4>2, SMT
    <3> QED  BY <3>1, <3>2
  <2>2. Named(owner)'  BY <1>3, <1>8, <1>11, <2>1, SMT DEF Named
  <2> QED  BY <1>3, <2>2 DEF NamesInv
<1>15. MapInv'
  <2>1. \A m \in Names : clusters[m] # 0 => clusters[m] \in Uids  BY <1>1, SMT DEF TypeOK, Uids
  <2> QED  BY <1>1, <1>8, <2>1 DEF MapInv
<1>16. KnownInv'
  <2>1. ASSUME NEW v \in Uids, Live(v), NEW p \in Seen(NameOf(v))', NEW k \in Known(v)'
        PROVE  k <= p.uid /\ (gor[v].stop => k < p.uid)
    <3>1. NameOf(v) \in Names  BY <1>1, <2>1 DEF TypeOK, NameOf, CRs
    <3>2. PICK m \in Names : m = NameOf(v)  BY <3>1
    <3>3. Seen(NameOf(v))' = Seen(m)'  BY <1>8, <3>2, SMT DEF Seen
    <3>4. CASE k \in Known(v)  BY <1>1, <1>3, <2>1, <3>2, <3>3, <3>4 DEF KnownInv
    <3>5. CASE k \notin Known(v)
      <4>1. v = u /\ k = o.uid  BY <1>9, <2>1, <3>5
      <4>2. m = n /\ ~gor[v].stop  BY <1>1, <1>2, <1>13, <2>1, <3>2, <4>1 DEF MapInv
      <4> QED  BY <1>3, <2>1, <3>3, <4>1, <4>2
    <3> QED  BY <3>4, <3>5
  <2> QED  BY <1>8, <2>1 DEF KnownInv
<1>17. FailedInv'  BY <1>1, <1>3, <1>8, SMT DEF FailedInv
<1>18. Reachable'  BY <1>1, <1>8 DEF Reachable
<1>19. AcceptedInv'
  <2>1. ASSUME NEW v \in Uids, Live(v)
        PROVE  /\ Unreserved(gor'[v].rss)
               /\ \A i \in DOMAIN gor'[v].eventCh : Unreserved(gor'[v].eventCh[i])
    <3>1. CASE v # u  BY <1>1, <1>7, <2>1, <3>1 DEF AcceptedInv
    <3>2. CASE v = u  BY <1>1, <1>5, <1>7, <2>1, <3>2 DEF AcceptedInv
    <3> QED  BY <3>1, <3>2
  <2> QED  BY <1>8, <2>1 DEF AcceptedInv
<1> QED  BY <1>7, <1>10, <1>14, <1>15, <1>16, <1>17, <1>18, <1>19


\* An event waits for room.
LEMMA WaitInv ==
    ASSUME ControllerInv, NEW n \in Names, NEW o, Handles(n, o), clusters[n] # 0,
           UNCHANGED <<clusters, gor>>, sending' = <<o>>, Unreserved(o)
    PROVE  NamesInv' /\ MapInv' /\ KnownInv' /\ FailedInv' /\ Reachable' /\ AcceptedInv'
<1>1. /\ TypeOK /\ NamesInv /\ MapInv /\ KnownInv /\ FailedInv /\ Reachable /\ AcceptedInv
  BY DEF ControllerInv
<1>2. /\ UNCHANGED uid /\ o \in CRs /\ o.name = n
      /\ \A m \in Names : Seen(m)' \subseteq Seen(m)
      /\ \A p \in Seen(n)' : o.uid <= p.uid
  BY DEF Handles
<1>3. \A v \in Uids : Live(v)' = Live(v) /\ NameOf(v)' = NameOf(v) /\ Known(v)' = Known(v)
  BY DEF Live, NameOf, Known
<1>4. sending' # <<>> /\ sending'[1] = o  OBVIOUS
<1>5. PICK owner \in [1..uid -> Names] : Named(owner)  BY <1>1 DEF NamesInv
<1>6. o.uid <= uid /\ owner[o.uid] = n  BY <1>5 DEF Handles
<1>7. NamesInv'
  <2>1. Named(owner)'  BY <1>2, <1>3, <1>4, <1>5, <1>6, SMT DEF Named
  <2> QED  BY <1>2, <2>1 DEF NamesInv
<1>8. KnownInv'
  <2>1. ASSUME NEW v \in Uids, Live(v), NEW p \in Seen(NameOf(v))', NEW k \in Known(v)
        PROVE  k <= p.uid /\ (gor[v].stop => k < p.uid)
    <3>1. NameOf(v) \in Names  BY <1>1, <2>1 DEF TypeOK, NameOf, CRs
    <3>2. PICK m \in Names : m = NameOf(v)  BY <3>1
    <3>3. Seen(NameOf(v))' = Seen(m)'  BY <1>3, <3>2 DEF Seen
    <3> QED  BY <1>1, <1>2, <2>1, <3>2, <3>3 DEF KnownInv
  <2>2. \A p \in Seen(sending[1].name)' : sending'[1].uid <= p.uid
    <3>1. Seen(sending[1].name)' = Seen(n)'  BY <1>2, <1>4 DEF Seen
    <3> QED  BY <1>2, <1>4, <3>1
  <2> QED  BY <1>3, <2>1, <2>2 DEF KnownInv
<1>9. FailedInv' /\ Reachable'  BY <1>1, <1>2, <1>3 DEF FailedInv, Reachable
<1>10. MapInv'  BY <1>1, <1>2, <1>4 DEF MapInv
<1>11. AcceptedInv'  BY <1>1, <1>3, <1>4 DEF AcceptedInv
<1> QED  BY <1>7, <1>8, <1>9, <1>10, <1>11

\* A goroutine of the uid of a CR that is still heard of, but is not in the map, has
\* ended or was never there.
LEMMA NotLive ==
    ASSUME ControllerInv, NEW n \in Names, NEW o \in Seen(n), o.uid \in Uids, clusters[n] = 0
    PROVE  ~Live(o.uid)
<1> USE DEF ControllerInv
<1> SUFFICES ASSUME Live(o.uid) PROVE FALSE
  OBVIOUS
<1>1. PICK u \in Uids : u = o.uid  OBVIOUS
<1>2. PICK owner \in [1..uid -> Names] : Named(owner)  BY DEF NamesInv
<1>3. u \in Known(u)  BY DEF Known
<1>4. owner[u] = n /\ owner[u] = NameOf(u)  BY <1>1, <1>2, <1>3 DEF Named
<1>5. u # 0  BY SMT DEF Uids
<1>6. gor[u].stop  BY <1>1, <1>4, <1>5 DEF Reachable
<1>7. u < o.uid  BY <1>1, <1>3, <1>4, <1>6 DEF KnownInv
<1> QED  BY <1>1, <1>7, SMT DEF Uids

\* A goroutine is started.
LEMMA StartInv ==
    ASSUME ControllerInv, NEW n \in Names, NEW o, Handles(n, o), clusters[n] = 0,
           clusters' = [clusters EXCEPT ![n] = o.uid], gor' = [gor EXCEPT ![o.uid] = New(o)],
           sending = <<>>, sending' = <<>>, Unreserved(o), o.phase # "Failed",
           \A p \in Seen(n)' : p.phase # "Failed"
    PROVE  /\ gor' \in [Uids -> Goroutines] /\ clusters' \in [Names -> 0..MaxUid]
           /\ \A v \in Uids : /\ Live(v)' => gor'[v].rss \in CRs
                              /\ Len(gor'[v].eventCh) <= EventCap
           /\ NamesInv' /\ MapInv' /\ KnownInv' /\ FailedInv' /\ Reachable' /\ AcceptedInv'
<1>1. /\ TypeOK /\ NamesInv /\ MapInv /\ KnownInv /\ FailedInv /\ Reachable /\ AcceptedInv
  BY DEF ControllerInv
<1>2. /\ UNCHANGED uid /\ o \in CRs /\ o.name = n
      /\ \A m \in Names : Seen(m)' \subseteq Seen(m)
      /\ \A p \in Seen(n)' : o.uid <= p.uid
  BY DEF Handles
<1>3. PICK u \in Uids : u = o.uid  BY <1>2 DEF CRs
<1>4. /\ New(o) \in Goroutines /\ New(o).pc = "setup" /\ New(o).stop = FALSE
      /\ New(o).eventCh = <<>> /\ New(o).rss = o /\ New(o).phase = o.phase
  BY <1>2, StartedRecord
<1>5. /\ gor' \in [Uids -> Goroutines] /\ \A v \in Uids \ {u} : gor'[v] = gor[v]
      /\ gor'[u].pc = "setup" /\ ~gor'[u].stop /\ gor'[u].eventCh = <<>> /\ gor'[u].rss = o
      /\ gor'[u].phase = o.phase
  <2> HIDE DEF New
  <2>1. /\ gor' \in [Uids -> Goroutines] /\ \A v \in Uids \ {u} : gor'[v] = gor[v]
        /\ gor'[u] = New(o)
    BY <1>1, <1>3, <1>4 DEF TypeOK
  <2> QED  BY <1>4, <2>1
<1>6. /\ clusters' \in [Names -> 0..MaxUid] /\ clusters'[n] = u
      /\ \A m \in Names \ {n} : clusters'[m] = clusters[m]
  BY <1>1, <1>3, SMT DEF TypeOK, Uids
<1>7. \A v \in Uids \ {u} : Live(v)' = Live(v) /\ NameOf(v)' = NameOf(v) /\ Known(v)' = Known(v)
  BY <1>5, SMT DEF Live, NameOf, Known
<1>8. NameOf(u)' = n /\ Known(u)' = {u}
  <2>1. NameOf(u)' = n  BY <1>2, <1>5 DEF NameOf
  <2>2. DOMAIN gor'[u].eventCh = {}  BY <1>5, SMT
  <2>3. gor'[u].rss.uid = u  BY <1>3, <1>5
  <2> QED  BY <2>1, <2>2, <2>3 DEF Known
<1>9. \A v \in Uids : (Live(v)' => gor'[v].rss \in CRs) /\ Len(gor'[v].eventCh) <= EventCap
  <2>1. Len(gor'[u].eventCh) = 0  BY <1>5
  <2> QED  BY <1>1, <1>2, <1>5, <1>7, <2>1, ControllerAssumption, SMT DEF TypeOK
<1>10. PICK owner \in [1..uid -> Names] : Named(owner)  BY <1>1 DEF NamesInv
<1>11. u <= uid /\ owner[u] = n  BY <1>3, <1>10 DEF Handles
<1>12. NamesInv'
  <2>1. ASSUME NEW v \in Uids, Live(v)'
        PROVE  /\ \A k \in Known(v)' : k <= uid' /\ owner[k] = NameOf(v)'
               /\ \A i \in DOMAIN gor'[v].eventCh : gor'[v].eventCh[i].name = NameOf(v)'
    <3>1. CASE v # u  BY <1>2, <1>5, <1>7, <1>10, <2>1, <3>1, SMT DEF Named
    <3>2. CASE v = u
      <4>1. DOMAIN gor'[u].eventCh = {}  BY <1>5, SMT
      <4> QED  BY <1>2, <1>8, <1>11, <3>2, <4>1
    <3> QED  BY <3>1, <3>2
  <2>2. \A m \in Names : clusters'[m] # 0 => clusters'[m] <= uid' /\ owner[clusters'[m]] = m
    BY <1>2, <1>6, <1>10, <1>11 DEF Named
  <2>3. Named(owner)'  BY <1>2, <1>10, <2>1, <2>2 DEF Named
  <2> QED  BY <1>2, <2>3 DEF NamesInv
<1>13. MapInv'
  <2>1. \A m \in Names : clusters[m] # 0 => clusters[m] \in Uids  BY <1>1, SMT DEF TypeOK, Uids
  <2> QED  BY <1>1, <1>5, <1>6, <2>1 DEF MapInv
<1>14. KnownInv'
  <2>1. ASSUME NEW v \in Uids, Live(v)', NEW p \in Seen(NameOf(v))', NEW k \in Known(v)'
        PROVE  k <= p.uid /\ (gor'[v].stop => k < p.uid)
    <3>1. CASE v # u
      <4>1. NameOf(v) \in Names  BY <1>1, <1>7, <2>1, <3>1 DEF TypeOK, NameOf, CRs
      <4>2. PICK m \in Names : m = NameOf(v)  BY <4>1
      <4>3. Seen(NameOf(v))' = Seen(m)'  BY <1>7, <3>1, <4>2 DEF Seen
      <4> QED  BY <1>1, <1>2, <1>5, <1>7, <2>1, <3>1, <4>2, <4>3, SMT DEF KnownInv
    <3>2. CASE v = u
      <4>1. Seen(NameOf(v))' = Seen(n)'  BY <1>8, <3>2 DEF Seen
      <4> QED  BY <1>2, <1>3, <1>5, <1>8, <2>1, <3>2, <4>1, SMT
    <3> QED  BY <3>1, <3>2
  <2> QED  BY <2>1 DEF KnownInv
<1>15. FailedInv'
  <2>1. \A v \in Uids : Live(v)' /\ gor'[v].phase = "Failed" => gor'[v].pc = "failing"
    BY <1>1, <1>5, <1>7 DEF FailedInv
  <2>2. ASSUME NEW m \in Names, NEW p \in Seen(m)', p.phase = "Failed",
               NEW v \in Uids, Live(v)', NameOf(v)' = m
        PROVE  gor'[v].stop
    <3>1. m # n /\ v # u  BY <1>8, <2>2
    <3> QED  BY <1>1, <1>2, <1>5, <1>7, <2>2, <3>1 DEF FailedInv
  <2> QED  BY <2>1, <2>2 DEF FailedInv
<1>16. Reachable'
  <2> SUFFICES ASSUME NEW v \in Uids, Live(v)'
               PROVE  gor'[v].stop \/ clusters'[NameOf(v)'] = v
    BY DEF Reachable
  <2>1. CASE v = u  BY <1>6, <1>8, <2>1
  <2>2. CASE v # u
    <3>1. gor[v].stop \/ clusters[NameOf(v)] = v  BY <1>1, <1>7, <2>2 DEF Reachable
    <3>2. NameOf(v) \in Names  BY <1>1, <1>7, <2>2 DEF TypeOK, NameOf, CRs
    <3>3. v # 0  BY SMT DEF Uids
    <3> QED  BY <1>5, <1>6, <1>7, <2>2, <3>1, <3>2, <3>3
  <2> QED  BY <2>1, <2>2
<1>17. AcceptedInv'
  <2>1. DOMAIN gor'[u].eventCh = {}  BY <1>5, SMT
  <2> QED  BY <1>1, <1>5, <1>7, <2>1 DEF AcceptedInv
<1> QED  BY <1>5, <1>6, <1>9, <1>12, <1>13, <1>14, <1>15, <1>16, <1>17


\* The map forgets a CR; its goroutine, if there is one, is told to stop.
LEMMA ForgetInv ==
    ASSUME ControllerInv, NEW n \in Names, NEW o, Handles(n, o),
           clusters' = [clusters EXCEPT ![n] = 0], sending = <<>>, sending' = <<>>,
           \/ UNCHANGED gor /\ \A v \in Uids : Live(v) /\ NameOf(v) = n => gor[v].stop
           \/ clusters[n] # 0 /\ gor' = [gor EXCEPT ![clusters[n]].stop = TRUE]
                /\ \A p \in Seen(n)' : o.uid < p.uid /\ p.phase # "Failed",
           o \in Seen(n)
    PROVE  /\ gor' \in [Uids -> Goroutines] /\ clusters' \in [Names -> 0..MaxUid]
           /\ \A v \in Uids : /\ Live(v)' => gor'[v].rss \in CRs
                              /\ Len(gor'[v].eventCh) <= EventCap
           /\ NamesInv' /\ MapInv' /\ KnownInv' /\ FailedInv' /\ Reachable' /\ AcceptedInv'
<1>1. /\ TypeOK /\ NamesInv /\ MapInv /\ KnownInv /\ FailedInv /\ Reachable /\ AcceptedInv
  BY DEF ControllerInv
<1>2. /\ UNCHANGED uid /\ o \in CRs /\ o.name = n
      /\ \A m \in Names : Seen(m)' \subseteq Seen(m)
  BY DEF Handles
<1>3. /\ clusters' \in [Names -> 0..MaxUid] /\ clusters'[n] = 0
      /\ \A m \in Names \ {n} : clusters'[m] = clusters[m]
  BY <1>1, ControllerAssumption, SMT DEF TypeOK
<1>4. \A m \in Names : clusters[m] # 0 => clusters[m] \in Uids  BY <1>1, SMT DEF TypeOK, Uids
<1>5. /\ gor' \in [Uids -> Goroutines]
      /\ \A v \in Uids : /\ gor'[v].pc = gor[v].pc /\ gor'[v].rss = gor[v].rss
                         /\ gor'[v].eventCh = gor[v].eventCh /\ gor'[v].phase = gor[v].phase
                         /\ gor'[v].stop = gor[v].stop \/ (v = clusters[n] /\ gor'[v].stop)
      /\ \/ \A v \in Uids : Live(v) /\ NameOf(v) = n => gor[v].stop
         \/ \A v \in Uids : v = clusters[n] => gor'[v].stop
  <2>1. CASE UNCHANGED gor /\ \A v \in Uids : Live(v) /\ NameOf(v) = n => gor[v].stop
    BY <1>1, <2>1 DEF TypeOK
  <2>2. CASE clusters[n] # 0 /\ gor' = [gor EXCEPT ![clusters[n]].stop = TRUE]
    <3>1. PICK u \in Uids : u = clusters[n]  BY <1>4, <2>2
    <3> DEFINE g == [gor[u] EXCEPT !.stop = TRUE]
    <3>2. gor[u] \in Goroutines  BY <1>1 DEF TypeOK
    <3>3. /\ g \in Goroutines /\ g.stop = TRUE /\ g.pc = gor[u].pc /\ g.rss = gor[u].rss
          /\ g.eventCh = gor[u].eventCh /\ g.phase = gor[u].phase
      BY <3>2 DEF Goroutines
    <3>4. gor' = [gor EXCEPT ![u] = g]  BY <2>2, <3>1
    <3> HIDE DEF g
    <3>5. /\ gor' \in [Uids -> Goroutines] /\ gor'[u] = g
          /\ \A v \in Uids \ {u} : gor'[v] = gor[v]
      BY <1>1, <3>3, <3>4 DEF TypeOK
    <3> QED  BY <3>1, <3>3, <3>5
  <2> QED  BY <2>1, <2>2
<1>6. \A v \in Uids : Live(v)' = Live(v) /\ NameOf(v)' = NameOf(v) /\ Known(v)' = Known(v)
  BY <1>5, SMT DEF Live, NameOf, Known
<1>7. \A v \in Uids : (Live(v)' => gor'[v].rss \in CRs) /\ Len(gor'[v].eventCh) <= EventCap
  BY <1>1, <1>5, <1>6 DEF TypeOK
<1>8. PICK owner \in [1..uid -> Names] : Named(owner)  BY <1>1 DEF NamesInv
<1>9. \A v \in Uids : Live(v) => NameOf(v) \in Names  BY <1>1 DEF TypeOK, NameOf, CRs
<1>10. NamesInv'
  <2>1. ASSUME NEW v \in Uids, Live(v)'
        PROVE  /\ \A k \in Known(v)' : k <= uid' /\ owner[k] = NameOf(v)'
               /\ \A i \in DOMAIN gor'[v].eventCh : gor'[v].eventCh[i].name = NameOf(v)'
    BY <1>2, <1>5, <1>6, <1>8, <2>1, SMT DEF Named
  <2>2. \A m \in Names : clusters'[m] # 0 => clusters'[m] <= uid' /\ owner[clusters'[m]] = m
    BY <1>2, <1>3, <1>8 DEF Named
  <2>3. Named(owner)'  BY <1>2, <1>8, <2>1, <2>2 DEF Named
  <2> QED  BY <1>2, <2>3 DEF NamesInv
<1>11. MapInv'
  <2>1. ASSUME NEW m \in Names, clusters'[m] # 0 PROVE ~gor'[clusters'[m]].stop
    <3>1. m # n /\ clusters'[m] = clusters[m] /\ clusters[m] \in Uids  BY <1>3, <1>4, <2>1
    <3>2. clusters[m] # clusters[n]
      <4> SUFFICES ASSUME clusters[m] = clusters[n] PROVE FALSE
        OBVIOUS
      <4>1. owner[clusters[m]] = m /\ owner[clusters[n]] = n  BY <1>8, <2>1, <3>1 DEF Named
      <4> QED  BY <3>1, <4>1
    <3> QED  BY <1>1, <1>5, <2>1, <3>1, <3>2 DEF MapInv
  <2> QED  BY <2>1 DEF MapInv
<1>12. ASSUME NEW v \in Uids, Live(v), gor'[v].stop # gor[v].stop
       PROVE  /\ NameOf(v) = n /\ v = clusters[n] /\ gor'[v].stop
              /\ \A p \in Seen(n)' : o.uid < p.uid /\ p.phase # "Failed"
  <2>1. v = clusters[n] /\ gor'[v].stop  BY <1>5, <1>12
  <2>2. v # 0 /\ v \in Known(v)  BY SMT DEF Uids, Known
  <2>3. owner[v] = n /\ owner[v] = NameOf(v)  BY <1>8, <1>12, <2>1, <2>2 DEF Named
  <2>4. ~UNCHANGED gor  BY <1>12
  <2> QED  BY <2>1, <2>3, <2>4
<1>13. KnownInv'
  <2>1. ASSUME NEW v \in Uids, Live(v), NEW p \in Seen(NameOf(v))', NEW k \in Known(v)
        PROVE  k <= p.uid /\ (gor'[v].stop => k < p.uid)
    <3>1. PICK m \in Names : m = NameOf(v)  BY <1>9, <2>1
    <3>2. Seen(NameOf(v))' = Seen(m)'  BY <1>6, <3>1, SMT DEF Seen
    <3>3. p \in Seen(m)' /\ p \in Seen(m)  BY <1>2, <2>1, <3>2
    <3>4. CASE gor'[v].stop = gor[v].stop  BY <1>1, <2>1, <3>1, <3>3, <3>4 DEF KnownInv
    <3>5. CASE gor'[v].stop # gor[v].stop
      <4>1. m = n /\ o.uid < p.uid  BY <1>12, <2>1, <3>1, <3>3, <3>5
      <4>2. k <= o.uid  BY <1>1, <2>1, <3>1, <4>1 DEF KnownInv
      <4>3. k <= p.uid  BY <1>1, <2>1, <3>1, <3>3 DEF KnownInv
      <4>4. k \in Nat /\ o.uid \in Nat /\ p.uid \in Nat
        <5>1. gor[v].rss \in CRs /\ gor[v].eventCh \in Seq(CRs)
          BY <1>1, <2>1 DEF TypeOK, Goroutines
        <5>2. \A i \in DOMAIN gor[v].eventCh : gor[v].eventCh[i] \in CRs  BY <5>1, SMT
        <5>3. k \in Uids  BY <2>1, <5>1, <5>2, SMT DEF Known, CRs
        <5>4. p \in CRs  BY <1>1, <3>3, SeenAreCRs
        <5> QED  BY <1>2, <5>3, <5>4, SMT DEF CRs, Uids
      <4> QED  BY <4>1, <4>2, <4>3, <4>4, SMT
    <3> QED  BY <3>4, <3>5
  <2> QED  BY <1>6, <2>1 DEF KnownInv
<1>14. FailedInv'
  <2>1. \A v \in Uids : Live(v)' /\ gor'[v].phase = "Failed" => gor'[v].pc = "failing"
    BY <1>1, <1>5, <1>6 DEF FailedInv
  <2>2. ASSUME NEW m \in Names, NEW p \in Seen(m)', p.phase = "Failed",
               NEW v \in Uids, Live(v)', NameOf(v)' = m
        PROVE  gor'[v].stop
    <3>1. gor[v].stop  BY <1>1, <1>2, <1>6, <2>2 DEF FailedInv
    <3> QED  BY <1>5, <3>1
  <2> QED  BY <2>1, <2>2 DEF FailedInv
<1>15. Reachable'
  <2> SUFFICES ASSUME NEW v \in Uids, Live(v)'
               PROVE  gor'[v].stop \/ clusters'[NameOf(v)'] = v
    BY DEF Reachable
  <2>1. /\ Live(v) /\ NameOf(v)' = NameOf(v) /\ NameOf(v) \in Names
        /\ gor[v].stop \/ clusters[NameOf(v)] = v
    BY <1>1, <1>6, <1>9 DEF Reachable
  <2>2. CASE gor[v].stop  BY <1>5, <2>2
  <2>3. CASE NameOf(v) # n  BY <1>3, <1>5, <2>1, <2>3, SMT
  <2>4. CASE NameOf(v) = n /\ ~gor[v].stop
    <3>1. v = clusters[n]  BY <2>1, <2>4
    <3> QED  BY <1>5, <2>1, <2>4, <3>1
  <2> QED  BY <2>2, <2>3, <2>4
<1>16. AcceptedInv'  BY <1>1, <1>5, <1>6 DEF AcceptedInv
<1> QED  BY <1>3, <1>5, <1>7, <1>10, <1>11, <1>13, <1>14, <1>15, <1>16


\* TypeOK after an event was handled.
LEMMA TypeHandled ==
    ASSUME TypeOK, UNCHANGED <<crs, uid, troubles>>,
           watch' \in [Names -> Seq(Events)], store' \in [Names -> Seq(CRs)],
           \A n \in Names : Len(store'[n]) <= 1, sending' \in Seq(CRs), Len(sending') <= 1,
           clusters' \in [Names -> 0..MaxUid], gor' \in [Uids -> Goroutines],
           \A v \in Uids : (Live(v)' => gor'[v].rss \in CRs) /\ Len(gor'[v].eventCh) <= EventCap
    PROVE  TypeOK'
BY DEF TypeOK

LEMMA SameGoroutineTypes ==
    ASSUME TypeOK, UNCHANGED gor
    PROVE  /\ gor' \in [Uids -> Goroutines]
           /\ \A v \in Uids : (Live(v)' => gor'[v].rss \in CRs) /\ Len(gor'[v].eventCh) <= EventCap
BY DEF TypeOK, Live

LEMMA EmptySends == <<>> \in Seq(CRs) /\ Len(<<>>) <= 1
BY SMT

\* handleClusterEvent for a CR that exists.
LEMMA SyncInv ==
    ASSUME ControllerInv, NEW n \in Names, NEW o, Handles(n, o), sending = <<>>,
           syncEtcdClus(n, o),
           clusters[n] = 0 /\ o.phase # "Failed" => \A p \in Seen(n)' : p.phase # "Failed"
    PROVE  /\ gor' \in [Uids -> Goroutines] /\ clusters' \in [Names -> 0..MaxUid]
           /\ \A v \in Uids : /\ Live(v)' => gor'[v].rss \in CRs
                              /\ Len(gor'[v].eventCh) <= EventCap
           /\ sending' \in Seq(CRs) /\ Len(sending') <= 1
           /\ NamesInv' /\ MapInv' /\ KnownInv' /\ FailedInv' /\ Reachable' /\ AcceptedInv'
<1>1. TypeOK /\ NamesInv /\ clusters \in [Names -> 0..MaxUid]  BY DEF ControllerInv, TypeOK
<1>2. CASE UNCHANGED <<sending, clusters, gor>>
  <2>1. \A m \in Names : \A p \in Seen(m)' : p \in Seen(m) /\ p.name = m
    BY <1>1 DEF Handles, NamesInv, Named
  <2>2. UNCHANGED uid  BY DEF Handles
  <2>3. NamesInv' /\ MapInv' /\ KnownInv' /\ FailedInv' /\ Reachable' /\ AcceptedInv'
    BY <1>2, <2>1, <2>2, SameGoroutines
  <2> QED  BY <1>1, <1>2, <2>3, SameGoroutineTypes, EmptySends
<1>3. CASE ~(o.phase = "Failed" \/ ~Validate(o))
  <2>1. Unreserved(o) /\ o.phase # "Failed"  BY <1>3 DEF Validate, Unreserved
  <2>2. CASE clusters[n] = 0
    <3>1. /\ clusters' = [clusters EXCEPT ![n] = o.uid]
          /\ gor' = [gor EXCEPT ![o.uid] = New(o)] /\ sending' = <<>>
      BY <1>3, <2>2 DEF syncEtcdClus
    <3> QED  BY <2>1, <2>2, <3>1, StartInv, EmptySends
  <2>3. CASE clusters[n] # 0 /\ Len(gor[clusters[n]].eventCh) < EventCap
    <3>1. Send(clusters[n], o) /\ UNCHANGED clusters /\ sending' = <<>>
      BY <1>3, <2>3 DEF syncEtcdClus
    <3> QED  BY <1>1, <2>1, <2>3, <3>1, SendInv, EmptySends
  <2>4. CASE clusters[n] # 0 /\ ~(Len(gor[clusters[n]].eventCh) < EventCap)
    <3>1. sending' = <<o>> /\ UNCHANGED <<clusters, gor>>
      BY <1>3, <2>4 DEF syncEtcdClus
    <3>2. o \in CRs  BY DEF Handles
    <3>3. sending' \in Seq(CRs) /\ Len(sending') <= 1  BY <3>1, <3>2, SMT
    <3> QED  BY <1>1, <2>1, <2>4, <3>1, <3>3, WaitInv, SameGoroutineTypes
  <2> QED  BY <2>2, <2>3, <2>4
<1> QED  BY <1>2, <1>3 DEF syncEtcdClus

\* handleClusterEvent for one that was deleted.
LEMMA OnDeleteInv ==
    ASSUME ControllerInv, NEW n \in Names, NEW o \in Seen(n), Handles(n, o), sending = <<>>,
           onDeleteEtcdClus(n, o), \A p \in Seen(n)' : o.uid < p.uid /\ p.phase # "Failed"
    PROVE  /\ gor' \in [Uids -> Goroutines] /\ clusters' \in [Names -> 0..MaxUid]
           /\ \A v \in Uids : /\ Live(v)' => gor'[v].rss \in CRs
                              /\ Len(gor'[v].eventCh) <= EventCap
           /\ sending' \in Seq(CRs) /\ Len(sending') <= 1
           /\ NamesInv' /\ MapInv' /\ KnownInv' /\ FailedInv' /\ Reachable' /\ AcceptedInv'
<1>1. TypeOK /\ NamesInv /\ FailedInv /\ clusters \in [Names -> 0..MaxUid]
  BY DEF ControllerInv, TypeOK
<1>2. sending' = <<>>  BY DEF onDeleteEtcdClus
<1>3. CASE o.phase = "Failed"
  <2>1. clusters' = [clusters EXCEPT ![n] = 0] /\ UNCHANGED gor
    BY <1>3 DEF onDeleteEtcdClus
  <2>2. \A v \in Uids : Live(v) /\ NameOf(v) = n => gor[v].stop  BY <1>1, <1>3 DEF FailedInv
  <2> QED  BY <1>2, <2>1, <2>2, ForgetInv, EmptySends
<1>4. CASE UNCHANGED <<clusters, gor>>
  <2>1. \A m \in Names : \A p \in Seen(m)' : p \in Seen(m) /\ p.name = m
    BY <1>1 DEF Handles, NamesInv, Named
  <2>2. UNCHANGED uid /\ UNCHANGED sending  BY <1>2 DEF Handles
  <2>3. NamesInv' /\ MapInv' /\ KnownInv' /\ FailedInv' /\ Reachable' /\ AcceptedInv'
    BY <1>4, <2>1, <2>2, SameGoroutines
  <2> QED  BY <1>1, <1>2, <1>4, <2>3, SameGoroutineTypes, EmptySends
<1>5. CASE /\ clusters[n] # 0 /\ gor' = [gor EXCEPT ![clusters[n]].stop = TRUE]
           /\ clusters' = [clusters EXCEPT ![n] = 0]
  BY <1>2, <1>5, ForgetInv, EmptySends
<1> QED  BY <1>3, <1>4, <1>5 DEF onDeleteEtcdClus

\* An event of the informer reaches the controller.
LEMMA DeliverInv ==
    ASSUME ControllerInv, NEW n \in Names, Deliver(n)
    PROVE  /\ TypeOK' /\ InformerInv' /\ NamesInv' /\ MapInv' /\ KnownInv' /\ FailedInv'
           /\ Reachable' /\ AcceptedInv'
<1> DEFINE d == Head(watch[n])
           o == d.obj
<1>1. TypeOK /\ InformerInv /\ NamesInv  BY DEF ControllerInv
<1>2. /\ sending = <<>> /\ watch[n] # <<>> /\ watch' = [watch EXCEPT ![n] = Tail(@)]
      /\ store' = [store EXCEPT ![n] = IF d.type = "put" THEN <<o>> ELSE <<>>]
      /\ IF d.type = "put" THEN syncEtcdClus(n, o) ELSE onDeleteEtcdClus(n, o)
      /\ UNCHANGED <<crs, uid, troubles>>
  BY DEF Deliver
<1>3. d \in Events /\ d.type \in {"put", "delete"} /\ o \in CRs
  <2>1. watch[n] \in Seq(Events)  BY <1>1 DEF TypeOK
  <2>2. d \in Events  BY <1>2, <2>1, SMT
  <2> QED  BY <2>2 DEF Events
<1>4. \A m \in Names : clusters[m] # 0 => clusters'[m] # 0 \/ (m = n /\ d.type = "delete")
  <2>1. DOMAIN clusters = Names /\ o.uid # 0  BY <1>1, <1>3, SMT DEF TypeOK, CRs, Uids
  <2>2. CASE d.type = "put"
    <3>1. UNCHANGED clusters \/ clusters' = [clusters EXCEPT ![n] = o.uid]
      BY <1>2, <2>2 DEF syncEtcdClus
    <3> QED  BY <2>1, <3>1
  <2>3. CASE d.type # "put"
    <3>1. UNCHANGED clusters \/ clusters' = [clusters EXCEPT ![n] = 0]
      BY <1>2, <2>3 DEF onDeleteEtcdClus
    <3> QED  BY <1>3, <2>1, <2>3, <3>1
  <2> QED  BY <2>2, <2>3
<1>5. /\ InformerInv'
      /\ watch' \in [Names -> Seq(Events)] /\ store' \in [Names -> Seq(CRs)]
      /\ \A m \in Names : Len(store'[m]) <= 1 /\ Seen(m)' \subseteq Seen(m)
      /\ o \in Seen(n) /\ o.name = n
      /\ \A p \in Seen(n)' : o.uid <= p.uid /\ (d.type = "delete" => o.uid < p.uid)
      /\ d.type = "delete" \/ (clusters[n] = 0 /\ o.phase # "Failed") =>
            \A p \in Seen(n)' : p.phase # "Failed"
  BY <1>1, <1>2, <1>4, Delivered
<1>6. Handles(n, o)
  <2>1. \A owner \in [1..uid -> Names] : Named(owner) => o.uid <= uid /\ owner[o.uid] = n
    BY <1>5, SMT DEF Named
  <2> QED  BY <1>2, <1>3, <1>5, <2>1 DEF Handles
<1> HIDE DEF d
<1>7. /\ gor' \in [Uids -> Goroutines] /\ clusters' \in [Names -> 0..MaxUid]
      /\ \A v \in Uids : /\ Live(v)' => gor'[v].rss \in CRs
                         /\ Len(gor'[v].eventCh) <= EventCap
      /\ sending' \in Seq(CRs) /\ Len(sending') <= 1
      /\ NamesInv' /\ MapInv' /\ KnownInv' /\ FailedInv' /\ Reachable' /\ AcceptedInv'
  <2>1. CASE d.type = "put"
    <3>1. syncEtcdClus(n, o)  BY <1>2, <2>1
    <3> HIDE DEF o
    <3> QED  BY <1>2, <1>5, <1>6, <3>1, SyncInv
  <2>2. CASE d.type = "delete"
    <3>1. onDeleteEtcdClus(n, o)  BY <1>2, <2>2
    <3>2. \A p \in Seen(n)' : o.uid < p.uid /\ p.phase # "Failed"  BY <1>5, <2>2
    <3> HIDE DEF o
    <3> QED  BY <1>2, <1>5, <1>6, <3>1, <3>2, OnDeleteInv
  <2> QED  BY <1>3, <2>1, <2>2
<1>8. TypeOK'  BY <1>1, <1>2, <1>5, <1>7, TypeHandled
<1> QED  BY <1>5, <1>7, <1>8

\* A send that waited ends.
LEMMA SentInv ==
    ASSUME ControllerInv, Sent
    PROVE  /\ TypeOK' /\ InformerInv' /\ NamesInv' /\ MapInv' /\ KnownInv' /\ FailedInv'
           /\ Reachable' /\ AcceptedInv'
<1>0. PICK o, n : o = sending[1] /\ n = o.name  OBVIOUS
<1>1. TypeOK /\ InformerInv /\ NamesInv /\ MapInv /\ KnownInv /\ AcceptedInv
  BY DEF ControllerInv
<1>2. /\ sending # <<>> /\ sending' = <<>> /\ Len(gor[clusters[n]].eventCh) < EventCap
      /\ Send(clusters[n], o) /\ UNCHANGED <<crs, uid, watch, store, clusters, troubles>>
  BY <1>0 DEF Sent
<1>3. o \in CRs /\ n \in Names  BY <1>0, <1>1, <1>2, SendingIs
<1>4. \A m \in Names : Seen(m)' = Seen(m)  BY <1>2 DEF Seen
<1>5. Handles(n, o)
  <2>1. \A owner \in [1..uid -> Names] : Named(owner) => o.uid <= uid /\ owner[o.uid] = n
    BY <1>0, <1>2 DEF Named
  <2>2. \A p \in Seen(n) : o.uid <= p.uid  BY <1>0, <1>1, <1>2 DEF KnownInv
  <2>3. Seen(n)' = Seen(n) /\ (\A m \in Names : Seen(m)' \subseteq Seen(m))  BY <1>3, <1>4
  <2>4. UNCHANGED uid /\ o \in CRs /\ o.name = n  BY <1>0, <1>2, <1>3
  <2>5. \A p \in Seen(n)' : o.uid <= p.uid  BY <2>2, <2>3
  <2> QED  BY <2>1, <2>3, <2>4, <2>5 DEF Handles
<1>6. clusters[n] # 0 /\ Unreserved(o)  BY <1>0, <1>1, <1>2 DEF MapInv, AcceptedInv
<1>7. /\ gor' \in [Uids -> Goroutines]
      /\ \A v \in Uids : /\ Live(v)' => gor'[v].rss \in CRs
                         /\ Len(gor'[v].eventCh) <= EventCap
      /\ NamesInv' /\ MapInv' /\ KnownInv' /\ FailedInv' /\ Reachable' /\ AcceptedInv'
  BY <1>2, <1>3, <1>5, <1>6, SendInv
<1>8. InformerInv'  BY <1>1, <1>2 DEF InformerInv, Informed, FailedLast
<1>9. TypeOK'
  <2>1. /\ watch' \in [Names -> Seq(Events)] /\ store' \in [Names -> Seq(CRs)]
        /\ \A m \in Names : Len(store'[m]) <= 1
        /\ clusters' \in [Names -> 0..MaxUid]
    BY <1>1, <1>2 DEF TypeOK
  <2>2. sending' \in Seq(CRs) /\ Len(sending') <= 1  BY <1>2, EmptySends
  <2>3. UNCHANGED <<crs, uid, troubles>>  BY <1>2
  <2> QED  BY <1>1, <1>7, <2>1, <2>2, <2>3, TypeHandled
<1> QED  BY <1>7, <1>8, <1>9


----------------------------------------------------------------------------
(***************************************************************************)
(* The objects of the clusters.                                            *)
(***************************************************************************)

\* What ObjectsInv says of one Service, Secret or StatefulSet of the CR called n.
ServiceOf(n, o) ==
    o # <<>> => /\ o[1].selector = LabelsForCluster(n)
                /\ Selects(LabelsForCluster(n), o[1].labels)
SecretOf(n, o) == o # <<>> => Selects(LabelsForCluster(n), o[1].labels)
StsOf(n, o) ==
    o # <<>> => /\ o = <<o[1]>> /\ {"labels", "owner", "spec"} \subseteq DOMAIN o[1]
                /\ "labels" \in DOMAIN o[1].spec
                /\ Selects(LabelsForCluster(n), o[1].labels)
                /\ Selects(LabelsForCluster(n), o[1].spec.labels)

LEMMA ObjectsAre ==
    ObjectsInv <=> /\ DOMAIN services = Names /\ DOMAIN secrets = Names /\ DOMAIN sts = Names
                   /\ \A n \in Names : /\ ServiceOf(n, services[n]) /\ SecretOf(n, secrets[n])
                                       /\ StsOf(n, sts[n])
BY DEF ObjectsInv, ServiceOf, SecretOf, StsOf

LEMMA ObjectsAreNext ==
    ObjectsInv' <=> /\ DOMAIN services' = Names /\ DOMAIN secrets' = Names /\ DOMAIN sts' = Names
                    /\ \A n \in Names : /\ ServiceOf(n, services'[n]) /\ SecretOf(n, secrets'[n])
                                        /\ StsOf(n, sts'[n])
BY DEF ObjectsInv, ServiceOf, SecretOf, StsOf

LEMMA NothingOf == ASSUME NEW n PROVE SecretOf(n, <<>>) /\ StsOf(n, <<>>)
BY DEF SecretOf, StsOf

LEMMA SameObjects ==
    ASSUME ObjectsInv, UNCHANGED objects
    PROVE  ObjectsInv'
BY DEF ObjectsInv, objects

\* Both orders of mergeLabels keep a cluster's labels if the CR brings none of them.
LEMMA MergeSelects ==
    ASSUME NEW o, Unreserved(o)
    PROVE  /\ Selects(LabelsForCluster(o.name), mergeLabels(LabelsForCluster(o.name), o.labels))
           /\ Selects(LabelsForCluster(o.name), mergeLabels(o.labels, LabelsForCluster(o.name)))
BY DEF Unreserved, Selects, mergeLabels, LabelsForCluster, ReservedLabels

LEMMA MadeObjects ==
    ASSUME NEW o, Unreserved(o), NEW maps
    PROVE  /\ ServiceOf(o.name, <<makeStatefulSetService(o)>>)
           /\ SecretOf(o.name, <<makeEmptyConfig(o, maps)>>)
           /\ StsOf(o.name, <<makeStatefulSet(o)>>)
<1>1. ServiceOf(o.name, <<makeStatefulSetService(o)>>)
  BY MergeSelects DEF ServiceOf, makeStatefulSetService
<1>2. SecretOf(o.name, <<makeEmptyConfig(o, maps)>>)
  BY MergeSelects DEF SecretOf, makeEmptyConfig
<1>3. StsOf(o.name, <<makeStatefulSet(o)>>)
  BY MergeSelects DEF StsOf, makeStatefulSet, makeStatefulSetSpec
<1> QED  BY <1>1, <1>2, <1>3

\* A patch of the size keeps the labels.
LEMMA PatchedSts ==
    ASSUME NEW n, NEW o, NEW r, StsOf(n, o), o # <<>>
    PROVE  StsOf(n, [o EXCEPT ![1].spec.replicas = r])
<1>1. PICK s : o = <<s>> /\ s = o[1]  BY DEF StsOf
<1>2. PICK p : p = [s EXCEPT !.spec.replicas = r]  OBVIOUS
<1>3. /\ DOMAIN p = DOMAIN s /\ p.labels = s.labels
      /\ p.spec = [s.spec EXCEPT !.replicas = r]
  BY <1>1, <1>2 DEF StsOf
<1>4. DOMAIN p.spec = DOMAIN s.spec /\ p.spec.labels = s.spec.labels
  BY <1>1, <1>3 DEF StsOf
<1>5. [o EXCEPT ![1].spec.replicas = r] = <<p>>  BY <1>1, <1>2, SMT
<1>6. <<p>> # <<>> /\ <<p>>[1] = p  OBVIOUS
<1>7. StsOf(n, <<p>>)  BY <1>1, <1>3, <1>4, <1>6 DEF StsOf
<1> QED  BY <1>5, <1>7

\* A goroutine that creates something has a CR of a name, without reserved labels.
LEMMA CreatorIs ==
    ASSUME ControllerInv, NEW u \in Uids, Live(u)
    PROVE  NameOf(u) \in Names /\ Unreserved(gor[u].rss)
<1>1. TypeOK /\ AcceptedInv  BY DEF ControllerInv
<1>2. gor[u].rss \in CRs  BY <1>1 DEF TypeOK
<1> QED  BY <1>1, <1>2 DEF AcceptedInv, NameOf, CRs

\* Whatever a goroutine does, the objects stay labelled.
LEMMA GoroutineObjects ==
    ASSUME ControllerInv, NEW u \in Uids, Goroutine(u)
    PROVE  ObjectsInv'
<1> DEFINE o == gor[u].rss
<1>1. ObjectsInv  BY DEF ControllerInv
<1>2. CASE UNCHANGED objects  BY <1>1, <1>2, SameObjects
<1>3. CASE CreateService(u)
  <2>1. Live(u)  BY <1>3 DEF CreateService, Live
  <2>2. NameOf(u) \in Names /\ Unreserved(o) /\ NameOf(u) = o.name  BY <2>1, CreatorIs DEF NameOf
  <2>3. ServiceOf(o.name, <<makeStatefulSetService(o)>>)  BY <2>2, MadeObjects
  <2>4. /\ services' = [services EXCEPT ![o.name] = <<makeStatefulSetService(o)>>]
        /\ UNCHANGED <<secrets, sts>>
    BY <1>3, <2>2 DEF CreateService
  <2> HIDE DEF o
  <2> QED  BY <1>1, <2>2, <2>3, <2>4, ObjectsAre, ObjectsAreNext
<1>4. CASE CreateSecret(u)
  <2>1. Live(u)  BY <1>4 DEF CreateSecret, Live
  <2>2. NameOf(u) \in Names /\ Unreserved(o) /\ NameOf(u) = o.name  BY <2>1, CreatorIs DEF NameOf
  <2>3. SecretOf(o.name, <<makeEmptyConfig(o, {})>>)  BY <2>2, MadeObjects
  <2>4. PICK x : /\ x = (IF secrets[o.name] # <<>> THEN secrets[o.name]
                         ELSE <<makeEmptyConfig(o, {})>>)
                 /\ secrets' = [secrets EXCEPT ![o.name] = x]
                 /\ UNCHANGED <<services, sts>>
    BY <1>4, <2>2 DEF CreateSecret
  <2> HIDE DEF o
  <2>5. SecretOf(o.name, x)  BY <1>1, <2>2, <2>3, <2>4, ObjectsAre
  <2> QED  BY <1>1, <2>2, <2>4, <2>5, ObjectsAre, ObjectsAreNext
<1>5. CASE CreateSts(u)
  <2>1. Live(u)  BY <1>5 DEF CreateSts, Live
  <2>2. NameOf(u) \in Names /\ Unreserved(o) /\ NameOf(u) = o.name  BY <2>1, CreatorIs DEF NameOf
  <2>3. StsOf(o.name, <<makeStatefulSet(o)>>)  BY <2>2, MadeObjects
  <2>4. /\ sts' = [sts EXCEPT ![o.name] = <<makeStatefulSet(o)>>]
        /\ UNCHANGED <<services, secrets>>
    BY <1>5, <2>2 DEF CreateSts
  <2> HIDE DEF o
  <2> QED  BY <1>1, <2>2, <2>3, <2>4, ObjectsAre, ObjectsAreNext
<1>6. CASE PatchSts(u) /\ ~UNCHANGED objects
  <2>1. Live(u)  BY <1>6 DEF PatchSts, Live
  <2>2. PICK n \in Names : n = NameOf(u)  BY <2>1, CreatorIs
  <2>3. PICK r : /\ sts[n] # <<>> /\ sts' = [sts EXCEPT ![n][1].spec.replicas = r]
                 /\ UNCHANGED <<services, secrets>>
    BY <1>6, <2>2 DEF PatchSts, objects
  <2>4. StsOf(n, [sts[n] EXCEPT ![1].spec.replicas = r])
    BY <1>1, <2>3, PatchedSts, ObjectsAre
  <2>5. PICK x : x = [sts[n] EXCEPT ![1].spec.replicas = r]  OBVIOUS
  <2>6. sts' = [sts EXCEPT ![n] = x]  BY <2>3, <2>5
  <2> QED  BY <1>1, <2>3, <2>4, <2>5, <2>6, ObjectsAre, ObjectsAreNext
<1>7. CASE \/ Setup(u) \/ CreateFails(u) \/ SetupFailed(u) \/ Start(u) \/ Stop(u) \/ pollPods(u)
           \/ RoundEnds(u) \/ HandleUpdateEvent(u) \/ ReportFailedStatus(u)
  <2>1. UNCHANGED objects
    BY <1>7 DEF Setup, CreateFails, SetupFailed, Start, Stop, pollPods, RoundEnds,
                HandleUpdateEvent, ReportFailedStatus
  <2> QED  BY <1>1, <2>1, SameObjects
<1> QED  BY <1>2, <1>3, <1>4, <1>5, <1>6, <1>7 DEF Goroutine

\* Kubernetes takes an object away or leaves it as it is.
LEMMA CollectObjects ==
    ASSUME ControllerInv, NEW n \in Names, Collect(n)
    PROVE  ObjectsInv'
<1>1. ObjectsInv  BY DEF ControllerInv
<1>2. PICK x, y : /\ sts' = [sts EXCEPT ![n] = x] /\ x \in {<<>>, sts[n]}
                  /\ secrets' = [secrets EXCEPT ![n] = y] /\ y \in {<<>>, secrets[n]}
                  /\ UNCHANGED services
  BY DEF Collect
<1>3. StsOf(n, x) /\ SecretOf(n, y)  BY <1>1, <1>2, NothingOf, ObjectsAre
<1> QED  BY <1>1, <1>2, <1>3, ObjectsAre, ObjectsAreNext


----------------------------------------------------------------------------
(***************************************************************************)
(* The invariant and what follows from it.                                 *)
(***************************************************************************)

LEMMA InitInv ==
    ASSUME Init
    PROVE  ControllerInv
<1> USE ControllerAssumption
<1>1. /\ uid = 0 /\ troubles = {} /\ sending = <<>>
      /\ \A n \in Names : crs[n] = <<>> /\ store[n] = <<>> /\ watch[n] = <<>> /\ clusters[n] = 0
      /\ \A n \in Names : services[n] = <<>> /\ secrets[n] = <<>> /\ sts[n] = <<>>
      /\ \A u \in Uids : gor[u] = NoGoroutine
  BY DEF Init
<1>2. \A u \in Uids : /\ ~Live(u) /\ gor[u] \in Goroutines
                      /\ gor[u].eventCh = <<>> /\ ~gor[u].stop
  BY <1>1, NoGoroutineRecord DEF Live, NoGoroutine
<1>3. \A n \in Names : Seen(n) = {}  BY <1>1, SMT DEF Seen
<1>4. TypeOK
  <2>1. /\ crs \in [Names -> Seq(CRs)] /\ store \in [Names -> Seq(CRs)]
        /\ watch \in [Names -> Seq(Events)] /\ sending \in Seq(CRs)
    BY SMT DEF Init
  <2>2. clusters \in [Names -> 0..MaxUid] /\ uid \in 0..MaxUid  BY SMT DEF Init
  <2>3. gor \in [Uids -> Goroutines]  BY <1>2 DEF Init
  <2> QED  BY <1>1, <1>2, <2>1, <2>2, <2>3, SMT DEF TypeOK
<1>5. InformerInv  BY <1>1, SMT DEF InformerInv, Informed, InOrder, FailedLast
<1>6. NamesInv
  <2>1. PICK owner : owner = [k \in 1..uid |-> CHOOSE n \in Names : TRUE]  OBVIOUS
  <2>2. owner \in [1..uid -> Names]  BY <1>1, <2>1, SMT
  <2>3. Named(owner)  BY <1>1, <1>2, <1>3 DEF Named
  <2> QED  BY <2>2, <2>3 DEF NamesInv
<1>7. MapInv /\ KnownInv /\ FailedInv /\ Reachable /\ AcceptedInv
  BY <1>1, <1>2, <1>3 DEF MapInv, KnownInv, FailedInv, Reachable, AcceptedInv
<1>8. ObjectsInv
  <2>1. DOMAIN services = Names /\ DOMAIN secrets = Names /\ DOMAIN sts = Names  BY DEF Init
  <2> QED  BY <1>1, <2>1 DEF ObjectsInv
<1> QED  BY <1>4, <1>5, <1>6, <1>7, <1>8 DEF ControllerInv

LEMMA NextInv ==
    ASSUME ControllerInv, [Next]_vars
    PROVE  ControllerInv'
<1>1. TypeOK /\ FailedInv /\ NamesInv /\ ObjectsInv  BY DEF ControllerInv
<1>2. ASSUME NEW n \in Names, UserCreates(n)  PROVE ControllerInv'
  <2>1. UNCHANGED objects  BY <1>2 DEF UserCreates
  <2> QED  BY <1>1, <1>2, <2>1, CreateInv, SameObjects DEF ControllerInv
<1>3. ASSUME NEW n \in Names, UserEdits(n)  PROVE ControllerInv'
  <2>1. UNCHANGED objects  BY <1>3 DEF UserEdits
  <2> QED  BY <1>1, <1>3, <2>1, EditInv, SameObjects DEF ControllerInv
<1>4. ASSUME NEW n \in Names, UserDeletes(n)  PROVE ControllerInv'
  <2>1. UNCHANGED objects  BY <1>4 DEF UserDeletes
  <2> QED  BY <1>1, <1>4, <2>1, DeleteInv, SameObjects DEF ControllerInv
<1>5. ASSUME NEW n \in Names, Collect(n)  PROVE ControllerInv'
  <2>1. UNCHANGED <<crs, uid, informer, clusters, gor, troubles>>  BY <1>5 DEF Collect
  <2> QED  BY <1>5, <2>1, StutterInv, CollectObjects DEF ControllerInv
<1>6. ASSUME NEW n \in Names, Deliver(n)  PROVE ControllerInv'
  <2>1. UNCHANGED objects  BY <1>6 DEF Deliver
  <2> QED  BY <1>1, <1>6, <2>1, DeliverInv, SameObjects DEF ControllerInv
<1>7. ASSUME NEW u \in Uids, Goroutine(u)  PROVE ControllerInv'
  <2>1. Quiet(u)  BY <1>1, <1>7, GoroutineQuiet
  <2> QED  BY <1>7, <2>1, QuietInv, GoroutineObjects DEF ControllerInv
<1>8. CASE Relist
  <2>1. UNCHANGED objects  BY <1>8 DEF Relist
  <2> QED  BY <1>1, <1>8, <2>1, RelistInv, SameObjects DEF ControllerInv
<1>9. CASE Sent
  <2>1. UNCHANGED objects  BY <1>9 DEF Sent
  <2> QED  BY <1>1, <1>9, <2>1, SentInv, SameObjects DEF ControllerInv
<1>10. CASE Crash \/ PanicTimer
  <2>1. Restarted /\ (Trouble("crash") \/ UNCHANGED troubles)  BY <1>10 DEF Crash, PanicTimer
  <2>2. "crash" \in Troubles  BY DEF Troubles
  <2>3. troubles' \subseteq Troubles  BY <1>1, <2>1, <2>2, TroubleIs DEF TypeOK
  <2>4. UNCHANGED objects  BY <2>1 DEF Restarted
  <2> QED  BY <1>1, <2>1, <2>3, <2>4, RestartInv, SameObjects DEF ControllerInv
<1>11. CASE UNCHANGED vars
  <2>1. UNCHANGED <<crs, uid, informer, clusters, gor, troubles>> /\ UNCHANGED objects
    BY <1>11 DEF vars
  <2> QED  BY <1>1, <2>1, StutterInv, SameObjects DEF ControllerInv
<1> QED  BY <1>2, <1>3, <1>4, <1>5, <1>6, <1>7, <1>8, <1>9, <1>10, <1>11 DEF Next

\* In every reachable state ControllerInv holds: what the informer, the controller's
\* map and the goroutines know of the CRs fits together, for any number of names, CRs
\* and queued events, and for any combination of troubles (handleClusterEvent, New,
\* run and the informer's events).
THEOREM ControllerInvAlways == Spec => []ControllerInv
<1>1. Init => ControllerInv  BY InitInv
<1>2. ControllerInv /\ [Next]_vars => ControllerInv'  BY NextInv
<1> QED  BY <1>1, <1>2, PTL DEF Spec

\* Every goroutine that runs was told to stop or is the one the controller's map
\* has under its name, so handleClusterEvent can stop it.
THEOREM ReachableAlways == Spec => []Reachable
<1>1. ControllerInv => Reachable  BY DEF ControllerInv
<1> QED  BY <1>1, ControllerInvAlways, PTL

\* The labels of one cluster select what carries the labels of another only if
\* they have the same name.
LEMMA SelectsOwn ==
    ASSUME NEW n, NEW m, NEW labels, Selects(LabelsForCluster(m), labels)
    PROVE  Selects(LabelsForCluster(n), labels) = (m = n)
<1>1. CASE m = n
  <2>1. Selects(LabelsForCluster(n), labels)  BY <1>1
  <2> QED  BY <1>1, <2>1
<1>2. CASE m # n
  <2>1. labels["app"] = m  BY DEF Selects, LabelsForCluster
  <2>2. Selects(LabelsForCluster(n), labels) => labels["app"] = n
    BY DEF Selects, LabelsForCluster
  <2> QED  BY <1>2, <2>1, <2>2 DEF Selects
<1> QED  BY <1>1, <1>2

\* What exists for a cluster carries its labels, and its Service and pollPods select
\* the Pods of its StatefulSet and of no other's (mergeLabels, LabelsForCluster).
THEOREM LabelledAlways == Spec => []Labelled
<1>1. ControllerInv => Labelled
  <2> SUFFICES ASSUME ControllerInv PROVE Labelled  OBVIOUS
  <2>1. ObjectsInv  BY DEF ControllerInv
  <2>2. \A n \in Names : /\ ServiceOf(n, services[n]) /\ SecretOf(n, secrets[n])
                         /\ StsOf(n, sts[n])
    BY <2>1, ObjectsAre
  <2>3. ASSUME NEW n \in Names, NEW m \in Names, sts[m] # <<>>
        PROVE  /\ Selects(LabelsForCluster(n), sts[m][1].spec.labels) = (m = n)
               /\ services[n] # <<>> =>
                     Selects(services[n][1].selector, sts[m][1].spec.labels) = (m = n)
    <3>1. Selects(LabelsForCluster(m), sts[m][1].spec.labels)  BY <2>2, <2>3 DEF StsOf
    <3>2. Selects(LabelsForCluster(n), sts[m][1].spec.labels) = (m = n)  BY <3>1, SelectsOwn, SMT
    <3>3. services[n] # <<>> => services[n][1].selector = LabelsForCluster(n)
      BY <2>2 DEF ServiceOf
    <3> QED  BY <3>2, <3>3
  <2>4. \A n \in Names :
           /\ services[n] # <<>> => Selects(LabelsForCluster(n), services[n][1].labels)
           /\ secrets[n] # <<>> => Selects(LabelsForCluster(n), secrets[n][1].labels)
           /\ sts[n] # <<>> => Selects(LabelsForCluster(n), sts[n][1].labels)
    BY <2>2 DEF ServiceOf, SecretOf, StsOf
  <2> QED  BY <2>3, <2>4 DEF Labelled
<1> QED  BY <1>1, ControllerInvAlways, PTL

----------------------------------------------------------------------------
\* The controller puts a goroutine into its map only for a CR that has none running:
\* handleClusterEvent looks no further than the map, which forgets goroutines that
\* still run.
StartsOnce ==
    [][\A n \in Names : clusters'[n] \notin {0, clusters[n]} => ~Live(clusters'[n])]_vars

\* No CR ever has two goroutines: one is started only where no other, also none
\* that was told to stop, still runs for the same uid (syncEtcdClus and New).
THEOREM StartsOnceAlways == Spec => StartsOnce
<1>1. ControllerInv /\ [Next]_vars =>
        [\A n \in Names : clusters'[n] \notin {0, clusters[n]} => ~Live(clusters'[n])]_vars
  <2> SUFFICES ASSUME ControllerInv, Next, NEW n \in Names,
                      clusters'[n] # 0, clusters'[n] # clusters[n]
               PROVE  ~Live(clusters'[n])
    OBVIOUS
  <2>1. TypeOK /\ InformerInv /\ NamesInv /\ DOMAIN clusters = Names
    BY DEF ControllerInv, TypeOK
  <2>2. \E m \in Names : Deliver(m)
    <3>1. ~Restarted  BY DEF Restarted
    <3>2. \A m \in Names : ~UserCreates(m) /\ ~UserEdits(m) /\ ~UserDeletes(m) /\ ~Collect(m)
      BY DEF UserCreates, UserEdits, UserDeletes, Collect
    <3>3. ASSUME NEW u \in Uids PROVE ~Goroutine(u)
      BY DEF Goroutine, Setup, CreateFails, CreateService, CreateSecret, CreateSts, SetupFailed,
             Start, Stop, pollPods, RoundEnds, HandleUpdateEvent, PatchSts, ReportFailedStatus
    <3>4. ~Relist /\ ~Sent /\ ~Crash /\ ~PanicTimer
      BY <3>1 DEF Relist, Sent, Crash, PanicTimer
    <3> QED  BY <3>2, <3>3, <3>4 DEF Next
  <2>3. PICK m \in Names : Deliver(m)  BY <2>2
  <2> DEFINE d == Head(watch[m])
  <2>4. watch[m] # <<>> /\ (syncEtcdClus(m, d.obj) \/ onDeleteEtcdClus(m, d.obj))
    BY <2>3 DEF Deliver
  <2>5. clusters[m] = 0 /\ clusters' = [clusters EXCEPT ![m] = d.obj.uid]
    BY <2>1, <2>4 DEF syncEtcdClus, onDeleteEtcdClus
  <2>6. d.obj \in Seen(m) /\ d.obj.uid \in Uids
    <3>1. watch[m] \in Seq(Events)  BY <2>1 DEF TypeOK
    <3>2. 1 \in DOMAIN watch[m] /\ d = watch[m][1] /\ d \in Events  BY <2>4, <3>1, SMT
    <3> QED  BY <3>2 DEF Seen, Events, CRs
  <2>7. ~Live(d.obj.uid)  BY <2>5, <2>6, NotLive
  <2> QED  BY <2>1, <2>5, <2>7
<1> QED  BY <1>1, ControllerInvAlways, PTL DEF Spec, StartsOnce
============================================================================
