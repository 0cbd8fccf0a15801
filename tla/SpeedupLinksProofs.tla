--------------------------- MODULE SpeedupLinksProofs ---------------------------
(***************************************************************************)
(* Proofs about SpeedupEngine: no parent is forgotten, and what an alive   *)
(* replacement replaces is not queued.                                     *)
(*                                                                         *)
(* Both follow from LinkInv, which says how the stored speedups hang       *)
(* together: with what was built for them, with what they replace, with    *)
(* the copies the dispatch pass works on and with the chain.  A step of    *)
(* the tick is many writes and may be cut short after any of them, so the  *)
(* argument is about its trace: a frame c says what the step may do, every *)
(* store of the trace is linked, the last one is what c allows and, while  *)
(* nothing has failed, still covers every parent (Runs).  One lemma per    *)
(* operation shows that it extends such a trace by another; one per action *)
(* picks the frame and composes them.                                      *)
(***************************************************************************)
EXTENDS SpeedupEngineProofs

-----------------------------------------------------------------------------
(* Frames. *)

\* The record has neither failed nor gone.
Lively(r) == r.state \notin {"Failed", "Unregistered"}

\* A frame: replaces, anchors: what each speedup replaces and spends; built: the
\* ones that have been built; keep: the ones whose records stay; wait: the ones
\* that may be queued; live: the listed ones that may be lively; listed: the ones
\* that may be in the SpeedupList; fresh: the one the step builds; dead:
\* transactions that are not alive and are not brought back; spared: parents
\* nothing is said of; due: parents that are covered even when they have failed;
\* calm: whether the step covers at all.

\* The frame permits the record r of the speedup x.
Permits(c, x, r) ==
    /\ IF r.state = "Unregistered" THEN r.replaces = 0
       ELSE /\ x \in c.built
            /\ r.replaces = c.replaces[x]
            /\ c.replaces[x] = 0 /\ c.anchors[x] # <<>> => r.parents = c.anchors[x]
    /\ r.state = "ToDispatch" => x \in c.wait
    /\ Lively(r) /\ x \in c.listed => x \in c.live
    /\ x \in c.fresh => r.state = "ToDispatch" /\ r.broadcast = 0

\* What must not come back, or go.
Stays(c, x, r) ==
    /\ x \in c.dead => r.state \notin Active
    /\ x \in c.keep => r.state # "Unregistered"

\* The stores the frame permits.
Allowed(c) ==
    {d \in Store : /\ ToSet(d.list) \subseteq c.listed
                   /\ \A x \in Speedups : Permits(c, x, d.rec[x])
                   /\ \A x \in Ids : Stays(c, x, d.rec[x])}

\* The root s of a line of replacements covers p.
CoveredBy(c, d, s, p) ==
    p \in ToSet(c.anchors[s]) /\ c.replaces[s] = 0 /\ d.rec[s].state \in Active

\* No parent is forgotten, whatever its state when it is in c.due, but for those
\* in c.spared.
Covers(c, d) ==
    \A p \in Parents \ c.spared :
        d.rec[p].state \in Active \/ p \in c.due =>
            p \in ToSet(d.psp) \/ \E s \in Speedups : CoveredBy(c, d, s, p)

\* Those that cover as well.
Held(c) == {d \in Allowed(c) : c.calm => Covers(c, d)}

\* The traces over A that end in Held(c).
Runs(A, c) == {t \in Seq(A) : t # <<>> /\ Last(t) \in Held(c)}

\* Sparing more parents; saying nothing of them.
Sparing(c, X) ==
    [replaces |-> c.replaces, anchors |-> c.anchors, built |-> c.built, keep |-> c.keep,
     wait |-> c.wait, live |-> c.live, listed |-> c.listed, fresh |-> c.fresh,
     dead |-> c.dead, spared |-> c.spared \cup X, due |-> c.due, calm |-> c.calm]

\* The stores are the same as far as frames see them.
Alike(d, e) ==
    \A x \in Ids : /\ e.rec[x].state = d.rec[x].state /\ e.rec[x].replaces = d.rec[x].replaces
                   /\ e.rec[x].parents = d.rec[x].parents /\ e.rec[x].broadcast = d.rec[x].broadcast

\* The fields of such a frame.
LEMMA SparingFields ==
    ASSUME NEW c, NEW X
    PROVE  LET e == Sparing(c, X)
           IN  /\ e.replaces = c.replaces /\ e.anchors = c.anchors /\ e.built = c.built
               /\ e.keep = c.keep /\ e.wait = c.wait /\ e.live = c.live /\ e.listed = c.listed
               /\ e.fresh = c.fresh /\ e.dead = c.dead /\ e.spared = c.spared \cup X
               /\ e.due = c.due /\ e.calm = c.calm
  BY DEF Sparing

\* Sparing parents changes nothing but what is said of the spared ones.
LEMMA SparingRuns ==
    ASSUME NEW A, NEW c, NEW X
    PROVE  /\ Allowed(Sparing(c, X)) = Allowed(c)
           /\ Held(c) \subseteq Held(Sparing(c, X))
           /\ Runs(A, c) \subseteq Runs(A, Sparing(c, X))
  <1> DEFINE e == Sparing(c, X)
  <1>1. /\ e.replaces = c.replaces /\ e.anchors = c.anchors /\ e.built = c.built
        /\ e.keep = c.keep /\ e.wait = c.wait /\ e.live = c.live /\ e.listed = c.listed
        /\ e.fresh = c.fresh /\ e.dead = c.dead /\ e.spared = c.spared \cup X
        /\ e.due = c.due /\ e.calm = c.calm
    BY SparingFields
  <1> HIDE DEF e
  <1>2. \A x, r : (Permits(e, x, r) <=> Permits(c, x, r)) /\ (Stays(e, x, r) <=> Stays(c, x, r))
    BY <1>1 DEF Permits, Stays
  <1>3. Allowed(e) = Allowed(c)
    BY <1>1, <1>2 DEF Allowed
  <1>4. \A d : Covers(c, d) => Covers(e, d)
    BY <1>1 DEF Covers, CoveredBy
  <1>5. Held(c) \subseteq Held(e)
    BY <1>1, <1>3, <1>4 DEF Held
  <1>6. Runs(A, c) \subseteq Runs(A, e)
    BY <1>5 DEF Runs
  <1> QED
    BY <1>3, <1>5, <1>6 DEF e

\* What was spared for a while is covered again.
LEMMA NoLongerSpared ==
    ASSUME NEW A, NEW c, NEW X, NEW t \in Runs(A, Sparing(c, X)),
           c.calm => \A p \in Parents \cap X :
             Now(t).rec[p].state \in Active \/ p \in c.due => p \in ToSet(Now(t).psp)
    PROVE  t \in Runs(A, c)
  <1> DEFINE e == Sparing(c, X)
             d == Last(t)
  <1>1. /\ e.replaces = c.replaces /\ e.anchors = c.anchors
        /\ e.spared = c.spared \cup X /\ e.due = c.due /\ e.calm = c.calm
    BY SparingFields
  <1>2. t \in Seq(A) /\ t # <<>> /\ d \in Held(e) /\ Now(t) = d
    BY DEF Runs, Now
  <1>3. Allowed(e) = Allowed(c)
    BY SparingRuns
  <1> HIDE DEF e
  <1>4. d \in Allowed(c) /\ (c.calm => Covers(e, d))
    BY <1>1, <1>2, <1>3 DEF Held
  <1>5. ASSUME c.calm  PROVE Covers(c, d)
    <2> SUFFICES ASSUME NEW p \in Parents \ c.spared
                 PROVE  d.rec[p].state \in Active \/ p \in c.due =>
                          p \in ToSet(d.psp) \/ \E s \in Speedups : CoveredBy(c, d, s, p)
      BY DEF Covers
    <2>1. CASE p \in X
      BY <1>2, <1>5, <2>1
    <2>2. CASE p \notin X
      <3>1. \A s : CoveredBy(e, d, s, p) <=> CoveredBy(c, d, s, p)
        BY <1>1 DEF CoveredBy
      <3>2. p \in Parents \ e.spared
        BY <1>1, <2>2
      <3> QED  BY <1>1, <1>4, <1>5, <3>1, <3>2 DEF Covers
    <2> QED  BY <2>1, <2>2
  <1>6. d \in Held(c)
    BY <1>4, <1>5 DEF Held
  <1> QED
    BY <1>2, <1>6 DEF Runs

\* The last store of a run.
LEMMA RunNow ==
    ASSUME NEW A, NEW c, NEW t \in Runs(A, c)
    PROVE  Now(t) \in Held(c) /\ Now(t) \in Allowed(c) /\ Now(t) \in Store
  BY DEF Runs, Now, Held, Allowed

\* What a frame says of the record of a speedup.
LEMMA RunRecord ==
    ASSUME NEW A, NEW c, NEW t \in Runs(A, c), NEW x \in Speedups
    PROVE  Permits(c, x, Now(t).rec[x]) /\ Now(t).rec[x] \in Rec
  <1>1. Now(t) \in Allowed(c) /\ Now(t) \in Store
    BY RunNow
  <1> QED
    BY <1>1, StoreFields, Names DEF Allowed

\* A run of one store.
LEMMA RunStart ==
    ASSUME NEW A, NEW c, Allowed(c) \subseteq A, NEW d \in Held(c)
    PROVE  <<d>> \in Runs(A, c) /\ Now(<<d>>) = d
  <1>1. d \in A
    BY DEF Held
  <1>2. <<d>> \in Seq(A) /\ Len(<<d>>) = 1 /\ <<d>> # <<>> /\ <<d>>[1] = d
    BY <1>1
  <1> QED
    BY <1>2 DEF Runs, Now, Last

\* The last write of a run decides.
LEMMA RunPut ==
    ASSUME NEW A, NEW b, NEW c, Allowed(c) \subseteq A, NEW t \in Runs(A, b), NEW d \in Held(c)
    PROVE  Put(t, d) \in Runs(A, c) /\ Now(Put(t, d)) = d
  <1>1. d \in A /\ t \in Seq(A) /\ t # <<>>
    BY DEF Held, Runs
  <1>2. CASE d = Now(t)
    BY <1>1, <1>2 DEF Put, Runs, Now
  <1>3. CASE d # Now(t)
    <2> DEFINE u == Append(t, d)
    <2>1. u \in Seq(A) /\ Len(u) = Len(t) + 1 /\ u[Len(t) + 1] = d /\ u # <<>>
      BY <1>1
    <2>2. Put(t, d) = u
      BY <1>3 DEF Put
    <2> HIDE DEF u
    <2> QED  BY <2>1, <2>2 DEF Runs, Now, Last
  <1> QED
    BY <1>2, <1>3

-----------------------------------------------------------------------------
(* Writes. *)

\* A write that no frame sees; PendingSpeedupParents may grow and the
\* SpeedupList shrink.
LEMMA HeldElsewhere ==
    ASSUME NEW c, NEW d \in Held(c), NEW e \in Store, Alike(d, e),
           ToSet(e.list) \subseteq ToSet(d.list), ToSet(d.psp) \subseteq ToSet(e.psp)
    PROVE  e \in Held(c)
  <1>1. d \in Allowed(c) /\ (c.calm => Covers(c, d))
    BY DEF Held
  <1>2. \A x \in Speedups : Permits(c, x, d.rec[x]) => Permits(c, x, e.rec[x])
    <2> SUFFICES ASSUME NEW x \in Speedups, Permits(c, x, d.rec[x])
                 PROVE  Permits(c, x, e.rec[x])
      OBVIOUS
    <2>1. /\ e.rec[x].state = d.rec[x].state /\ e.rec[x].replaces = d.rec[x].replaces
          /\ e.rec[x].parents = d.rec[x].parents /\ e.rec[x].broadcast = d.rec[x].broadcast
      BY Names DEF Alike
    <2> QED  BY <2>1 DEF Permits, Lively
  <1>3. e \in Allowed(c)
    <2>1. \A x \in Ids : Stays(c, x, e.rec[x])
      BY <1>1 DEF Alike, Allowed, Stays
    <2> QED  BY <1>1, <1>2, <2>1 DEF Allowed
  <1>4. ASSUME c.calm  PROVE Covers(c, e)
    <2>1. \A x \in Ids : e.rec[x].state = d.rec[x].state
      BY DEF Alike
    <2>2. \A s \in Speedups, p \in Parents : CoveredBy(c, d, s, p) => CoveredBy(c, e, s, p)
      BY <2>1, Names DEF CoveredBy
    <2>3. \A p \in Parents : e.rec[p].state = d.rec[p].state
      BY <2>1, Names
    <2> QED  BY <1>1, <1>4, <2>2, <2>3 DEF Covers, Known
  <1> QED
    BY <1>3, <1>4 DEF Held

\* What may be written as the record of a parent.
ParentFits(c, d, p, r) ==
    c.calm /\ p \notin c.spared /\ r.state \in Active =>
        d.rec[p].state \in Active \/ p \in c.due \cup ToSet(d.psp)

\* What may be written as the record of a speedup: a root stays alive unless
\* its parents are spared.
SpeedupFits(c, d, x, r) ==
    /\ Permits(c, x, r)
    /\ c.calm /\ c.replaces[x] = 0 /\ ~(ToSet(c.anchors[x]) \subseteq c.spared) =>
         (d.rec[x].state \in Active => r.state \in Active)

\* Writing one record.
LEMMA HeldRecord ==
    ASSUME NEW c, NEW d \in Held(c), NEW x \in Ids, NEW r \in Rec, x \in Parents => r.replaces = 0,
           Stays(c, x, r), x \in Parents => ParentFits(c, d, x, r), x \in Speedups => SpeedupFits(c, d, x, r)
    PROVE  [d EXCEPT !.rec[x] = r] \in Held(c)
  <1> DEFINE e == [d EXCEPT !.rec[x] = r]
  <1>1. d \in Allowed(c) /\ d \in Store /\ (c.calm => Covers(c, d))
    BY DEF Held, Allowed
  <1>2. /\ e \in Store /\ e.list = d.list /\ e.psp = d.psp
        /\ \A y \in Ids : e.rec[y] = IF y = x THEN r ELSE d.rec[y]
    BY <1>1, WriteRecord
  <1> HIDE DEF e
  <1>3. e \in Allowed(c)
    <2>1. \A y \in Speedups : Permits(c, y, e.rec[y])
      BY <1>1, <1>2, Names DEF Allowed, SpeedupFits
    <2>2. \A y \in Ids : Stays(c, y, e.rec[y])
      BY <1>1, <1>2 DEF Allowed
    <2> QED  BY <1>1, <1>2, <2>1, <2>2 DEF Allowed
  <1>4. ASSUME c.calm  PROVE Covers(c, e)
    <2> SUFFICES ASSUME NEW p \in Parents \ c.spared
                 PROVE  e.rec[p].state \in Active \/ p \in c.due =>
                          p \in ToSet(e.psp) \/ \E s \in Speedups : CoveredBy(c, e, s, p)
      BY DEF Covers
    <2>1. d.rec[p].state \in Active \/ p \in c.due =>
            p \in ToSet(d.psp) \/ \E s \in Speedups : CoveredBy(c, d, s, p)
      BY <1>1, <1>4 DEF Covers
    <2>2. p \in Ids /\ p \notin Speedups /\ p \in Parents /\ p \notin c.spared
      BY Names
    <2>4. e.rec[p].state \in Active \/ p \in c.due =>
            d.rec[p].state \in Active \/ p \in c.due \/ p \in ToSet(e.psp)
      BY <1>2, <1>4, <2>2 DEF ParentFits
    <2>5. ASSUME NEW s \in Speedups, CoveredBy(c, d, s, p)  PROVE CoveredBy(c, e, s, p)
      <3>1. p \in ToSet(c.anchors[s]) /\ c.replaces[s] = 0 /\ d.rec[s].state \in Active
        BY <2>5 DEF CoveredBy
      <3>2. s \in Ids /\ e.rec[s] = IF s = x THEN r ELSE d.rec[s]
        BY <1>2, Names
      <3>3. e.rec[s].state \in Active
        BY <1>4, <2>2, <3>1, <3>2 DEF SpeedupFits
      <3> QED  BY <3>1, <3>3 DEF CoveredBy
    <2> QED  BY <1>2, <2>1, <2>4, <2>5
  <1> QED
    BY <1>3, <1>4 DEF Held, e

\* A run continued with a write that no frame sees.
LEMMA RunElsewhere ==
    ASSUME NEW A, NEW c, Allowed(c) \subseteq A, NEW t \in Runs(A, c), NEW e \in Store,
           Alike(Now(t), e), ToSet(e.list) \subseteq ToSet(Now(t).list),
           ToSet(Now(t).psp) \subseteq ToSet(e.psp)
    PROVE  Put(t, e) \in Runs(A, c) /\ Now(Put(t, e)) = e
  <1>1. e \in Held(c)
    BY RunNow, HeldElsewhere
  <1> QED
    BY <1>1, RunPut

\* Stores with the same records are alike.
LEMMA AlikeRecs ==
    ASSUME NEW d, NEW e, e.rec = d.rec
    PROVE  Alike(d, e)
  BY DEF Alike

\* add_news.
LEMMA AddNewsRun ==
    ASSUME NEW A, NEW c, Allowed(c) \subseteq A, NEW t \in Runs(A, c), NEW kind \in Kinds,
           NEW x \in Ids \cup Fundings \cup {0}
    PROVE  /\ AddNews(t, kind, x) \in Runs(A, c)
           /\ Now(AddNews(t, kind, x)).rec = Now(t).rec
           /\ Now(AddNews(t, kind, x)).list = Now(t).list
           /\ Now(AddNews(t, kind, x)).psp = Now(t).psp
  <1> DEFINE d == Now(t)
             v == d.news \cup {<<kind, x>>}
             e == [d EXCEPT !.news = v]
  <1>1. d \in Store
    BY RunNow
  <1>2. AddNews(t, kind, x) = Put(t, e)
    BY DEF AddNews
  <1> HIDE DEF d
  <1>3. v \in SUBSET NewsItems
    BY <1>1, StoreFields DEF NewsItems
  <1> HIDE DEF v
  <1>4. e \in Store /\ e.rec = d.rec /\ e.list = d.list /\ e.psp = d.psp
    BY <1>1, <1>3, WriteNews
  <1> HIDE DEF e
  <1>5. Alike(d, e)
    BY <1>4, AlikeRecs
  <1> QED
    BY <1>2, <1>4, <1>5, RunElsewhere DEF d

\* update_tx.
LEMMA UpdateTxRun ==
    ASSUME NEW A, NEW c, Allowed(c) \subseteq A, NEW t \in Runs(A, c),
           NEW x \in Ids, NEW r \in Rec, x \in Parents => r.replaces = 0,
           Stays(c, x, r), x \in Parents => ParentFits(c, Now(t), x, r),
           x \in Speedups => SpeedupFits(c, Now(t), x, r)
    PROVE  /\ UpdateTx(t, x, r) \in Runs(A, c)
           /\ Now(UpdateTx(t, x, r)).list = Now(t).list
           /\ Now(UpdateTx(t, x, r)).psp = Now(t).psp
           /\ \A y \in Ids : Now(UpdateTx(t, x, r)).rec[y] = IF y = x THEN r ELSE Now(t).rec[y]
  <1> DEFINE d == Now(t)
             e == [d EXCEPT !.rec[x] = r]
  <1>1. d \in Held(c) /\ d \in Store
    BY RunNow
  <1>2. UpdateTx(t, x, r) = Put(t, e)
    BY DEF UpdateTx
  <1>3. /\ x \in Parents => ParentFits(c, d, x, r)
        /\ x \in Speedups => SpeedupFits(c, d, x, r)
        /\ Stays(c, x, r)
    OBVIOUS
  <1> HIDE DEF d
  <1>4. e \in Held(c)
    BY <1>1, <1>3, HeldRecord
  <1>5. /\ e.list = d.list /\ e.psp = d.psp
        /\ \A y \in Ids : e.rec[y] = IF y = x THEN r ELSE d.rec[y]
    BY <1>1, WriteRecord
  <1> HIDE DEF e
  <1> QED
    BY <1>2, <1>4, <1>5, RunPut DEF d

\* Where a checked transition may lead: what is queued may wait, and a root that
\* is given up has its parents spared.
MayGo(c, x, to) ==
    x \in Speedups =>
        /\ x \notin c.fresh
        /\ to = "ToDispatch" => x \in c.wait
        /\ c.calm /\ c.replaces[x] = 0 /\ to \notin Active => ToSet(c.anchors[x]) \subseteq c.spared

\* No transition revives a record.
LEMMA LivelyFromLively ==
    ASSUME NEW from \in TransactionState, NEW to \in TransactionState, CanTransitionTo(from, to)
    PROVE  /\ to # "Failed" => from # "Failed"
           /\ to # "Unregistered" /\ from # "Unregistered"
  BY DEF CanTransitionTo, Transitions, TransactionState, Active, Terminal

\* A checked transition that keeps what it replaces and covers.
LEMMA CheckedRun ==
    ASSUME NEW A, NEW c, Allowed(c) \subseteq A, NEW t \in Runs(A, c),
           NEW x \in Ids, NEW to \in TransactionState, NEW r \in Rec,
           r.state = to, r.replaces = Now(t).rec[x].replaces, r.parents = Now(t).rec[x].parents,
           MayGo(c, x, to)
    PROVE  Checked(t, x, to, r) \in Runs(A, c)
  <1> DEFINE d == Now(t)
  <1>1. d \in Held(c) /\ d \in Store /\ Now(t) = d
    BY RunNow
  <1>2. d.rec[x] \in Rec /\ d.rec[x].state \in RecordState /\ (x \in Parents => d.rec[x].replaces = 0)
    BY <1>1, StoreFields, RecFields
  <1>3. r.state = to /\ r.replaces = d.rec[x].replaces /\ r.parents = d.rec[x].parents
    OBVIOUS
  <1>4. x \in Ids \cup Fundings \cup {0} /\ "TxNotFound" \in Kinds
        /\ "InvalidStateTransition" \in Kinds
    BY DEF Kinds
  <1> HIDE DEF d
  <1>5. CASE ~Known(d, x)
    BY <1>1, <1>4, <1>5, AddNewsRun DEF Checked
  <1>6. CASE Known(d, x) /\ ~CanTransitionTo(d.rec[x].state, to)
    BY <1>1, <1>4, <1>6, AddNewsRun DEF Checked
  <1>7. CASE Known(d, x) /\ CanTransitionTo(d.rec[x].state, to)
    <2>1. Checked(t, x, to, r) = UpdateTx(t, x, r)
      BY <1>1, <1>7 DEF Checked
    <2>2. d.rec[x].state \in TransactionState
      BY <1>2, <1>7 DEF Known, RecordState
    <2>3. /\ to \in Active => d.rec[x].state \in Active
          /\ to # "Failed" => d.rec[x].state # "Failed"
          /\ to # "Unregistered" /\ d.rec[x].state # "Unregistered"
      BY <1>7, <2>2, ActiveFromActive, LivelyFromLively
    <2>4. x \in Parents => ParentFits(c, Now(t), x, r)
      BY <1>1, <1>3, <2>3 DEF ParentFits
    <2>5. ASSUME x \in Speedups  PROVE SpeedupFits(c, Now(t), x, r)
      <3>1. Permits(c, x, d.rec[x])
        BY <1>1, <2>5 DEF Held, Allowed
      <3>2. Permits(c, x, r)
        BY <1>3, <2>3, <2>5, <3>1 DEF Permits, MayGo, Lively
      <3>3. c.calm /\ c.replaces[x] = 0 /\ ~(ToSet(c.anchors[x]) \subseteq c.spared) => to \in Active
        BY <2>5 DEF MayGo
      <3> QED  BY <1>1, <1>3, <3>2, <3>3 DEF SpeedupFits
    <2>6. x \in Parents => r.replaces = 0
      BY <1>2, <1>3
    <2>7. Stays(c, x, r)
      BY <1>1, <1>3, <2>3 DEF Held, Allowed, Stays
    <2> QED  BY <2>1, <2>4, <2>5, <2>6, <2>7, UpdateTxRun
  <1> QED
    BY <1>5, <1>6, <1>7

\* update_tx_state of the review.
LEMMA UpdateTxStateRun ==
    ASSUME NEW A, NEW c, Allowed(c) \subseteq A, NEW t \in Runs(A, c), NEW x \in Ids,
           NEW to \in {"InMempool", "Confirmed"}, MayGo(c, x, to)
    PROVE  UpdateTxState(t, x, to) \in Runs(A, c)
  <1> DEFINE o == Now(t).rec[x]
             r == [o EXCEPT !.state = to]
  <1>1. o \in Rec
    BY RunNow, StoreFields
  <1>2. UpdateTxState(t, x, to) = Checked(t, x, to, r)
    BY DEF UpdateTxState
  <1>3. to \in TransactionState
    BY DEF TransactionState, Active
  <1>4. o.replaces = Now(t).rec[x].replaces /\ o.parents = Now(t).rec[x].parents
    OBVIOUS
  <1> HIDE DEF o
  <1>5. r \in Rec /\ r.state = to /\ r.replaces = o.replaces /\ r.parents = o.parents
    BY <1>1, <1>3 DEF Rec, RecordState
  <1> HIDE DEF r
  <1> QED
    BY <1>2, <1>3, <1>4, <1>5, CheckedRun

\* settle_tx.
LEMMA SettleTxRun ==
    ASSUME NodeTypeOK, NEW A, NEW c, Allowed(c) \subseteq A, NEW t \in Runs(A, c), NEW x \in Ids,
           NEW to \in Terminal, MayGo(c, x, to)
    PROVE  SettleTx(t, x, to, vheight) \in Runs(A, c)
  <1> DEFINE o == Now(t).rec[x]
             r == [o EXCEPT !.state = to, !.settled = vheight]
  <1>1. o \in Rec
    BY RunNow, StoreFields
  <1>2. SettleTx(t, x, to, vheight) = Checked(t, x, to, r)
    BY DEF SettleTx
  <1>3. to \in TransactionState
    BY DEF TransactionState
  <1>4. o.replaces = Now(t).rec[x].replaces /\ o.parents = Now(t).rec[x].parents
    OBVIOUS
  <1> HIDE DEF o
  <1>5. r \in Rec /\ r.state = to /\ r.replaces = o.replaces /\ r.parents = o.parents
    BY <1>1, <1>3, Heights DEF Rec, RecordState
  <1> HIDE DEF r
  <1> QED
    BY <1>2, <1>3, <1>4, <1>5, CheckedRun

\* requeue_not_found.
LEMMA RequeueNotFoundRun ==
    ASSUME NodeTypeOK, NEW A, NEW c, Allowed(c) \subseteq A, NEW t \in Runs(A, c), NEW x \in Ids,
           MayGo(c, x, "ToDispatch")
    PROVE  RequeueNotFound(t, x, vheight + MaxConfs) \in Runs(A, c)
  <1> DEFINE o == Now(t).rec[x]
             g == IF o.guard = 0 THEN vheight + MaxConfs ELSE o.guard
             r == [o EXCEPT !.state = "ToDispatch", !.guard = g]
  <1>1. o \in Rec
    BY RunNow, StoreFields
  <1>2. RequeueNotFound(t, x, vheight + MaxConfs) = Checked(t, x, "ToDispatch", r)
    BY DEF RequeueNotFound
  <1>3. "ToDispatch" \in TransactionState
    BY DEF TransactionState, Active
  <1>4. o.replaces = Now(t).rec[x].replaces /\ o.parents = Now(t).rec[x].parents
    OBVIOUS
  <1> HIDE DEF o
  <1>5. g \in 0..(MaxHeight + MaxConfs)
    BY <1>1, Heights, RecFields
  <1> HIDE DEF g
  <1>6. r \in Rec /\ r.state = "ToDispatch" /\ r.replaces = o.replaces /\ r.parents = o.parents
    BY <1>1, <1>3, <1>5 DEF Rec, RecordState
  <1> HIDE DEF r
  <1> QED
    BY <1>2, <1>3, <1>4, <1>6, CheckedRun

\* mark_as_retry.
LEMMA MarkAsRetryRun ==
    ASSUME NEW A, NEW c, Allowed(c) \subseteq A, NEW t \in Runs(A, c), NEW x \in Ids,
           MayGo(c, x, "ToDispatch")
    PROVE  MarkAsRetry(t, x) \in Runs(A, c)
  <1> DEFINE o == Now(t).rec[x]
             n == Min({o.retries + 1, RetryAttempts})
             r == [o EXCEPT !.state = "ToDispatch", !.retries = n]
  <1>1. o \in Rec
    BY RunNow, StoreFields
  <1>2. MarkAsRetry(t, x) = Checked(t, x, "ToDispatch", r)
    BY DEF MarkAsRetry
  <1>3. "ToDispatch" \in TransactionState
    BY DEF TransactionState, Active
  <1>4. o.replaces = Now(t).rec[x].replaces /\ o.parents = Now(t).rec[x].parents
    OBVIOUS
  <1> HIDE DEF o
  <1>5. n \in 0..RetryAttempts
    <2>1. o.retries \in 0..RetryAttempts /\ RetryAttempts \in Nat
      BY <1>1, RecFields, StoreAssumption
    <2> DEFINE S == {o.retries + 1, RetryAttempts}
    <2>2. \E y \in S : \A z \in S : y <= z
      BY <2>1
    <2>3. Min(S) \in S /\ \A z \in S : Min(S) <= z
      BY <2>2 DEF Min
    <2> QED  BY <2>1, <2>3
  <1> HIDE DEF n
  <1>6. r \in Rec /\ r.state = "ToDispatch" /\ r.replaces = o.replaces /\ r.parents = o.parents
    BY <1>1, <1>3, <1>5 DEF Rec, RecordState
  <1> HIDE DEF r
  <1> QED
    BY <1>2, <1>3, <1>4, <1>6, CheckedRun

\* A speedup leaves the SpeedupList.
LEMMA UnlistRun ==
    ASSUME NEW A, NEW c, Allowed(c) \subseteq A, NEW t \in Runs(A, c), NEW x
    PROVE  /\ RemoveSpeedupFromList(t, x) \in Runs(A, c)
           /\ Now(RemoveSpeedupFromList(t, x)).rec = Now(t).rec
           /\ Now(RemoveSpeedupFromList(t, x)).psp = Now(t).psp
  <1> DEFINE d == Now(t)
             v == Without(d.list, x)
             e == [d EXCEPT !.list = v]
  <1>1. d \in Store
    BY RunNow
  <1>2. RemoveSpeedupFromList(t, x) = Put(t, e)
    BY DEF RemoveSpeedupFromList
  <1> HIDE DEF d
  <1>3. v \in Lists(Speedups) /\ ToSet(v) = ToSet(d.list) \ {x}
    BY <1>1, StoreFields, WithoutKeeps
  <1> HIDE DEF v
  <1>4. e \in Store /\ e.rec = d.rec /\ e.list = v /\ e.psp = d.psp
    BY <1>1, <1>3, WriteList
  <1> HIDE DEF e
  <1>5. Alike(d, e) /\ ToSet(e.list) \subseteq ToSet(d.list) /\ ToSet(d.psp) \subseteq ToSet(e.psp)
    BY <1>3, <1>4, AlikeRecs
  <1> QED
    BY <1>2, <1>4, <1>5, RunElsewhere DEF d

\* remove_tx, of a record that need not stay and covers no parent.
LEMMA RemoveTxRun ==
    ASSUME NEW A, NEW c, Allowed(c) \subseteq A, NEW t \in Runs(A, c), NEW x \in Ids,
           x \notin c.keep,
           x \in Speedups => x \notin c.fresh /\ Now(t).rec[x].state \notin Active
    PROVE  /\ RemoveTx(t, x) \in Runs(A, c)
           /\ \A y \in Ids : Now(RemoveTx(t, x)).rec[y] = IF y = x THEN NoRecord ELSE Now(t).rec[y]
           /\ Now(RemoveTx(t, x)).psp = Now(t).psp
  <1> DEFINE u == UpdateTx(t, x, NoRecord)
  <1>1. NoRecord \in Rec /\ NoRecord.replaces = 0 /\ NoRecord.state = "Unregistered"
    BY BlankRecords
  <1>2. "Unregistered" \notin Active /\ "Unregistered" # "ToDispatch"
    BY DEF Active
  <1>3. x \in Parents => ParentFits(c, Now(t), x, NoRecord)
    BY <1>1, <1>2 DEF ParentFits
  <1>4. x \in Speedups => SpeedupFits(c, Now(t), x, NoRecord)
    BY <1>1, <1>2 DEF SpeedupFits, Permits, Lively
  <1>5. Stays(c, x, NoRecord)
    BY <1>1, <1>2 DEF Stays
  <1>6. /\ u \in Runs(A, c) /\ Now(u).psp = Now(t).psp
        /\ \A y \in Ids : Now(u).rec[y] = IF y = x THEN NoRecord ELSE Now(t).rec[y]
    BY <1>1, <1>3, <1>4, <1>5, UpdateTxRun
  <1>7. RemoveTx(t, x) = RemoveSpeedupFromList(u, x)
    BY DEF RemoveTx
  <1> HIDE DEF u
  <1> QED
    BY <1>6, <1>7, UnlistRun

\* A new value of PendingSpeedupParents that holds the old one.
LEMMA GrowPsp ==
    ASSUME NEW A, NEW c, Allowed(c) \subseteq A, NEW t \in Runs(A, c), NEW v \in Lists(Parents),
           ToSet(Now(t).psp) \subseteq ToSet(v)
    PROVE  /\ Put(t, [Now(t) EXCEPT !.psp = v]) \in Runs(A, c)
           /\ Now(Put(t, [Now(t) EXCEPT !.psp = v])).rec = Now(t).rec
           /\ Now(Put(t, [Now(t) EXCEPT !.psp = v])).psp = v
  <1> DEFINE d == Now(t)
             e == [d EXCEPT !.psp = v]
  <1>1. d \in Store /\ ToSet(d.psp) \subseteq ToSet(v)
    BY RunNow
  <1> HIDE DEF d
  <1>2. e \in Store /\ e.rec = d.rec /\ e.list = d.list /\ e.psp = v
    BY <1>1, WritePsp
  <1> HIDE DEF e
  <1>3. Alike(d, e)
    BY <1>2, AlikeRecs
  <1>4. Put(t, e) \in Runs(A, c) /\ Now(Put(t, e)) = e
    BY <1>1, <1>2, <1>3, RunElsewhere DEF d
  <1> QED
    BY <1>2, <1>4 DEF e, d

\* add_pending_speedup_parent.
LEMMA AddPendingRun ==
    ASSUME NEW A, NEW c, Allowed(c) \subseteq A, NEW t \in Runs(A, c), NEW p \in Parents
    PROVE  /\ AddPendingSpeedupParent(t, p) \in Runs(A, c)
           /\ p \in ToSet(Now(AddPendingSpeedupParent(t, p)).psp)
           /\ Now(AddPendingSpeedupParent(t, p)).rec = Now(t).rec
  <1> DEFINE q == Now(t).psp
  <1>1. q \in Lists(Parents) /\ q \in Seq(Parents)
    BY RunNow, StoreFields DEF Lists
  <1>2. AddPendingSpeedupParent(t, p) =
          IF Contains(q, p) THEN t ELSE Put(t, [Now(t) EXCEPT !.psp = Append(q, p)])
    BY DEF AddPendingSpeedupParent
  <1>3. q = Now(t).psp
    OBVIOUS
  <1> HIDE DEF q
  <1>4. Contains(q, p) => p \in ToSet(q)
    BY <1>1, ToSetOfSeq DEF Contains
  <1>5. ASSUME ~Contains(q, p)
        PROVE  Append(q, p) \in Lists(Parents) /\ ToSet(Append(q, p)) = ToSet(q) \cup {p}
    <2>1. p \notin ToSet(q)
      BY <1>1, <1>5, ToSetOfSeq DEF Contains
    <2> QED  BY <1>1, <2>1, ListAppend
  <1>6. CASE Contains(q, p)
    BY <1>2, <1>3, <1>4, <1>6
  <1>7. CASE ~Contains(q, p)
    <2> DEFINE v == Append(q, p)
    <2>1. v \in Lists(Parents) /\ ToSet(v) = ToSet(q) \cup {p}
      BY <1>5, <1>7
    <2>2. AddPendingSpeedupParent(t, p) = Put(t, [Now(t) EXCEPT !.psp = v])
      BY <1>2, <1>7
    <2> HIDE DEF v
    <2> QED  BY <1>3, <2>1, <2>2, GrowPsp
  <1> QED
    BY <1>6, <1>7

\* The members of a concatenation.
LEMMA ToSetOfConcat ==
    ASSUME NEW B, NEW q \in Seq(B), NEW r \in Seq(B)
    PROVE  ToSet(q \o r) = ToSet(q) \cup ToSet(r)
  <1> DEFINE w == q \o r
  <1>1. /\ w \in Seq(B) /\ Len(q) \in Nat /\ Len(r) \in Nat /\ Len(w) = Len(q) + Len(r)
        /\ \A i \in 1..Len(q) : w[i] = q[i]
        /\ \A i \in 1..Len(w) : i > Len(q) => i - Len(q) \in 1..Len(r) /\ w[i] = r[i - Len(q)]
        /\ \A i \in 1..Len(r) : w[Len(q) + i] = r[i]
    OBVIOUS
  <1> HIDE DEF w
  <1>2. ASSUME NEW x \in ToSet(w)  PROVE x \in ToSet(q) \cup ToSet(r)
    <2>1. PICK i \in 1..Len(w) : w[i] = x
      BY <1>1, ToSetOfSeq
    <2>2. CASE i <= Len(q)
      <3>1. i \in 1..Len(q) /\ q[i] = x
        BY <1>1, <2>1, <2>2
      <3> QED  BY <3>1, ToSetOfSeq
    <2>3. CASE i > Len(q)
      <3>1. i - Len(q) \in 1..Len(r) /\ r[i - Len(q)] = x
        BY <1>1, <2>1, <2>3
      <3> QED  BY <3>1, ToSetOfSeq
    <2> QED  BY <1>1, <2>2, <2>3
  <1>3. ASSUME NEW x \in ToSet(q)  PROVE x \in ToSet(w)
    <2>1. PICK i \in 1..Len(q) : q[i] = x
      BY ToSetOfSeq
    <2>2. i \in 1..Len(w) /\ w[i] = x
      BY <1>1, <2>1
    <2> QED  BY <1>1, <2>2, ToSetOfSeq
  <1>4. ASSUME NEW x \in ToSet(r)  PROVE x \in ToSet(w)
    <2>1. PICK i \in 1..Len(r) : r[i] = x
      BY ToSetOfSeq
    <2>2. Len(q) + i \in 1..Len(w) /\ w[Len(q) + i] = x
      BY <1>1, <2>1
    <2> QED  BY <1>1, <2>2, ToSetOfSeq
  <1> QED
    BY <1>2, <1>3, <1>4 DEF w

\* prepend_pending_speedup_parents.
LEMMA PrependRun ==
    ASSUME NEW A, NEW c, Allowed(c) \subseteq A, NEW t \in Runs(A, c), NEW ps \in Lists(Ids)
    PROVE  /\ PrependPendingSpeedupParents(t, ps) \in Runs(A, c)
           /\ Now(PrependPendingSpeedupParents(t, ps)).rec = Now(t).rec
           /\ ToSet(ps) \cap Parents \subseteq ToSet(Now(PrependPendingSpeedupParents(t, ps)).psp)
  <1> DEFINE q == Now(t).psp
             missing == Where(ps, Parents \ ToSet(q))
             v == missing \o q
  <1>1. q \in Lists(Parents)
    BY RunNow, StoreFields
  <1>2. PrependPendingSpeedupParents(t, ps) = Put(t, [Now(t) EXCEPT !.psp = v])
    BY DEF PrependPendingSpeedupParents
  <1>3. q = Now(t).psp
    OBVIOUS
  <1> HIDE DEF q
  <1>4. missing \in Lists(Ids) /\ ToSet(missing) = ToSet(ps) \cap (Parents \ ToSet(q))
    <2>1. ps \in Seq(Ids)
      BY DEF Lists
    <2> QED  BY <2>1, WhereKeeps
  <1> HIDE DEF missing
  <1>5. missing \in Lists(Parents)
    BY <1>4, ListNarrow
  <1>6. v \in Lists(Parents)
    BY <1>1, <1>4, <1>5, ListConcat
  <1>7. ToSet(v) = ToSet(missing) \cup ToSet(q)
    <2>1. missing \in Seq(Parents) /\ q \in Seq(Parents)
      BY <1>1, <1>5 DEF Lists
    <2> QED  BY <2>1, ToSetOfConcat
  <1> HIDE DEF v
  <1> QED
    BY <1>2, <1>3, <1>4, <1>6, <1>7, GrowPsp

\* remove_pending_speedup_parent, of a parent that needs no speedup.
LEMMA RemovePendingRun ==
    ASSUME NEW A, NEW c, Allowed(c) \subseteq A, NEW t \in Runs(A, c), NEW p,
           c.calm /\ p \in Parents \ c.spared => Now(t).rec[p].state \notin Active /\ p \notin c.due
    PROVE  /\ RemovePendingSpeedupParent(t, p) \in Runs(A, c)
           /\ Now(RemovePendingSpeedupParent(t, p)).rec = Now(t).rec
           /\ Now(RemovePendingSpeedupParent(t, p)).list = Now(t).list
  <1> DEFINE d == Now(t)
             v == Without(d.psp, p)
             e == [d EXCEPT !.psp = v]
  <1>1. d \in Store /\ d \in Held(c)
    BY RunNow
  <1>2. RemovePendingSpeedupParent(t, p) = Put(t, e)
    BY DEF RemovePendingSpeedupParent
  <1>3. c.calm /\ p \in Parents \ c.spared => d.rec[p].state \notin Active /\ p \notin c.due
    OBVIOUS
  <1> HIDE DEF d
  <1>4. v \in Lists(Parents) /\ ToSet(v) = ToSet(d.psp) \ {p}
    BY <1>1, StoreFields, WithoutKeeps
  <1> HIDE DEF v
  <1>5. e \in Store /\ e.rec = d.rec /\ e.list = d.list /\ e.psp = v
    BY <1>1, <1>4, WritePsp
  <1> HIDE DEF e
  <1>6. e \in Allowed(c)
    BY <1>1, <1>5 DEF Held, Allowed
  <1>7. c.calm => Covers(c, e)
    BY <1>1, <1>3, <1>4, <1>5 DEF Held, Covers, CoveredBy, Known
  <1>8. e \in Held(c)
    BY <1>6, <1>7 DEF Held
  <1> QED
    BY <1>2, <1>5, <1>8, RunPut DEF d

\* get_pending_speedup_parents.
LEMMA PruneParentsRun ==
    ASSUME NEW A, NEW c, Allowed(c) \subseteq A, c.due = {}, NEW t \in Runs(A, c)
    PROVE  PruneParents(t) \in Runs(A, c)
  <1> DEFINE q == Now(t).psp
             T == Runs(A, c)
  <1>1. q \in Seq(Parents)
    BY RunNow, StoreFields DEF Lists
  <1>2. PruneParents(t) = PruneLoop(t, q)
    BY Zenon DEF PruneParents, PruneLoop
  <1>3. ASSUME NEW acc \in T, NEW p \in Parents
        PROVE  (IF Now(acc).rec[p].state \in {"Failed", "Unregistered"}
                THEN RemovePendingSpeedupParent(acc, p) ELSE acc) \in T
    <2>1. Now(acc).rec[p].state \in {"Failed", "Unregistered"} => Now(acc).rec[p].state \notin Active
      BY DEF Active
    <2> QED  BY <2>1, RemovePendingRun
  <1> HIDE DEF q, T
  <1>4. t \in T
    BY DEF T
  <1>5. PruneParents(t) \in T
    BY <1>1, <1>2, <1>3, <1>4, PruneFold
  <1> QED
    BY <1>5 DEF T

\* evict_stale_txs forgets terminal records only.
LEMMA EvictStaleTxsRun ==
    ASSUME NEW A, NEW c, Allowed(c) \subseteq A, c.due = {}, c.keep = {}, c.fresh = {},
           NEW t \in Runs(A, c), NEW h
    PROVE  EvictStaleTxs(t, h) \in Runs(A, c)
  <1> DEFINE stale == StaleTxs(Now(t), h)
             q == SetToSeq(stale)
             T == {u \in Runs(A, c) : \A x \in stale : Now(u).rec[x].state \notin Active}
  <1>1. stale \in SUBSET Ids /\ \A x \in stale : Now(t).rec[x].state \notin Active
    BY DEF StaleTxs, Terminal, Active
  <1>2. EvictStaleTxs(t, h) = EvictLoop(t, q)
    BY Zenon DEF EvictStaleTxs, EvictLoop
  <1> HIDE DEF stale
  <1>3. q \in Seq(stale)
    BY <1>1, SubsetsOfIds
  <1>4. ASSUME NEW acc \in T, NEW x \in stale
        PROVE  AddNews(RemoveTx(acc, x), "TransactionEvicted", x) \in T
    <2> DEFINE u == RemoveTx(acc, x)
               v == AddNews(u, "TransactionEvicted", x)
    <2>1. x \in Ids /\ acc \in Runs(A, c) /\ Now(acc).rec[x].state \notin Active
      BY <1>1
    <2>2. u \in Runs(A, c) /\ \A y \in Ids : Now(u).rec[y] = IF y = x THEN NoRecord ELSE Now(acc).rec[y]
      BY <2>1, RemoveTxRun
    <2> HIDE DEF u
    <2>3. v \in Runs(A, c) /\ Now(v).rec = Now(u).rec
      BY <2>1, <2>2, AddNewsRun DEF Kinds
    <2> HIDE DEF v
    <2>4. NoRecord.state \notin Active
      BY BlankRecords DEF Active
    <2>5. \A y \in stale : Now(v).rec[y].state \notin Active
      BY <1>1, <2>2, <2>3, <2>4
    <2>6. v \in T
      BY <2>3, <2>5
    <2> QED  BY <2>6 DEF v, u
  <1>5. t \in T
    BY <1>1
  <1> HIDE DEF q, T
  <1>6. EvictStaleTxs(t, h) \in T
    BY <1>2, <1>3, <1>4, <1>5, EvictFold
  <1> QED
    BY <1>6 DEF T

-----------------------------------------------------------------------------
(* Marks and funding. *)

\* A write of what frames do not see in the record of a speedup.
LEMMA QuietUpdate ==
    ASSUME NEW A, NEW c, Allowed(c) \subseteq A, NEW t \in Runs(A, c), NEW x \in Speedups, NEW r \in Rec,
           r.state = Now(t).rec[x].state, r.replaces = Now(t).rec[x].replaces,
           r.parents = Now(t).rec[x].parents, r.broadcast = Now(t).rec[x].broadcast
    PROVE  /\ UpdateTx(t, x, r) \in Runs(A, c)
           /\ Now(UpdateTx(t, x, r)).list = Now(t).list
           /\ Now(UpdateTx(t, x, r)).psp = Now(t).psp
           /\ Alike(Now(t), Now(UpdateTx(t, x, r)))
  <1> DEFINE d == Now(t)
             e == [d EXCEPT !.rec[x] = r]
  <1>1. /\ d \in Store /\ x \in Ids /\ x \notin Parents
        /\ r.state = d.rec[x].state /\ r.replaces = d.rec[x].replaces
        /\ r.parents = d.rec[x].parents /\ r.broadcast = d.rec[x].broadcast
    BY RunNow, Names
  <1>2. UpdateTx(t, x, r) = Put(t, e)
    BY DEF UpdateTx
  <1> HIDE DEF d
  <1>3. /\ e \in Store /\ e.list = d.list /\ e.psp = d.psp
        /\ \A y \in Ids : e.rec[y] = IF y = x THEN r ELSE d.rec[y]
    BY <1>1, WriteRecord
  <1> HIDE DEF e
  <1>4. Alike(d, e)
    BY <1>1, <1>3 DEF Alike
  <1> QED
    BY <1>2, <1>3, <1>4, RunElsewhere DEF d

\* Writing a funding record.
LEMMA FundsRun ==
    ASSUME NEW A, NEW c, Allowed(c) \subseteq A, NEW t \in Runs(A, c), NEW o \in Outputs, NEW v \in Marks
    PROVE  Put(t, [Now(t) EXCEPT !.funds[o] = v]) \in Runs(A, c)
  <1> DEFINE d == Now(t)
             e == [d EXCEPT !.funds[o] = v]
  <1>1. d \in Store
    BY RunNow
  <1> HIDE DEF d
  <1>2. e \in Store /\ e.rec = d.rec /\ e.list = d.list /\ e.psp = d.psp
    BY <1>1, WriteFunds
  <1> HIDE DEF e
  <1>3. Alike(d, e)
    BY <1>2, AlikeRecs
  <1>4. Put(t, e) \in Runs(A, c)
    BY <1>2, <1>3, RunElsewhere DEF d
  <1> QED
    BY <1>4 DEF e, d

\* Writing the funding queue.
LEMMA QueueRun ==
    ASSUME NEW A, NEW c, Allowed(c) \subseteq A, NEW t \in Runs(A, c), NEW v \in Seq(Outputs)
    PROVE  Put(t, [Now(t) EXCEPT !.queue = v]) \in Runs(A, c)
  <1> DEFINE d == Now(t)
             e == [d EXCEPT !.queue = v]
  <1>1. d \in Store
    BY RunNow
  <1> HIDE DEF d
  <1>2. e \in Store /\ e.rec = d.rec /\ e.list = d.list /\ e.psp = d.psp
    BY <1>1, WriteQueue
  <1> HIDE DEF e
  <1>3. Alike(d, e)
    BY <1>2, AlikeRecs
  <1>4. Put(t, e) \in Runs(A, c)
    BY <1>2, <1>3, RunElsewhere DEF d
  <1> QED
    BY <1>4 DEF e, d

\* set_spent.
LEMMA SetSpentRun ==
    ASSUME NEW A, NEW c, Allowed(c) \subseteq A, NEW t \in Runs(A, c), NEW o \in Outputs, NEW b \in BOOLEAN
    PROVE  SetSpent(t, o, b) \in Runs(A, c)
  <1> DEFINE d == Now(t)
             r == d.rec[o]
             e == [r EXCEPT !.spent = b]
  <1>1. d \in Store
    BY RunNow
  <1>2. CASE d.funds[o] # "none"
    <2> DEFINE v == IF b THEN "spent" ELSE "free"
    <2>1. v \in Marks
      BY DEF Marks
    <2>2. SetSpent(t, o, b) = Put(t, [Now(t) EXCEPT !.funds[o] = v])
      BY <1>2 DEF SetSpent
    <2> HIDE DEF v
    <2> QED  BY <2>1, <2>2, FundsRun
  <1>3. CASE d.funds[o] = "none" /\ o \in Speedups /\ Known(d, o)
    <2>1. SetSpent(t, o, b) = UpdateTx(t, o, e)
      BY <1>3 DEF SetSpent
    <2>2. r \in Rec
      BY <1>1, <1>3, Names, StoreFields
    <2>3. Now(t) = d /\ r = d.rec[o]
      OBVIOUS
    <2> HIDE DEF d, r
    <2>4. /\ e \in Rec /\ e.state = r.state /\ e.replaces = r.replaces
          /\ e.parents = r.parents /\ e.broadcast = r.broadcast
      BY <2>2 DEF Rec
    <2> HIDE DEF e
    <2> QED  BY <1>3, <2>1, <2>3, <2>4, QuietUpdate
  <1>4. CASE d.funds[o] = "none" /\ ~(o \in Speedups /\ Known(d, o))
    BY <1>4 DEF SetSpent
  <1> QED
    BY <1>2, <1>3, <1>4

\* Releasing marks.
LEMMA ReleaseMarksRun ==
    ASSUME NEW A, NEW c, Allowed(c) \subseteq A, NEW t \in Runs(A, c), NEW outputs \in Seq(Outputs)
    PROVE  ReleaseMarks(t, outputs) \in Runs(A, c)
  <1> DEFINE T == Runs(A, c)
  <1>1. t \in T /\ \A acc \in T, o \in Outputs : SetSpent(acc, o, FALSE) \in T
    BY SetSpentRun
  <1> HIDE DEF T
  <1>2. ReleaseMarks(t, outputs) \in T
    BY <1>1, ReleaseFold
  <1> QED
    BY <1>2 DEF T

\* append_funding.
LEMMA AppendFundingRun ==
    ASSUME NEW A, NEW c, Allowed(c) \subseteq A, NEW t \in Runs(A, c), NEW o \in Outputs
    PROVE  AppendFunding(t, o) \in Runs(A, c)
  <1> DEFINE stored == Put(t, [Now(t) EXCEPT !.funds[o] = "free"])
  <1>1. stored \in Runs(A, c)
    BY FundsRun DEF Marks
  <1>2. AppendFunding(t, o) =
          IF Contains(Now(t).queue, o) THEN stored
          ELSE Put(stored, [Now(stored) EXCEPT !.queue = Append(Now(stored).queue, o)])
    BY DEF AppendFunding
  <1> HIDE DEF stored
  <1>3. Append(Now(stored).queue, o) \in Seq(Outputs)
    BY <1>1, RunNow, StoreFields
  <1> QED
    BY <1>1, <1>2, <1>3, QueueRun

\* The change takes the place of the first consumed record.
LEMMA InsertedChange ==
    ASSUME NEW q \in Seq(Outputs), NEW consumed, NEW s \in Outputs,
           {i \in 1..Len(q) : q[i] \in consumed} # {}
    PROVE  LET found == {i \in 1..Len(q) : q[i] \in consumed}
           IN  InsertAt(Where(q, Outputs \ consumed), Min(found), s) \in Seq(Outputs)
  <1> DEFINE found == {i \in 1..Len(q) : q[i] \in consumed}
             position == Min(found)
             kept == Where(q, Outputs \ consumed)
  <1>1. found # {} /\ found \in SUBSET Nat /\ Len(q) \in Nat /\ position = Min(found)
    OBVIOUS
  <1>2. position \in found /\ \A i \in found : position <= i
    BY <1>1, MinExists
  <1>3. kept \in Seq(Outputs)
    BY WhereKeeps
  <1> HIDE DEF position
  <1>4. position \in 1..Len(q) /\ position - 1 \in 0..Len(q)
        /\ \A i \in 1..(position - 1) : q[i] \in Outputs \ consumed
    <2>1. position \in 1..Len(q)
      BY <1>2
    <2>2. ASSUME NEW i \in 1..(position - 1)  PROVE q[i] \in Outputs \ consumed
      <3>1. i \in 1..Len(q) /\ ~(position <= i)
        BY <1>1, <2>1
      <3>2. i \notin found
        BY <1>2, <3>1
      <3> QED  BY <3>1, <3>2
    <2> QED  BY <1>1, <2>1, <2>2
  <1>5. Len(kept) >= position - 1
    BY <1>4, WherePrefix
  <1> HIDE DEF kept
  <1>6. Len(kept) \in Nat /\ position \in 1..(Len(kept) + 1) /\ 1 \in 1..(Len(kept) + 1)
        /\ position - 1 \in (1 - 1)..Len(kept) /\ Len(kept) \in (position - 1)..Len(kept)
    BY <1>1, <1>3, <1>4, <1>5
  <1>7. SubSeq(kept, 1, position - 1) \in Seq(Outputs)
        /\ SubSeq(kept, position, Len(kept)) \in Seq(Outputs)
    BY <1>3, <1>6, SubSeqProperties
  <1>8. InsertAt(kept, position, s) \in Seq(Outputs)
    BY <1>3, <1>7 DEF InsertAt
  <1> QED
    BY <1>8 DEF kept, position

\* replace_funding_on_finalize.
LEMMA ReplaceFundingRun ==
    ASSUME TxShape, NEW A, NEW c, Allowed(c) \subseteq A, NEW t \in Runs(A, c), NEW s \in Speedups
    PROVE  ReplaceFundingOnFinalize(t, s) \in Runs(A, c)
  <1> DEFINE d == Now(t)
             q == d.queue
             consumed == ToSet(tx[s].funding)
             kept == Where(q, Outputs \ consumed)
             found == {i \in 1..Len(q) : q[i] \in consumed}
             position == IF found # {} THEN Min(found) ELSE 0
             removed == UnmarkLoop(t, Reverse(Where(q, consumed)))
             v == ChangeRecord(d.rec[s])
             stored == Put(removed, [Now(removed) EXCEPT !.funds[s] = v])
             w == InsertAt(kept, position, s)
             queued == Put(stored, [Now(stored) EXCEPT !.queue = w])
  <1>1. ReplaceFundingOnFinalize(t, s) =
          IF ~Known(d, s) \/ position = 0 THEN t ELSE RemoveSpeedupFromList(queued, s)
    BY Zenon DEF ReplaceFundingOnFinalize, SelectInSeq, UnmarkLoop
  <1>2. q \in Seq(Outputs) /\ s \in Outputs /\ v \in Marks
    BY RunNow, StoreFields, Names DEF ChangeRecord, Marks
  <1> HIDE DEF q, consumed, v, d
  <1>3. kept \in Seq(Outputs) /\ Where(q, consumed) \in Seq(Outputs)
    BY <1>2, WhereKeeps
  <1>4. removed \in Runs(A, c)
    <2> DEFINE T == Runs(A, c)
               r == Reverse(Where(q, consumed))
    <2>1. r \in Seq(Outputs)
      BY <1>3, ReverseSeq
    <2>2. t \in T /\ \A acc \in T, o \in Outputs :
            Put(acc, [Now(acc) EXCEPT !.funds[o] = "none"]) \in T
      BY FundsRun DEF Marks
    <2>3. removed = UnmarkLoop(t, r)
      OBVIOUS
    <2> HIDE DEF T, r, removed
    <2>4. removed \in T
      BY <2>1, <2>2, <2>3, UnmarkFold
    <2> QED  BY <2>4 DEF T
  <1> HIDE DEF removed
  <1>5. stored \in Runs(A, c)
    BY <1>2, <1>4, FundsRun
  <1> HIDE DEF stored
  <1>6. CASE ~Known(d, s) \/ position = 0
    BY <1>1, <1>6
  <1>7. CASE ~(~Known(d, s) \/ position = 0)
    <2>1. w \in Seq(Outputs)
      BY <1>2, <1>3, <1>7, InsertedChange DEF found, position, kept
    <2> HIDE DEF w
    <2>2. queued \in Runs(A, c)
      BY <1>5, <2>1, QueueRun
    <2> HIDE DEF queued
    <2> QED  BY <1>1, <1>7, <2>2, UnlistRun
  <1> QED
    BY <1>6, <1>7

-----------------------------------------------------------------------------
(* Review. *)

\* What a frame says of replacements: they have the anchors of what they replace,
\* and nothing that may be queued has a lively replacement.
Sound(c) ==
    /\ \A x \in Speedups : c.replaces[x] # 0 =>
         /\ c.replaces[x] \in Speedups
         /\ c.anchors[c.replaces[x]] = c.anchors[x] /\ c.replaces[x] \in c.built
    /\ \A r \in c.live, y \in c.wait : c.replaces[r] # y

\* remove_replaced_rbf of what is buried: nobody needs its anchors any more.
LEMMA RemoveReplacedRun ==
    ASSUME NodeTypeOK, NEW A, NEW c, Allowed(c) \subseteq A, Sound(c), c.fresh = {},
           NEW t \in Runs(A, c), NEW s \in Speedups,
           c.calm => ToSet(c.anchors[s]) \subseteq c.spared
    PROVE  RemoveReplacedRbf(t, s) \in Runs(A, c)
  <1> DEFINE q == ReplacedChain(Now(t), s)
             T == Runs(A, c)
             M == {r \in Speedups : c.anchors[r] = c.anchors[s]}
  <1>1. Now(t) \in Store /\ Now(t) \in Allowed(c)
    BY RunNow
  <1>2. ASSUME NEW r \in M  PROVE Now(t).rec[r].replaces \in M \cup {0}
    <2>1. Permits(c, r, Now(t).rec[r]) /\ r \in Speedups /\ c.anchors[r] = c.anchors[s]
      BY <1>1 DEF Allowed
    <2>2. CASE Now(t).rec[r].state = "Unregistered"
      BY <2>1, <2>2 DEF Permits
    <2>3. CASE Now(t).rec[r].state # "Unregistered"
      <3>1. Now(t).rec[r].replaces = c.replaces[r]
        BY <2>1, <2>3 DEF Permits
      <3> QED  BY <2>1, <3>1 DEF Sound
    <2> QED  BY <2>2, <2>3
  <1>3. q \in Seq(M)
    <2>1. s \in M
      OBVIOUS
    <2> HIDE DEF M
    <2> QED  BY <1>1, <1>2, <2>1, ReplacedChainIn
  <1>4. RemoveReplacedRbf(t, s) = FailLoop(t, q)
    BY Zenon DEF RemoveReplacedRbf, FailLoop
  <1>5. ASSUME NEW acc \in T, NEW r \in M  PROVE SettleTx(acc, r, "Failed", vheight) \in T
    <2>1. r \in Ids /\ MayGo(c, r, "Failed")
      BY Names DEF MayGo
    <2> QED  BY <2>1, SettleTxRun DEF Terminal
  <1>6. t \in T
    OBVIOUS
  <1> HIDE DEF q, T, M
  <1>7. RemoveReplacedRbf(t, s) \in T
    BY <1>3, <1>4, <1>5, <1>6, FailFold
  <1> QED
    BY <1>7 DEF T

\* The finalized arm of the review.
LEMMA ReviewFinalizedRun ==
    ASSUME NodeTypeOK, TxShape, NEW A, NEW c, Allowed(c) \subseteq A, Sound(c), c.fresh = {},
           NEW t \in Runs(A, c), NEW x \in Ids,
           c.calm /\ x \in Speedups => ToSet(c.anchors[x]) \subseteq c.spared
    PROVE  ReviewFinalized(t, x) \in Runs(A, c)
  <1> DEFINE u == SettleTx(t, x, "Finalized", vheight)
  <1>1. u \in Runs(A, c)
    <2>1. MayGo(c, x, "Finalized")
      BY DEF MayGo
    <2> QED  BY <2>1, SettleTxRun DEF Terminal
  <1>2. ReviewFinalized(t, x) =
          IF x \in Parents THEN u ELSE ReplaceFundingOnFinalize(RemoveReplacedRbf(u, x), x)
    BY DEF ReviewFinalized
  <1> HIDE DEF u
  <1>3. CASE x \in Parents
    BY <1>1, <1>2, <1>3
  <1>4. CASE x \notin Parents
    <2>1. x \in Speedups
      BY <1>4, Names
    <2>2. RemoveReplacedRbf(u, x) \in Runs(A, c)
      BY <1>1, <2>1, RemoveReplacedRun
    <2>3. ReplaceFundingOnFinalize(RemoveReplacedRbf(u, x), x) \in Runs(A, c)
      BY <2>1, <2>2, ReplaceFundingRun
    <2> QED  BY <1>2, <1>4, <2>3
  <1> QED
    BY <1>3, <1>4

\* What may be written back as the record of x from a copy taken before.
Copied(c, x, copy) ==
    /\ x \notin c.dead
    /\ x \in Parents => copy.replaces = 0 /\ (c.calm => x \in c.due \cup c.spared)
    /\ x \in Speedups =>
         /\ x \in c.built /\ copy.replaces = c.replaces[x]
         /\ c.replaces[x] = 0 /\ c.anchors[x] # <<>> => copy.parents = c.anchors[x]
         /\ x \in c.listed => x \in c.live
         /\ x \notin c.fresh

\* A record that is written back alive.
LEMMA WriteBack ==
    ASSUME NEW A, NEW c, Allowed(c) \subseteq A, NEW t \in Runs(A, c), NEW x \in Ids, NEW copy,
           Copied(c, x, copy), NEW r \in Rec, r.state \in {"InMempool", "Confirmed"},
           r.replaces = copy.replaces, r.parents = copy.parents
    PROVE  UpdateTx(t, x, r) \in Runs(A, c)
  <1>1. r.state \in Active /\ r.state # "ToDispatch" /\ r.state # "Unregistered" /\ Lively(r)
    BY DEF Active, Lively
  <1>2. x \in Parents => ParentFits(c, Now(t), x, r)
    BY <1>1 DEF Copied, ParentFits
  <1>3. x \in Speedups => SpeedupFits(c, Now(t), x, r)
    BY <1>1 DEF Copied, SpeedupFits, Permits
  <1>4. Stays(c, x, r) /\ (x \in Parents => r.replaces = 0)
    BY <1>1 DEF Copied, Stays
  <1> QED
    BY <1>2, <1>3, <1>4, UpdateTxRun

\* mark_reorg.
LEMMA MarkReorgRun ==
    ASSUME NodeTypeOK, NEW A, NEW c, Allowed(c) \subseteq A, NEW t \in Runs(A, c), NEW x \in Ids,
           NEW copy \in Rec, Copied(c, x, copy)
    PROVE  MarkReorg(t, x, copy) \in Runs(A, c)
  <1> DEFINE b == BroadcastAt(x)
             r == [copy EXCEPT !.state = "InMempool", !.broadcast = b]
  <1>1. b \in 0..MaxHeight
    BY BroadcastHeight
  <1>2. MarkReorg(t, x, copy) = UpdateTx(t, x, r)
    BY DEF MarkReorg
  <1> HIDE DEF b
  <1>3. r \in Rec /\ r.state = "InMempool" /\ r.replaces = copy.replaces /\ r.parents = copy.parents
    BY <1>1 DEF Rec, RecordState, TransactionState, Active
  <1> HIDE DEF r
  <1> QED
    BY <1>2, <1>3, WriteBack

\* One transaction is reviewed; d is what the pass began with.
LEMMA ReviewOneRun ==
    ASSUME NodeTypeOK, TxShape, NEW A, NEW c, Allowed(c) \subseteq A, Sound(c), c.fresh = {},
           NEW t \in Runs(A, c), NEW x \in Ids, NEW d \in Store, NEW orphans,
           Copied(c, x, d.rec[x]),
           x \in Speedups => x \in c.wait \/ HasLiveReplacement(d, x),
           c.calm /\ x \in Speedups /\ TxStatus(x, orphans) = "finalized" =>
             ToSet(c.anchors[x]) \subseteq c.spared
    PROVE  ReviewOne(t, x, d, orphans) \in Runs(A, c)
  <1> DEFINE status == TxStatus(x, orphans)
             R == Runs(A, c)
  <1>1. status \in Statuses
    BY DEF TxStatus, Statuses
  <1>2. d.rec[x] \in Rec
    BY StoreFields
  <1>3. CASE status = "in_mempool"
    <2>1. ReviewOne(t, x, d, orphans) =
            IF d.rec[x].state = "Confirmed" THEN MarkReorg(t, x, d.rec[x]) ELSE t
      BY <1>3 DEF ReviewOne
    <2> QED  BY <1>2, <2>1, MarkReorgRun
  <1>4. CASE status = "not_found"
    <2>1. ReviewOne(t, x, d, orphans) =
            IF x \in Speedups /\ HasLiveReplacement(d, x) THEN t
            ELSE RequeueNotFound(t, x, vheight + MaxConfs)
      BY <1>4 DEF ReviewOne
    <2>2. CASE x \in Speedups /\ HasLiveReplacement(d, x)
      BY <2>1, <2>2
    <2>3. CASE ~(x \in Speedups /\ HasLiveReplacement(d, x))
      <3>1. MayGo(c, x, "ToDispatch")
        BY <2>3 DEF MayGo, Active
      <3> QED  BY <2>1, <2>3, <3>1, RequeueNotFoundRun
    <2> QED  BY <2>2, <2>3
  <1>5. CASE status = "finalized"
    <2>1. ReviewOne(t, x, d, orphans) = ReviewFinalized(t, x)
      BY <1>5 DEF ReviewOne
    <2>2. c.calm /\ x \in Speedups => ToSet(c.anchors[x]) \subseteq c.spared
      BY <1>5
    <2> QED  BY <2>1, <2>2, ReviewFinalizedRun
  <1>6. ASSUME NEW to \in {"InMempool", "Confirmed"}  PROVE UpdateTxState(t, x, to) \in R
    <2>1. MayGo(c, x, to)
      BY DEF MayGo, Active
    <2> QED  BY <2>1, UpdateTxStateRun
  <1>7. CASE status = "confirmed"
    <2>1. ReviewOne(t, x, d, orphans) = UpdateTxState(t, x, "Confirmed")
      BY <1>7 DEF ReviewOne
    <2> QED  BY <1>6, <2>1
  <1>8. CASE status = "orphan"
    <2>1. ReviewOne(t, x, d, orphans) = UpdateTxState(t, x, "InMempool")
      BY <1>8 DEF ReviewOne
    <2> QED  BY <1>6, <2>1
  <1> QED
    BY <1>1, <1>3, <1>4, <1>5, <1>7, <1>8 DEF Statuses

\* The records that are on the network.
Flying(d) == {x \in Ids : d.rec[x].state \in {"InMempool", "Confirmed"}}

\* review_transactions and review_speedups.
LEMMA ReviewPassRun ==
    ASSUME NodeTypeOK, TxShape, NEW A, NEW c, Allowed(c) \subseteq A, Sound(c), c.fresh = {},
           NEW t \in Runs(A, c), NEW xs \in Seq(Ids), NEW orphans,
           \A x \in Flying(Now(t)) :
             /\ Copied(c, x, Now(t).rec[x])
             /\ x \in Speedups => x \in c.wait \/ HasLiveReplacement(Now(t), x)
             /\ c.calm /\ x \in Speedups /\ TxStatus(x, orphans) = "finalized" =>
                  ToSet(c.anchors[x]) \subseteq c.spared
    PROVE  ReviewPass(t, xs, orphans) \in Runs(A, c)
  <1> DEFINE d == Now(t)
             inFlight == Where(xs, Flying(d))
             T == Runs(A, c)
  <1>1. ReviewPass(t, xs, orphans) = ReviewLoop(t, inFlight, d, orphans)
    BY Zenon DEF ReviewPass, ReviewLoop, Flying
  <1>2. d \in Store
    BY RunNow
  <1>3. ASSUME NEW acc \in T, NEW x \in Flying(d)  PROVE ReviewOne(acc, x, d, orphans) \in T
    <2>1. x \in Ids
      BY DEF Flying
    <2> QED  BY <1>2, <2>1, ReviewOneRun
  <1>4. t \in T
    OBVIOUS
  <1> HIDE DEF d, T
  <1>5. inFlight \in Seq(Flying(d))
    <2>1. inFlight \in Seq(Ids) /\ ToSet(inFlight) = ToSet(xs) \cap Flying(d)
      BY WhereKeeps
    <2> HIDE DEF inFlight
    <2>2. \A i \in 1..Len(inFlight) : inFlight[i] \in Flying(d)
      BY <2>1, ToSetOfSeq
    <2> QED  BY <2>1, <2>2
  <1> HIDE DEF inFlight
  <1>6. ReviewPass(t, xs, orphans) \in T
    BY <1>1, <1>3, <1>4, <1>5, ReviewFold
  <1> QED
    BY <1>6 DEF T

-----------------------------------------------------------------------------
(* Outcomes of a dispatch. *)

\* mark_replaced_by touches nothing a frame sees.
LEMMA MarkReplacedByRun ==
    ASSUME NEW A, NEW c, Allowed(c) \subseteq A, NEW t \in Runs(A, c), NEW r \in Rec, NEW by,
           IsRbf(r) => by \in 0..MaxSpeedups
    PROVE  MarkReplacedBy(t, r, by) \in Runs(A, c)
  <1> DEFINE x == r.replaces
             o == Now(t).rec[x]
             e == [o EXCEPT !.replacedBy = by]
  <1>1. MarkReplacedBy(t, r, by) = IF IsRbf(r) /\ Known(Now(t), x) THEN UpdateTx(t, x, e) ELSE t
    BY DEF MarkReplacedBy
  <1>2. CASE ~(IsRbf(r) /\ Known(Now(t), x))
    BY <1>1, <1>2
  <1>3. CASE IsRbf(r) /\ Known(Now(t), x)
    <2>1. x \in Speedups
      <3>1. x \in 0..MaxSpeedups /\ x # 0 /\ MaxSpeedups \in Nat
        BY <1>3, RecFields, Names DEF IsRbf
      <3> QED  BY <3>1 DEF Speedups
    <2>2. o \in Rec /\ o = Now(t).rec[x]
      BY <2>1, RunRecord
    <2>3. UpdateTx(t, x, e) = MarkReplacedBy(t, r, by)
      BY <1>1, <1>3
    <2> HIDE DEF x, o
    <2>4. /\ e \in Rec /\ e.state = o.state /\ e.replaces = o.replaces
          /\ e.parents = o.parents /\ e.broadcast = o.broadcast
      BY <1>3, <2>2 DEF Rec
    <2> HIDE DEF e
    <2> QED  BY <2>1, <2>2, <2>3, <2>4, QuietUpdate
  <1> QED
    BY <1>2, <1>3

\* mark_accepted writes back the copy that was sent.
LEMMA MarkAcceptedRun ==
    ASSUME NodeTypeOK, NEW A, NEW c, Allowed(c) \subseteq A, NEW t \in Runs(A, c), NEW x \in Ids,
           NEW copy \in Rec, x \in Parents => copy.replaces = 0, Copied(c, x, copy)
    PROVE  MarkAccepted(t, x, copy) \in Runs(A, c)
  <1> DEFINE u == MarkReplacedBy(t, copy, x)
             b == BroadcastAt(x)
             r == [copy EXCEPT !.state = "InMempool", !.broadcast = b, !.guard = 0]
  <1>1. MarkAccepted(t, x, copy) = UpdateTx(u, x, r)
    BY DEF MarkAccepted
  <1>2. u \in Runs(A, c)
    <2>1. IsRbf(copy) => x \in 0..MaxSpeedups
      BY Names DEF IsRbf
    <2> QED  BY <2>1, MarkReplacedByRun
  <1>3. b \in 0..MaxHeight
    BY BroadcastHeight
  <1> HIDE DEF b, u
  <1>4. r \in Rec /\ r.state = "InMempool" /\ r.replaces = copy.replaces /\ r.parents = copy.parents
    BY <1>3, Heights DEF Rec, RecordState, TransactionState, Active
  <1> HIDE DEF r
  <1> QED
    BY <1>1, <1>2, <1>4, WriteBack

\* mark_already_confirmed.
LEMMA MarkConfirmedRun ==
    ASSUME NodeTypeOK, NEW A, NEW c, Allowed(c) \subseteq A, NEW t \in Runs(A, c), NEW x \in Ids,
           NEW copy \in Rec, x \in Parents => copy.replaces = 0, Copied(c, x, copy)
    PROVE  MarkAlreadyConfirmed(t, x, copy) \in Runs(A, c)
  <1> DEFINE u == MarkReplacedBy(t, copy, x)
             b == IF copy.broadcast = 0 THEN BroadcastAt(x) ELSE copy.broadcast
             r == [copy EXCEPT !.state = "Confirmed", !.guard = 0, !.broadcast = b]
  <1>1. MarkAlreadyConfirmed(t, x, copy) = UpdateTx(u, x, r)
    BY DEF MarkAlreadyConfirmed
  <1>2. u \in Runs(A, c)
    <2>1. IsRbf(copy) => x \in 0..MaxSpeedups
      BY Names DEF IsRbf
    <2> QED  BY <2>1, MarkReplacedByRun
  <1>3. b \in 0..MaxHeight
    BY BroadcastHeight, RecFields
  <1> HIDE DEF b, u
  <1>4. r \in Rec /\ r.state = "Confirmed" /\ r.replaces = copy.replaces /\ r.parents = copy.parents
    BY <1>3, Heights DEF Rec, RecordState, TransactionState, Active
  <1> HIDE DEF r
  <1> QED
    BY <1>1, <1>2, <1>4, WriteBack

\* What a dispatch may settle is queued, and stays known.
Sending(c) == c.fresh = {} /\ c.wait \cup c.due \subseteq c.keep

\* settle_failed_dispatch up to the parents of a CPFP that lost its funding.
LEMMA SettleRun ==
    ASSUME NodeTypeOK, TxShape, NEW A, NEW c, Allowed(c) \subseteq A, NEW t \in Runs(A, c),
           NEW x \in Ids, MayGo(c, x, "Failed")
    PROVE  /\ SettleFailedDispatch(t, x, FALSE) \in Runs(A, c)
           /\ x \in Speedups =>
                SettleFailedDispatch(t, x, TRUE) =
                  RequeueProtocolParents(SettleFailedDispatch(t, x, FALSE), x)
           /\ x \in Parents => SettleFailedDispatch(t, x, TRUE) = SettleFailedDispatch(t, x, FALSE)
  <1> DEFINE r == Now(t).rec[x]
             told == AddNews(SettleTx(t, x, "Failed", vheight), "DispatchError", x)
             released == IF IsRbf(r) THEN MarkReplacedBy(ReleaseMarks(told, r.fresh), r, 0)
                         ELSE ReleaseMarks(told, tx[x].funding)
  <1>1. \A f : SettleFailedDispatch(t, x, f) =
          IF x \in Parents THEN told
          ELSE IF f THEN RequeueProtocolParents(released, x) ELSE released
    BY DEF SettleFailedDispatch
  <1>2. told \in Runs(A, c)
    <2>1. SettleTx(t, x, "Failed", vheight) \in Runs(A, c)
      BY SettleTxRun DEF Terminal
    <2> QED  BY <2>1, AddNewsRun DEF Kinds
  <1>3. r \in Rec /\ r.fresh \in Seq(Outputs)
    BY RunNow, StoreFields, RecFields
  <1> HIDE DEF told, r
  <1>4. ASSUME x \in Speedups  PROVE released \in Runs(A, c)
    <2>1. ReleaseMarks(told, tx[x].funding) \in Runs(A, c)
      BY <1>2, <1>4, ReleaseMarksRun DEF TxShape
    <2>2. ReleaseMarks(told, r.fresh) \in Runs(A, c)
      BY <1>2, <1>3, ReleaseMarksRun
    <2>3. MarkReplacedBy(ReleaseMarks(told, r.fresh), r, 0) \in Runs(A, c)
      BY <1>3, <2>2, MarkReplacedByRun, Names
    <2> QED  BY <2>1, <2>3
  <1> HIDE DEF released
  <1>5. CASE x \in Parents
    <2>1. x \notin Speedups
      BY <1>5, Names
    <2> QED  BY <1>1, <1>2, <1>5, <2>1
  <1>6. CASE x \notin Parents
    <2>1. x \in Speedups
      BY <1>6, Names
    <2> QED  BY <1>1, <1>4, <1>6, <2>1
  <1> QED
    BY <1>5, <1>6

\* requeue_protocol_parents: what was spared is covered again.
LEMMA RequeueRun ==
    ASSUME TxShape, NEW A, NEW c, Allowed(c) \subseteq A, NEW s \in Speedups, s \in c.keep,
           c.replaces[s] = 0, Sending(c),
           NEW t \in Runs(A, Sparing(c, ToSet(c.anchors[s])))
    PROVE  RequeueProtocolParents(t, s) \in Runs(A, c)
  <1> DEFINE e == Sparing(c, ToSet(c.anchors[s]))
             r == Now(t).rec[s]
             ps == KnownParents(Now(t), r.parents)
             u == PrependPendingSpeedupParents(t, ps)
  <1>1. Allowed(e) = Allowed(c)
    BY SparingRuns
  <1>2. Allowed(e) \subseteq A /\ t \in Runs(A, e)
    BY <1>1
  <1> HIDE DEF e
  <1>3. Now(t) \in Allowed(c) /\ Now(t) \in Store /\ s \in Ids
    BY <1>1, <1>2, RunNow, Names
  <1>4. r \in Rec /\ Permits(c, s, r) /\ Stays(c, s, r)
    BY <1>3, StoreFields DEF Allowed
  <1>5. r.parents \in Lists(Ids) /\ r.parents \in Seq(Ids)
    BY <1>4, RecFields DEF Lists
  <1>6. c.anchors[s] # <<>> => r.parents = c.anchors[s]
    BY <1>4 DEF Permits, Stays
  <1>7. RequeueProtocolParents(t, s) = u
    BY DEF RequeueProtocolParents
  <1> HIDE DEF r
  <1>8. ps \in Lists(Ids) /\ ToSet(ps) = ToSet(r.parents) \cap {p \in Parents : Known(Now(t), p)}
    BY <1>5, KnownParentsList, WhereKeeps DEF KnownParents
  <1> HIDE DEF ps
  <1>9. /\ u \in Runs(A, e) /\ Now(u).rec = Now(t).rec
        /\ ToSet(ps) \cap Parents \subseteq ToSet(Now(u).psp)
    BY <1>2, <1>8, PrependRun
  <1> HIDE DEF u
  <1>10. ASSUME NEW p \in Parents, p \in ToSet(c.anchors[s]),
                Now(u).rec[p].state \in Active \/ p \in c.due
         PROVE  p \in ToSet(Now(u).psp)
    <2>1. Known(Now(t), p)
      <3>1. "Unregistered" \notin Active
        BY DEF Active
      <3>2. Stays(c, p, Now(t).rec[p])
        BY <1>3, Names DEF Allowed
      <3> QED  BY <1>9, <1>10, <3>1, <3>2 DEF Known, Stays, Sending
    <2>2. c.anchors[s] # <<>>
      BY <1>10 DEF ToSet
    <2>3. p \in ToSet(ps)
      BY <1>6, <1>8, <1>10, <2>1, <2>2
    <2> QED  BY <1>9, <2>3
  <1>11. u \in Runs(A, c)
    BY <1>9, <1>10, NoLongerSpared DEF e
  <1> QED
    BY <1>7, <1>11

\* settle_failed_dispatch of a CPFP that lost its funding, or of a parent.
LEMMA SettleLostRun ==
    ASSUME NodeTypeOK, TxShape, NEW A, NEW c, Allowed(c) \subseteq A, Sending(c), NEW t \in Runs(A, c),
           NEW x \in Ids, x \in Speedups => x \in c.keep
    PROVE  SettleFailedDispatch(t, x, TRUE) \in Runs(A, c)
  <1>1. CASE x \in Parents
    <2>1. MayGo(c, x, "Failed")
      BY <1>1, Names DEF MayGo
    <2> QED  BY <1>1, <2>1, SettleRun
  <1>2. CASE x \in Speedups /\ c.replaces[x] # 0
    <2>1. MayGo(c, x, "Failed")
      BY <1>2 DEF MayGo, Sending
    <2>2. SettleFailedDispatch(t, x, FALSE) \in Runs(A, c)
      BY <2>1, SettleRun
    <2> DEFINE u == SettleFailedDispatch(t, x, FALSE)
               ps == KnownParents(Now(u), Now(u).rec[x].parents)
    <2>3. SettleFailedDispatch(t, x, TRUE) = PrependPendingSpeedupParents(u, ps)
      BY <1>2, <2>1, SettleRun DEF RequeueProtocolParents
    <2> HIDE DEF u
    <2>4. ps \in Lists(Ids)
      BY <2>2, RunNow, StoreFields, RecFields, KnownParentsList DEF u
    <2> HIDE DEF ps
    <2> QED  BY <2>2, <2>3, <2>4, PrependRun DEF u
  <1>3. CASE x \in Speedups /\ c.replaces[x] = 0
    <2> DEFINE e == Sparing(c, ToSet(c.anchors[x]))
    <2>1. /\ Allowed(e) \subseteq A /\ t \in Runs(A, e)
          /\ e.fresh = c.fresh /\ e.replaces = c.replaces /\ e.anchors = c.anchors
          /\ ToSet(c.anchors[x]) \subseteq e.spared
      BY SparingRuns, SparingFields
    <2>2. MayGo(e, x, "Failed")
      BY <1>3, <2>1 DEF MayGo, Sending
    <2> HIDE DEF e
    <2>3. /\ SettleFailedDispatch(t, x, FALSE) \in Runs(A, e)
          /\ SettleFailedDispatch(t, x, TRUE) =
               RequeueProtocolParents(SettleFailedDispatch(t, x, FALSE), x)
      BY <1>3, <2>1, <2>2, SettleRun
    <2> QED  BY <1>3, <2>3, RequeueRun DEF e
  <1> QED
    BY <1>1, <1>2, <1>3, Names

\* How a speedup may be given up without its parents: it has none, or none that
\* still count.
MayFail(c, x, fundingMissing) ==
    IF fundingMissing THEN x \in Speedups => x \in c.keep ELSE MayGo(c, x, "Failed")

\* fail_and_cascade gives every victim's parents back.
LEMMA FailAndCascadeRun ==
    ASSUME NodeTypeOK, TxShape, NEW A, NEW c, Allowed(c) \subseteq A, Sending(c), NEW t \in Runs(A, c),
           NEW x \in Ids, NEW fundingMissing \in BOOLEAN, MayFail(c, x, fundingMissing)
    PROVE  FailAndCascade(t, x, fundingMissing) \in Runs(A, c)
  <1> DEFINE q == Where(Oldest \o Oldest, Listed(Now(t)))
             settled == SettleFailedDispatch(t, x, fundingMissing)
             first == [trace |-> settled, dead |-> {x}]
             R == Runs(A, c)
             T == [trace : R, dead : SUBSET Ids]
  <1>1. FailAndCascade(t, x, fundingMissing) = CascadeLoop(first, q).trace
    BY Zenon DEF FailAndCascade, CascadeLoop
  <1>2. q \in Seq(Speedups)
    <2>1. Oldest \in Seq(Speedups)
      BY Names DEF Oldest, Speedups
    <2>2. Oldest \o Oldest \in Seq(Speedups)
      BY <2>1
    <2> QED  BY <2>2, WhereKeeps
  <1>3. settled \in R
    <2>1. CASE fundingMissing = TRUE
      BY <2>1, SettleLostRun DEF MayFail
    <2>2. CASE fundingMissing = FALSE
      BY <2>2, SettleRun DEF MayFail
    <2> QED  BY <2>1, <2>2
  <1>4. ASSUME NEW u \in R, NEW s \in Speedups, NEW dead, Dependent(Now(u), s, dead)
        PROVE  SettleFailedDispatch(u, s, TRUE) \in R
    <2>1. Permits(c, s, Now(u).rec[s]) /\ Now(u).rec[s].state = "ToDispatch"
      BY <1>4, RunRecord DEF Dependent, Queued
    <2>2. s \in c.keep /\ s \in Ids
      BY <2>1, Names DEF Permits, Sending
    <2> QED  BY <2>2, SettleLostRun
  <1> HIDE DEF q, R, settled
  <1>5. first \in T
    BY <1>3
  <1>6. ASSUME NEW acc \in T, NEW s \in Speedups
        PROVE  (IF Dependent(Now(acc.trace), s, acc.dead)
                THEN [trace |-> SettleFailedDispatch(acc.trace, s, TRUE), dead |-> acc.dead \cup {s}]
                ELSE acc) \in T
    <2>1. s \in Ids /\ acc.trace \in R /\ acc.dead \in SUBSET Ids
      BY Names
    <2>2. Dependent(Now(acc.trace), s, acc.dead) => SettleFailedDispatch(acc.trace, s, TRUE) \in R
      BY <1>4, <2>1
    <2> QED  BY <2>1, <2>2
  <1> HIDE DEF first, T
  <1>7. CascadeLoop(first, q) \in T
    BY <1>2, <1>5, <1>6, CascadeFold
  <1>8. CascadeLoop(first, q).trace \in R
    BY <1>7 DEF T
  <1> QED
    BY <1>1, <1>8 DEF R

\* rebuild_survivors: the parents that are not dead wait for another CPFP.
LEMMA RebuildRun ==
    ASSUME NodeTypeOK, TxShape, NEW A, NEW c, Allowed(c) \subseteq A, Sending(c), c.due = {},
           NEW t \in Runs(A, c), NEW s \in Speedups, c.anchors[s] = tx[s].anchors,
           \A p \in Parents : Now(t).rec[p].state = "Failed" => p \in c.dead
    PROVE  RebuildSurvivors(t, s) \in Runs(A, c)
  <1> DEFINE alive == {p \in Parents : Now(t).rec[p].state # "Failed"}
             survivors == Where(tx[s].anchors, alive)
             failed == FailAndCascade(t, s, FALSE)
             ps == KnownParents(Now(failed), survivors)
             u == PrependPendingSpeedupParents(failed, ps)
             e == Sparing(c, ToSet(c.anchors[s]))
  <1>1. RebuildSurvivors(t, s) = u
    BY DEF RebuildSurvivors
  <1>2. /\ Allowed(e) = Allowed(c) /\ t \in Runs(A, e)
        /\ e.fresh = c.fresh /\ e.anchors = c.anchors /\ e.wait = c.wait /\ e.due = c.due
        /\ e.keep = c.keep /\ ToSet(c.anchors[s]) \subseteq e.spared
    BY SparingRuns, SparingFields
  <1>3. Sending(e) /\ MayFail(e, s, FALSE) /\ Allowed(e) \subseteq A /\ s \in Ids
    BY <1>2, Names DEF Sending, MayFail, MayGo
  <1> HIDE DEF e
  <1>4. failed \in Runs(A, e)
    BY <1>2, <1>3, FailAndCascadeRun
  <1>5. tx[s].anchors \in Lists(Parents) /\ tx[s].anchors \in Seq(Parents)
    BY DEF TxShape, Lists
  <1>6. survivors \in Lists(Ids) /\ ToSet(survivors) = ToSet(tx[s].anchors) \cap alive
    <2> HIDE DEF alive
    <2>1. survivors \in Lists(Parents) /\ ToSet(survivors) = ToSet(tx[s].anchors) \cap alive
      BY <1>5, WhereKeeps
    <2>2. ToSet(tx[s].anchors) \subseteq Parents
      BY <1>5, ToSetOfSeq
    <2> HIDE DEF survivors
    <2>3. ToSet(survivors) \subseteq Ids
      BY <2>1, <2>2, Names
    <2> QED  BY <2>1, <2>3, ListNarrow
  <1> HIDE DEF failed, survivors
  <1>7. survivors \in Seq(Ids)
    BY <1>6 DEF Lists
  <1>8. ps \in Lists(Ids) /\ ToSet(ps) = ToSet(survivors) \cap {p \in Parents : Known(Now(failed), p)}
    BY <1>6, <1>7, KnownParentsList, WhereKeeps DEF KnownParents
  <1> HIDE DEF ps
  <1>9. /\ u \in Runs(A, e) /\ Now(u).rec = Now(failed).rec
        /\ ToSet(ps) \cap Parents \subseteq ToSet(Now(u).psp)
    BY <1>3, <1>4, <1>8, PrependRun
  <1> HIDE DEF u
  <1>10. ASSUME NEW p \in Parents, p \in ToSet(c.anchors[s]),
                Now(u).rec[p].state \in Active \/ p \in c.due
         PROVE  p \in ToSet(Now(u).psp)
    <2>1. Now(u).rec[p].state \in Active
      BY <1>10
    <2>2. p \in Ids /\ Stays(c, p, Now(u).rec[p])
      BY <1>2, <1>9, RunNow, Names DEF Allowed
    <2>3. p \in alive
      BY <2>1, <2>2 DEF Stays
    <2>4. Known(Now(failed), p)
      BY <1>9, <2>1 DEF Known, Active
    <2>5. p \in ToSet(ps)
      BY <1>6, <1>8, <1>10, <2>3, <2>4
    <2> QED  BY <1>9, <2>5
  <1>11. u \in Runs(A, c)
    BY <1>9, <1>10, NoLongerSpared DEF e
  <1> QED
    BY <1>1, <1>11

\* settle_failed_child, of a speedup.
LEMMA SettleFailedChildRun ==
    ASSUME NodeTypeOK, TxShape, NEW A, NEW c, Allowed(c) \subseteq A, Sending(c), c.due = {},
           NEW t \in Runs(A, c), NEW s \in Speedups, s \in c.keep, c.anchors[s] = tx[s].anchors,
           \A p \in Parents : Now(t).rec[p].state = "Failed" => p \in c.dead
    PROVE  SettleFailedChild(t, s) \in Runs(A, c)
  <1>1. SettleFailedChild(t, s) =
          IF ~IsBoost(Now(t), s) THEN RebuildSurvivors(t, s) ELSE FailAndCascade(t, s, FALSE)
    BY DEF SettleFailedChild
  <1>2. CASE ~IsBoost(Now(t), s)
    BY <1>1, <1>2, RebuildRun
  <1>3. CASE IsBoost(Now(t), s)
    <2>1. Permits(c, s, Now(t).rec[s]) /\ Stays(c, s, Now(t).rec[s]) /\ s \in Ids
      BY RunNow, Names DEF Allowed
    <2>2. Now(t).rec[s].replaces = c.replaces[s]
      BY <2>1 DEF Permits, Stays
    <2>3. c.replaces[s] = 0 => ToSet(c.anchors[s]) \subseteq c.spared
      BY <1>3, <2>2, EmptyList DEF IsBoost, IsRbf
    <2>4. MayFail(c, s, FALSE)
      BY <2>3 DEF MayFail, MayGo, Sending
    <2> QED  BY <1>1, <1>3, <2>1, <2>4, FailAndCascadeRun
  <1> QED
    BY <1>2, <1>3

\* One result of dispatch_pending is handled.
LEMMA HandleParentRun ==
    ASSUME NodeTypeOK, TxShape, db \in Store, NEW A, NEW c, Allowed(c) \subseteq A, Sending(c),
           NEW t \in Runs(A, c), NEW p \in Parents, NEW taken, p \in c.due, p \notin c.dead
    PROVE  HandleParent(t, p, taken) \in Runs(A, c)
  <1> DEFINE copy == db.rec[p]
             R == Runs(A, c)
  <1>1. p \in Ids /\ p \notin Speedups /\ copy \in Rec /\ copy.replaces = 0
    BY StoreFields, Names
  <1> HIDE DEF copy
  <1>2. Copied(c, p, copy) /\ MayGo(c, p, "ToDispatch") /\ MayFail(c, p, FALSE)
    BY <1>1 DEF Copied, MayGo, MayFail
  <1>3. MarkAccepted(t, p, copy) \in R /\ MarkAlreadyConfirmed(t, p, copy) \in R
    BY <1>1, <1>2, MarkAcceptedRun, MarkConfirmedRun
  <1>4. MarkAsRetry(t, p) \in R /\ FailAndCascade(t, p, FALSE) \in R
    BY <1>1, <1>2, MarkAsRetryRun, FailAndCascadeRun
  <1>5. SettleFailedChild(t, p) \in R
    BY <1>1, <1>4 DEF SettleFailedChild
  <1> HIDE DEF R
  <1>6. HandleParent(t, p, taken) \in R
    BY <1>3, <1>4, <1>5 DEF HandleParent, copy
  <1> QED
    BY <1>6 DEF R

\* classify_dispatch_error; a speedup whose retry budget is spent is given up.
LEMMA ClassifyRun ==
    ASSUME NodeTypeOK, TxShape, NEW A, NEW c, Allowed(c) \subseteq A, Sending(c), c.due = {},
           NEW t \in Runs(A, c), NEW s \in Speedups, NEW copy \in Rec, Copied(c, s, copy),
           s \in c.wait, c.anchors[s] = tx[s].anchors,
           \A p \in Parents : Now(t).rec[p].state = "Failed" => p \in c.dead,
           /\ s \notin Present /\ ~FundingMissing(s) /\ ~AnchorMissing(s) /\ BudgetSpent(copy)
           => ToSet(c.anchors[s]) \subseteq c.spared
    PROVE  Classify(t, s, copy) \in Runs(A, c)
  <1> DEFINE R == Runs(A, c)
  <1>1. s \in Ids /\ s \notin Parents /\ s \in c.keep /\ MayGo(c, s, "ToDispatch")
    BY Names DEF Sending, MayGo, Active
  <1>2. MarkAccepted(t, s, copy) \in R /\ MarkAlreadyConfirmed(t, s, copy) \in R
    BY <1>1, MarkAcceptedRun, MarkConfirmedRun
  <1>3. MarkAsRetry(t, s) \in R /\ SettleFailedChild(t, s) \in R
    BY <1>1, MarkAsRetryRun, SettleFailedChildRun
  <1>4. FailAndCascade(t, s, TRUE) \in R
    BY <1>1, FailAndCascadeRun DEF MayFail
  <1>5. ASSUME s \notin Present, ~FundingMissing(s), ~AnchorMissing(s), BudgetSpent(copy)
        PROVE  FailAndCascade(t, s, FALSE) \in R
    <2>1. MayFail(c, s, FALSE)
      BY <1>5 DEF MayFail, MayGo, Sending
    <2> QED  BY <1>1, <2>1, FailAndCascadeRun
  <1> HIDE DEF R
  <1>6. Classify(t, s, copy) \in R
    BY <1>2, <1>3, <1>4, <1>5 DEF Classify, Present
  <1> QED
    BY <1>6 DEF R

-----------------------------------------------------------------------------
(* Building. *)

\* build_speedup marks and releases.
LEMMA BuildRun ==
    ASSUME NEW A, NEW c, Allowed(c) \subseteq A, NEW t \in Runs(A, c),
           NEW inherited \in Seq(Outputs), NEW fee
    PROVE  Build(t, inherited, fee).trace \in Runs(A, c)
  <1> DEFINE choice == FundingChoice(Now(t))
             first == IF inherited # <<>> THEN inherited ELSE <<CHOOSE o \in choice : TRUE>>
             marked == IF inherited # <<>> THEN t ELSE SetSpent(t, Head(first), TRUE)
             extra == IF Len(first) = 1 /\ IsSpeedupDerived(Now(t), Head(first))
                      THEN CombineChoice(Now(marked)) ELSE {}
             both == IF extra = {} THEN first ELSE Append(first, CHOOSE o \in extra : TRUE)
             swept == IF extra = {} THEN marked ELSE SetSpent(marked, Last(both), TRUE)
             own == SubSeq(both, Len(inherited) + 1, Len(both))
             poor == [trace |-> AddNews(ReleaseMarks(swept, own), "InsufficientFunds", 0),
                      inputs |-> <<>>]
             none == [trace |-> AddNews(t, "FundingNotAvailable", 0), inputs |-> <<>>]
             b == Build(t, inherited, fee)
  <1>1. b = IF inherited = <<>> /\ choice = {} THEN none
            ELSE IF Pays(first, fee) THEN [trace |-> marked, inputs |-> first]
            ELSE IF Pays(both, fee) THEN [trace |-> swept, inputs |-> both]
            ELSE poor
    BY Zenon DEF Build
  <1>2. choice \subseteq Outputs
    BY RunNow, ChoicesAreOutputs
  <1>3. AddNews(t, "FundingNotAvailable", 0) \in Runs(A, c)
    BY AddNewsRun DEF Kinds
  <1>4. CASE inherited = <<>> /\ choice = {}
    <2>1. b = none
      BY <1>1, <1>4
    <2> HIDE DEF b
    <2>2. b.trace \in Runs(A, c)
      BY <1>3, <2>1
    <2> QED  BY <2>2 DEF b
  <1>5. CASE ~(inherited = <<>> /\ choice = {})
    <2> HIDE DEF choice
    <2>1. first \in Seq(Outputs) /\ first # <<>> /\ Len(inherited) <= Len(first)
      <3>1. CASE inherited # <<>>
        BY <3>1
      <3>2. CASE inherited = <<>>
        <4> DEFINE o == CHOOSE o \in choice : TRUE
        <4>1. o \in Outputs
          BY <1>2, <1>5, <3>2
        <4>2. first = <<o>>
          BY <3>2
        <4> HIDE DEF o, first
        <4> QED  BY <3>2, <4>1, <4>2
      <3> QED  BY <3>1, <3>2
    <2>2. Head(first) \in Outputs
      BY <2>1, HeadLast
    <2>3. marked \in Runs(A, c)
      <3> HIDE DEF first
      <3> QED  BY <2>2, SetSpentRun
    <2> HIDE DEF first, marked
    <2>4. extra \subseteq Outputs
      BY <2>3, RunNow, ChoicesAreOutputs
    <2> HIDE DEF extra
    <2>5. both \in Seq(Outputs) /\ both # <<>> /\ Len(inherited) <= Len(both)
      <3>1. CASE extra = {}
        BY <2>1, <3>1
      <3>2. CASE extra # {}
        <4> DEFINE o == CHOOSE o \in extra : TRUE
        <4>1. o \in Outputs
          BY <2>4, <3>2
        <4>2. both = Append(first, o)
          BY <3>2
        <4> HIDE DEF o, both
        <4>3. Append(first, o) \in Seq(Outputs) /\ Len(Append(first, o)) = Len(first) + 1
          BY <2>1, <4>1
        <4>4. Len(first) \in Nat /\ Len(inherited) \in Nat
          BY <2>1
        <4>5. both # <<>>
          BY <4>2, <4>3, <4>4
        <4> QED  BY <2>1, <4>2, <4>3, <4>4, <4>5
      <3> QED  BY <3>1, <3>2
    <2>6. Last(both) \in Outputs
      BY <2>5, HeadLast
    <2> HIDE DEF both
    <2>7. swept \in Runs(A, c)
      BY <2>3, <2>6, SetSpentRun
    <2>8. own \in Seq(Outputs)
      <3>1. Len(inherited) + 1 \in 1..(Len(both) + 1) /\ Len(both) \in Len(inherited)..Len(both)
            /\ (Len(inherited) + 1) - 1 = Len(inherited)
        BY <2>5
      <3> QED  BY <2>5, <3>1, SubSeqProperties
    <2> HIDE DEF swept, own
    <2>9. AddNews(ReleaseMarks(swept, own), "InsufficientFunds", 0) \in Runs(A, c)
      <3>1. ReleaseMarks(swept, own) \in Runs(A, c)
        BY <2>7, <2>8, ReleaseMarksRun
      <3> QED  BY <3>1, AddNewsRun DEF Kinds
    <2>10. b.trace \in {marked, swept, AddNews(ReleaseMarks(swept, own), "InsufficientFunds", 0)}
      <3> HIDE DEF b
      <3>1. \/ b = [trace |-> marked, inputs |-> first]
            \/ b = [trace |-> swept, inputs |-> both]
            \/ b = poor
        BY <1>1, <1>5
      <3> QED  BY <3>1
    <2> HIDE DEF b
    <2>11. b.trace \in Runs(A, c)
      BY <2>3, <2>7, <2>9, <2>10
    <2> QED  BY <2>11 DEF b
  <1> QED
    BY <1>4, <1>5

-----------------------------------------------------------------------------
(* How stored speedups hang together. *)

\* The records of d agree with the transactions T: a record of a speedup has its
\* transaction, a CPFP the parents whose anchors it spends, a replacement the
\* anchors of what it replaces; and what a lively listed speedup replaces is not
\* queued.
Linked(d, T) ==
    /\ \A x \in Speedups :
         IF d.rec[x].state = "Unregistered" THEN d.rec[x].replaces = 0
         ELSE /\ T[x] # NoTx
              /\ d.rec[x].replaces = 0 /\ T[x].anchors # <<>> => d.rec[x].parents = T[x].anchors
    /\ \A x \in Speedups : d.rec[x].replaces # 0 =>
         T[d.rec[x].replaces] # NoTx /\ T[d.rec[x].replaces].anchors = T[x].anchors
    /\ \A x \in ToSet(d.list), y \in Speedups :
         Lively(d.rec[x]) /\ d.rec[y].state = "ToDispatch" => d.rec[x].replaces # y

\* The stores on the way of a step that builds nothing.
LinkedStores(T) == {d \in Store : Linked(d, T)}

\* Every parent that is alive and not in X waits for a CPFP or has one.
Covering(d, T, X) ==
    \A p \in Parents \ X :
        d.rec[p].state \in Active =>
            \/ p \in ToSet(d.psp)
            \/ \E s \in Speedups : /\ p \in ToSet(T[s].anchors) /\ d.rec[s].replaces = 0
                                   /\ d.rec[s].state \in Active

\* The frame c starts from the store d.
Suits(c, d, T) ==
    /\ \A x \in Speedups : c.replaces[x] = d.rec[x].replaces /\ c.anchors[x] = T[x].anchors
    /\ c.built = {x \in Speedups : T[x] # NoTx}
    /\ c.listed = ToSet(d.list) /\ c.fresh = {}
    /\ \A x \in Speedups : d.rec[x].state = "ToDispatch" => x \in c.wait
    /\ \A x \in ToSet(d.list) : Lively(d.rec[x]) => x \in c.live
    /\ \A r \in c.live, y \in c.wait : c.replaces[r] # y
    /\ \A x \in Ids : Stays(c, x, d.rec[x])
    /\ \A p \in c.due : d.rec[p].state \in Active
    /\ c.calm => Covering(d, T, c.spared)

\* Such a frame is sound and holds the store it starts from.
LEMMA FrameStart ==
    ASSUME NEW T, NEW d \in LinkedStores(T), NEW c, Suits(c, d, T)
    PROVE  d \in Held(c) /\ Sound(c)
  <1>1. d \in Store /\ Linked(d, T)
    BY DEF LinkedStores
  <1>2. \A x \in Speedups : d.rec[x].replaces \in 0..MaxSpeedups
    BY <1>1, StoreFields, RecFields, Names
  <1>3. \A x \in Speedups : d.rec[x].replaces # 0 => d.rec[x].replaces \in Speedups
    BY <1>2, Names DEF Speedups
  <1>4. ASSUME NEW x \in Speedups  PROVE Permits(c, x, d.rec[x])
    <2>1. IF d.rec[x].state = "Unregistered" THEN d.rec[x].replaces = 0
          ELSE /\ T[x] # NoTx
               /\ d.rec[x].replaces = 0 /\ T[x].anchors # <<>> => d.rec[x].parents = T[x].anchors
      BY <1>1 DEF Linked
    <2>2. /\ c.replaces[x] = d.rec[x].replaces /\ c.anchors[x] = T[x].anchors
          /\ x \in c.built <=> T[x] # NoTx
          /\ d.rec[x].state = "ToDispatch" => x \in c.wait
          /\ Lively(d.rec[x]) /\ x \in c.listed => x \in c.live
          /\ c.fresh = {}
      BY DEF Suits
    <2> QED  BY <2>1, <2>2 DEF Permits
  <1>5. d \in Allowed(c)
    BY <1>1, <1>4 DEF Allowed, Suits
  <1>6. c.calm => Covers(c, d)
    BY DEF Suits, Covers, Covering, CoveredBy
  <1>7. ASSUME NEW x \in Speedups, c.replaces[x] # 0
        PROVE  /\ c.replaces[x] \in Speedups
               /\ c.anchors[c.replaces[x]] = c.anchors[x] /\ c.replaces[x] \in c.built
    <2> DEFINE y == d.rec[x].replaces
    <2>1. y = c.replaces[x] /\ y \in Speedups /\ y # 0
      BY <1>3, <1>7 DEF Suits
    <2>2. T[y] # NoTx /\ T[y].anchors = T[x].anchors
      BY <1>1, <2>1 DEF Linked
    <2> HIDE DEF y
    <2> QED  BY <2>1, <2>2 DEF Suits
  <1>8. Sound(c)
    BY <1>7 DEF Sound, Suits
  <1> QED
    BY <1>5, <1>6, <1>8 DEF Held

\* What a sound frame allows is linked.
LEMMA FrameEnd ==
    ASSUME NEW T, NEW c, Sound(c), \A x \in Speedups : c.anchors[x] = T[x].anchors,
           \A x \in c.built : T[x] # NoTx
    PROVE  Allowed(c) \subseteq LinkedStores(T)
  <1> SUFFICES ASSUME NEW d \in Allowed(c)  PROVE Linked(d, T)
    BY DEF LinkedStores, Allowed
  <1>1. d \in Store /\ ToSet(d.list) \subseteq c.listed /\ \A x \in Speedups : Permits(c, x, d.rec[x])
    BY DEF Allowed
  <1>2. ToSet(d.list) \subseteq Speedups
    BY <1>1, StoreFields, ToSetOfSeq DEF Lists
  <1>3. ASSUME NEW x \in Speedups
        PROVE  IF d.rec[x].state = "Unregistered" THEN d.rec[x].replaces = 0
               ELSE /\ T[x] # NoTx
                    /\ d.rec[x].replaces = 0 /\ T[x].anchors # <<>> => d.rec[x].parents = T[x].anchors
    BY <1>1 DEF Permits
  <1>4. ASSUME NEW x \in Speedups, d.rec[x].replaces # 0
        PROVE  T[d.rec[x].replaces] # NoTx /\ T[d.rec[x].replaces].anchors = T[x].anchors
    <2>1. d.rec[x].replaces = c.replaces[x]
      BY <1>1, <1>4 DEF Permits
    <2> QED  BY <1>4, <2>1 DEF Sound
  <1>5. ASSUME NEW x \in ToSet(d.list), NEW y \in Speedups, Lively(d.rec[x]), d.rec[y].state = "ToDispatch"
        PROVE  d.rec[x].replaces # y
    <2>1. x \in Speedups /\ Permits(c, x, d.rec[x]) /\ Permits(c, y, d.rec[y]) /\ x \in c.listed
      BY <1>1, <1>2
    <2>2. x \in c.live /\ y \in c.wait /\ d.rec[x].replaces = c.replaces[x]
      BY <1>5, <2>1 DEF Permits, Lively
    <2> QED  BY <2>2 DEF Sound
  <1> QED
    BY <1>3, <1>4, <1>5 DEF Linked

\* What a calm frame holds covers.
LEMMA FrameCovers ==
    ASSUME NEW T, NEW c, \A x \in Speedups : c.anchors[x] = T[x].anchors, c.calm, NEW d \in Held(c)
    PROVE  Covering(d, T, c.spared)
  <1>1. Covers(c, d) /\ \A x \in Speedups : Permits(c, x, d.rec[x])
    BY DEF Held, Allowed
  <1>2. ASSUME NEW p \in Parents, NEW s \in Speedups, CoveredBy(c, d, s, p)
        PROVE  p \in ToSet(T[s].anchors) /\ d.rec[s].replaces = 0 /\ d.rec[s].state \in Active
    <2>1. Permits(c, s, d.rec[s])
      BY <1>1
    <2>2. p \in ToSet(c.anchors[s]) /\ c.replaces[s] = 0 /\ d.rec[s].state \in Active
      BY <1>2 DEF CoveredBy
    <2>3. d.rec[s].replaces = 0
      BY <2>1, <2>2 DEF Permits, Active
    <2> QED  BY <2>2, <2>3
  <1> QED
    BY <1>1, <1>2 DEF Covers, Covering

-----------------------------------------------------------------------------
(* The chain. *)

\* Parents that no reorganisation takes off the chain.
Deep == {p \in Parents : minedAt[p] # 0 /\ minedAt[p] + MaxReorg <= height}

\* What is mined was relayed, and so was built; it lies above what it spends;
\* and the index is right about what lies deeper than any reorganisation.
ChainOK ==
    /\ \A x \in Speedups : x \in relayed => tx[x] # NoTx
    /\ \A x \in Ids : minedAt[x] # 0 =>
         /\ x \in relayed /\ minedAt[x] <= height
         /\ \A y \in Sources(x) : minedAt[y] # 0 /\ minedAt[y] <= minedAt[x]
    /\ vheight <= height
    /\ \A x \in Ids : vmined[x] # 0 /\ vmined[x] + MaxReorg <= vheight => minedAt[x] = vmined[x]

\* The heights are numbers.
LEMMA ChainNumbers ==
    ASSUME NodeTypeOK
    PROVE  /\ height \in Nat /\ vheight \in Nat /\ MaxReorg \in Nat
           /\ \A x \in Ids : minedAt[x] \in Nat /\ vmined[x] \in Nat
           /\ DOMAIN minedAt = Ids
  BY SpeedupNodeAssumption DEF NodeTypeOK

\* The chain does not move; a built transaction keeps its content.
LEMMA ChainKept ==
    ASSUME ChainOK, UNCHANGED <<height, minedAt, relayed>>, UNCHANGED indexVars,
           \A x \in Speedups : tx[x] # NoTx => tx'[x] = tx[x]
    PROVE  ChainOK'
  <1>1. UNCHANGED <<vheight, vmined>>
    BY DEF indexVars
  <1>2. \A x \in Speedups : x \in relayed' => tx[x] # NoTx
    BY DEF ChainOK
  <1>3. ASSUME NEW x \in Ids, minedAt[x] # 0  PROVE Sources(x)' = Sources(x)
    <2>1. x \in relayed
      BY <1>3 DEF ChainOK
    <2>2. x \in Speedups => tx'[x] = tx[x]
      BY <1>2, <2>1
    <2> QED  BY <2>2 DEF Sources, Inputs
  <1> QED
    BY <1>1, <1>2, <1>3 DEF ChainOK

\* The node takes what has been built.
LEMMA ChainAccept ==
    ASSUME ChainOK, NEW S, Accept(S), UNCHANGED tx, UNCHANGED indexVars,
           \A x \in S : x \in Speedups => tx[x] # NoTx
    PROVE  ChainOK'
  <1>1. UNCHANGED <<height, minedAt>> /\ relayed' = relayed \cup S /\ UNCHANGED <<vheight, vmined>>
    BY DEF Accept, indexVars
  <1>2. \A x : Sources(x)' = Sources(x)
    BY DEF Sources, Inputs
  <1> QED
    BY <1>1, <1>2 DEF ChainOK

\* The index follows the chain.
LEMMA ChainSync ==
    ASSUME NodeTypeOK, ChainOK, Sync, UNCHANGED tx, UNCHANGED chainVars
    PROVE  ChainOK'
  <1>1. /\ UNCHANGED <<height, minedAt, relayed>> /\ vheight' = height /\ vmined' = minedAt
    BY DEF chainVars, Sync
  <1>2. \A x : Sources(x)' = Sources(x)
    BY DEF Sources, Inputs
  <1> QED
    BY <1>1, <1>2, ChainNumbers DEF ChainOK

\* A block is mined.
LEMMA ChainMine ==
    ASSUME NodeTypeOK, ChainOK, NEW B \in SUBSET relayed, Mine(B), UNCHANGED tx
    PROVE  ChainOK' /\ Deep \subseteq Deep'
  <1>1. /\ height' = height + 1 /\ UNCHANGED <<relayed, vheight, vmined>>
        /\ minedAt' = [x \in Ids |-> IF x \in B THEN height + 1 ELSE minedAt[x]]
        /\ \A x \in B : minedAt[x] = 0 \/ x \notin Ids
        /\ \A x \in B : Sources(x) \subseteq B \cup OnChain
    BY DEF Mine, Minable, indexVars, OnChain
  <1>2. \A x : Sources(x)' = Sources(x) /\ Sources(x) \subseteq Ids
    BY DEF Sources, Inputs
  <1>3. /\ height \in Nat /\ vheight \in Nat /\ MaxReorg \in Nat
        /\ \A x \in Ids : minedAt[x] \in Nat /\ vmined[x] \in Nat
    BY ChainNumbers
  <1>4. \A x \in Ids : minedAt'[x] = IF x \in B THEN height + 1 ELSE minedAt[x]
    BY <1>1
  <1>5. ASSUME NEW x \in Ids, minedAt'[x] # 0
        PROVE  /\ x \in relayed' /\ minedAt'[x] <= height'
               /\ \A y \in Sources(x) : minedAt'[y] # 0 /\ minedAt'[y] <= minedAt'[x]
    <2>1. CASE x \in B
      <3>1. x \in relayed' /\ minedAt'[x] = height + 1
        BY <1>1, <1>4, <2>1
      <3>2. ASSUME NEW y \in Sources(x)  PROVE minedAt'[y] # 0 /\ minedAt'[y] <= height + 1
        <4>1. y \in Ids /\ (y \in B \/ (minedAt[y] # 0 /\ minedAt[y] <= height))
          BY <1>1, <1>2, <2>1 DEF OnChain, ChainOK
        <4> QED  BY <1>3, <1>4, <4>1
      <3> QED  BY <1>1, <1>3, <3>1, <3>2
    <2>2. CASE x \notin B
      <3>1. minedAt'[x] = minedAt[x] /\ minedAt[x] # 0
        BY <1>4, <1>5, <2>2
      <3>2. /\ x \in relayed /\ minedAt[x] <= height
            /\ \A y \in Sources(x) : minedAt[y] # 0 /\ minedAt[y] <= minedAt[x]
        BY <3>1 DEF ChainOK
      <3>3. ASSUME NEW y \in Sources(x)  PROVE minedAt'[y] # 0 /\ minedAt'[y] <= minedAt'[x]
        <4>1. y \in Ids /\ minedAt[y] # 0 /\ minedAt[y] <= minedAt[x]
          BY <1>2, <3>2
        <4>2. minedAt'[y] = minedAt[y]
          BY <1>1, <1>4, <4>1
        <4> QED  BY <3>1, <4>1, <4>2
      <3> QED  BY <1>1, <1>3, <3>1, <3>2, <3>3
    <2> QED  BY <2>1, <2>2
  <1>6. \A x \in Ids : minedAt[x] # 0 => minedAt'[x] = minedAt[x]
    BY <1>1, <1>4
  <1>7. vheight' <= height'
    BY <1>1, <1>3 DEF ChainOK
  <1>8. \A x \in Ids : vmined'[x] # 0 /\ vmined'[x] + MaxReorg <= vheight' => minedAt'[x] = vmined'[x]
    BY <1>1, <1>6 DEF ChainOK
  <1>9. ChainOK'
    BY <1>1, <1>2, <1>5, <1>7, <1>8 DEF ChainOK
  <1>10. Deep \subseteq Deep'
    <2> SUFFICES ASSUME NEW p \in Deep  PROVE p \in Deep'
      OBVIOUS
    <2>1. p \in Parents /\ p \in Ids /\ minedAt[p] # 0 /\ minedAt[p] + MaxReorg <= height
      BY Names DEF Deep
    <2>2. minedAt'[p] = minedAt[p]
      BY <1>6, <2>1
    <2>3. minedAt'[p] # 0 /\ minedAt'[p] + MaxReorg <= height'
      BY <1>1, <1>3, <2>1, <2>2
    <2> QED  BY <2>1, <2>3 DEF Deep
  <1> QED
    BY <1>9, <1>10

\* A branch replaces the last k blocks.
LEMMA ChainReorg ==
    ASSUME NodeTypeOK, ChainOK, NEW k \in 1..MaxReorg, NEW B \in SUBSET relayed, Reorg(k, B),
           UNCHANGED tx
    PROVE  ChainOK' /\ Deep \subseteq Deep'
  <1> DEFINE kept == {x \in OnChain : minedAt[x] <= height - k}
  <1>1. /\ k < height /\ height' = height + 1 /\ UNCHANGED <<relayed, vheight, vmined>>
        /\ minedAt' = [x \in Ids |-> IF x \in B THEN height - k + 1
                                     ELSE IF x \in kept THEN minedAt[x] ELSE 0]
        /\ B \cap kept = {}
        /\ \A x \in B : Sources(x) \subseteq B \cup kept
    BY DEF Reorg, Minable, indexVars
  <1>2. \A x : Sources(x)' = Sources(x) /\ Sources(x) \subseteq Ids
    BY DEF Sources, Inputs
  <1>3. /\ height \in Nat /\ vheight \in Nat /\ MaxReorg \in Nat /\ k \in Nat /\ k <= MaxReorg
        /\ \A x \in Ids : minedAt[x] \in Nat /\ vmined[x] \in Nat
    BY ChainNumbers
  <1>4. \A x \in Ids : x \in kept <=> minedAt[x] # 0 /\ minedAt[x] <= height - k
    BY DEF OnChain
  <1> HIDE DEF kept
  <1>5. \A x \in Ids : minedAt'[x] = IF x \in B THEN height - k + 1
                                     ELSE IF x \in kept THEN minedAt[x] ELSE 0
    BY <1>1
  <1>6. ASSUME NEW x \in Ids, minedAt'[x] # 0
        PROVE  /\ x \in relayed' /\ minedAt'[x] <= height'
               /\ \A y \in Sources(x) : minedAt'[y] # 0 /\ minedAt'[y] <= minedAt'[x]
    <2>1. CASE x \in B
      <3>1. x \in relayed' /\ minedAt'[x] = height - k + 1
        BY <1>1, <1>5, <2>1
      <3>2. ASSUME NEW y \in Sources(x)  PROVE minedAt'[y] # 0 /\ minedAt'[y] <= height - k + 1
        <4>1. y \in Ids /\ (y \in B \/ y \in kept)
          BY <1>1, <1>2, <2>1
        <4> QED  BY <1>1, <1>3, <1>4, <1>5, <4>1
      <3> QED  BY <1>1, <1>3, <3>1, <3>2
    <2>2. CASE x \notin B
      <3>1. x \in kept /\ minedAt'[x] = minedAt[x] /\ minedAt[x] # 0 /\ minedAt[x] <= height - k
        BY <1>4, <1>5, <1>6, <2>2
      <3>2. /\ x \in relayed /\ minedAt[x] <= height
            /\ \A y \in Sources(x) : minedAt[y] # 0 /\ minedAt[y] <= minedAt[x]
        BY <3>1 DEF ChainOK
      <3>3. ASSUME NEW y \in Sources(x)  PROVE minedAt'[y] # 0 /\ minedAt'[y] <= minedAt'[x]
        <4>1. y \in Ids /\ minedAt[y] # 0 /\ minedAt[y] <= minedAt[x]
          BY <1>2, <3>2
        <4>2. y \in kept
          BY <1>3, <1>4, <3>1, <4>1
        <4>3. minedAt'[y] = minedAt[y]
          BY <1>1, <1>5, <4>1, <4>2
        <4> QED  BY <3>1, <4>1, <4>3
      <3> QED  BY <1>1, <1>3, <3>1, <3>2, <3>3
    <2> QED  BY <2>1, <2>2
  <1>7. ASSUME NEW x \in Ids, minedAt[x] # 0, minedAt[x] + MaxReorg <= height
        PROVE  minedAt'[x] = minedAt[x]
    <2>1. x \in kept
      BY <1>3, <1>4, <1>7
    <2> QED  BY <1>1, <1>5, <2>1
  <1>8. vheight' <= height' /\ vheight <= height
    BY <1>1, <1>3 DEF ChainOK
  <1>9. ASSUME NEW x \in Ids, vmined'[x] # 0, vmined'[x] + MaxReorg <= vheight'
        PROVE  minedAt'[x] = vmined'[x]
    <2>1. vmined[x] # 0 /\ vmined[x] + MaxReorg <= vheight /\ vmined'[x] = vmined[x]
      BY <1>1, <1>9
    <2>2. minedAt[x] = vmined[x]
      BY <2>1 DEF ChainOK
    <2>3. minedAt[x] # 0 /\ minedAt[x] + MaxReorg <= height
      BY <1>3, <1>8, <2>1, <2>2
    <2> QED  BY <1>7, <2>1, <2>2, <2>3
  <1>10. ChainOK'
    BY <1>1, <1>2, <1>6, <1>8, <1>9 DEF ChainOK
  <1>11. Deep \subseteq Deep'
    <2> SUFFICES ASSUME NEW p \in Deep  PROVE p \in Deep'
      OBVIOUS
    <2>1. p \in Parents /\ p \in Ids /\ minedAt[p] # 0 /\ minedAt[p] + MaxReorg <= height
      BY Names DEF Deep
    <2>2. minedAt'[p] = minedAt[p]
      BY <1>7, <2>1
    <2>3. minedAt'[p] # 0 /\ minedAt'[p] + MaxReorg <= height'
      BY <1>1, <1>3, <2>1, <2>2
    <2> QED  BY <2>1, <2>3 DEF Deep
  <1> QED
    BY <1>10, <1>11

\* Every step of the network.
LEMMA ChainNetwork ==
    ASSUME NodeTypeOK, ChainOK, NetworkStep, UNCHANGED tx
    PROVE  ChainOK' /\ Deep \subseteq Deep'
  <1>1. CASE \E B \in SUBSET relayed : Mine(B)
    BY <1>1, ChainMine
  <1>2. CASE \E k \in 1..MaxReorg, B \in SUBSET relayed : Reorg(k, B)
    BY <1>2, ChainReorg
  <1>3. CASE (\E x \in Ids : Evict(x)) \/ (\E p \in Parents : DoubleSpend(p))
    <2>1. UNCHANGED <<height, minedAt, relayed>> /\ UNCHANGED indexVars
      BY <1>3 DEF Evict, DoubleSpend
    <2>2. ChainOK'
      BY <2>1, ChainKept
    <2> QED  BY <2>1, <2>2 DEF Deep
  <1> QED
    BY <1>1, <1>2, <1>3 DEF NetworkStep

\* The anchors of a speedup that is final for the index lie deep, where no
\* reorganisation within the confirmations reaches.
LEMMA FinalIsDeep ==
    ASSUME NodeTypeOK, TxShape, ChainOK, MaxReorg < MaxConfs, NEW x \in Speedups, NEW orphans,
           TxStatus(x, orphans) = "finalized"
    PROVE  ToSet(tx[x].anchors) \subseteq Deep
  <1>1. vmined[x] # 0 /\ vheight - vmined[x] + 1 >= MaxConfs
    BY DEF TxStatus
  <1>2. x \in Ids
    BY Names
  <1>3. /\ height \in Nat /\ vheight \in Nat /\ MaxReorg \in Nat /\ MaxConfs \in Nat
        /\ \A y \in Ids : minedAt[y] \in Nat /\ vmined[y] \in Nat
    BY ChainNumbers, SpeedupNodeAssumption
  <1>4. vmined[x] + MaxReorg <= vheight
    BY <1>1, <1>2, <1>3
  <1>5. minedAt[x] = vmined[x] /\ minedAt[x] # 0 /\ vheight <= height
    BY <1>1, <1>2, <1>4 DEF ChainOK
  <1>6. tx[x].anchors \in Lists(Parents)
    BY DEF TxShape
  <1>7. ToSet(tx[x].anchors) \subseteq Parents
    BY <1>6, ToSetOfSeq DEF Lists
  <1>8. ASSUME NEW p \in ToSet(tx[x].anchors)  PROVE p \in Deep
    <2>1. p \in Parents /\ p \in Ids
      BY <1>7, Names
    <2>2. p \in Sources(x)
      BY <2>1 DEF Sources, Inputs
    <2>3. minedAt[p] # 0 /\ minedAt[p] <= minedAt[x]
      BY <1>2, <1>5, <2>2 DEF ChainOK
    <2>4. minedAt[p] + MaxReorg <= height
      BY <1>2, <1>3, <1>4, <1>5, <2>1, <2>3
    <2> QED  BY <2>1, <2>3, <2>4 DEF Deep
  <1> QED
    BY <1>8

-----------------------------------------------------------------------------
(* The inductive invariant. *)

\* No fault yet, and what the index calls final stays on the chain.
Undisturbed == faults = 0 /\ MaxReorg < MaxConfs

\* Listed speedups that are lively, or that a copy may make so.
LiveNow == {x \in ToSet(db.list) : Lively(db.rec[x])} \cup DOMAIN snap

\* Speedups that are queued, or that a copy may queue again.
WaitNow == {x \in Speedups : db.rec[x].state = "ToDispatch"} \cup DOMAIN snap

\* The copies the dispatch pass works on agree with the store, and writing one
\* back neither queues a replaced speedup nor revives its replacement.
CopiesOK ==
    /\ \A x \in DOMAIN snap :
         /\ Known(db, x) /\ snap[x].replaces = db.rec[x].replaces
         /\ db.rec[x].replaces = 0 /\ tx[x].anchors # <<>> => snap[x].parents = tx[x].anchors
    /\ \A r \in LiveNow, y \in WaitNow : db.rec[r].replaces # y

\* Undisturbed, only what gave up or lies deep is left out.
CoverOK == Undisturbed => Covering(db, tx, abandoned \cup Deep)

\* The inductive invariant: ReplacedStaysOut and Covered are not inductive
\* themselves, since writing a copy back or settling a replacement needs the rest.
LinkInv == SpeedupInv /\ Linked(db, tx) /\ CopiesOK /\ ChainOK /\ CoverOK

\* Fewer parents may be left out.
LEMMA CoverLater ==
    ASSUME NEW d, NEW T, NEW X, NEW Y, X \subseteq Y, Covering(d, T, X)
    PROVE  Covering(d, T, Y)
  BY DEF Covering

\* Without copies nothing is left to write back.
LEMMA NoCopiesOK ==
    ASSUME db' \in Store, Linked(db', tx'), DOMAIN snap' = {}
    PROVE  CopiesOK'
  <1>1. ToSet(db'.list) \subseteq Speedups
    BY StoreFields, ToSetOfSeq DEF Lists
  <1> QED
    BY <1>1 DEF CopiesOK, Linked, LiveNow, WaitNow

\* A step that commits the last store of a run.
LEMMA CommitLinked ==
    ASSUME NEW c, NEW t \in Runs(LinkedStores(tx'), c), NEW to, Commit(t, to),
           \A x \in Speedups : c.anchors[x] = tx'[x].anchors,
           c.calm = Undisturbed, c.spared \subseteq (abandoned \cup Deep)'
    PROVE  /\ db' \in LinkedStores(tx') /\ Linked(db', tx') /\ db' = Now(t) /\ db' \in Allowed(c)
           /\ CoverOK'
  <1>1. db' = Now(t) /\ Now(t) \in Held(c) /\ Now(t) \in Allowed(c) /\ faults' = faults
    BY RunNow DEF Commit
  <1>2. db' \in LinkedStores(tx')
    <2> DEFINE A == LinkedStores(tx')
    <2>1. t \in Seq(A) /\ t # <<>>
      BY DEF Runs
    <2> HIDE DEF A
    <2>2. Last(t) \in A
      BY <2>1, HeadLast
    <2> QED  BY <1>1, <2>2 DEF A, Now
  <1>3. ASSUME Undisturbed  PROVE Covering(db', tx', (abandoned \cup Deep)')
    <2>1. Covering(db', tx', c.spared)
      BY <1>1, <1>3, FrameCovers
    <2> QED  BY <2>1, CoverLater
  <1>4. CoverOK'
    BY <1>1, <1>3 DEF CoverOK, Undisturbed
  <1> QED
    BY <1>1, <1>2, <1>4 DEF LinkedStores

\* A step that is cut short keeps some store of the run.
LEMMA CutLinked ==
    ASSUME faults \in Nat, NEW c, NEW t \in Runs(LinkedStores(tx'), c), CutShort(t)
    PROVE  Linked(db', tx') /\ CopiesOK' /\ CoverOK'
  <1> DEFINE A == LinkedStores(tx')
  <1>1. t \in Seq(A)
    BY DEF Runs
  <1>2. (\E i \in 1..(Len(t) - 1) : db' = t[i]) /\ snap' = NoCopies /\ faults' = faults + 1
    BY DEF CutShort
  <1> HIDE DEF A
  <1>3. db' \in A
    BY <1>1, <1>2
  <1>4. db' \in Store /\ Linked(db', tx')
    BY <1>3 DEF A, LinkedStores
  <1>5. CopiesOK'
    <2>1. DOMAIN snap' = {}
      BY <1>2 DEF NoCopies
    <2> QED  BY <1>4, <2>1, NoCopiesOK
  <1>6. CoverOK'
    BY <1>2 DEF CoverOK, Undisturbed
  <1> QED
    BY <1>4, <1>5, <1>6

\* A step of Step, outside the dispatch pass.
LEMMA StepLinked ==
    ASSUME SpeedupInv, SpeedupInv', ChainOK', DOMAIN snap = {}, UNCHANGED <<height, minedAt>>,
           NEW c, NEW t \in Runs(LinkedStores(tx'), c), NEW to, Step(t, to),
           \A x \in Speedups : c.anchors[x] = tx'[x].anchors,
           c.calm = Undisturbed, c.spared = abandoned \cup Deep
    PROVE  LinkInv'
  <1>1. faults \in Nat
    BY DEF SpeedupInv
  <1>2. CASE CutShort(t)
    BY <1>1, <1>2, CutLinked DEF LinkInv
  <1>3. CASE Commit(t, to) /\ UNCHANGED <<todo, results, snap, retryReady, abandoned>>
    <2>1. c.spared \subseteq (abandoned \cup Deep)' /\ DOMAIN snap' = {}
      BY <1>3 DEF Deep
    <2>2. db' \in LinkedStores(tx') /\ Linked(db', tx') /\ CoverOK'
      BY <1>3, <2>1, CommitLinked
    <2>3. CopiesOK'
      BY <2>1, <2>2, NoCopiesOK DEF LinkedStores
    <2> QED  BY <2>2, <2>3 DEF LinkInv
  <1> QED
    BY <1>2, <1>3 DEF Step

\* A frame for the writes from the store d on; the one that keeps nothing and owes nothing.
FrameOf(d, keep, dead, due, spared, wait, live) ==
    [replaces |-> [x \in Speedups |-> d.rec[x].replaces],
     anchors |-> [x \in Speedups |-> tx[x].anchors],
     built |-> {x \in Speedups : tx[x] # NoTx}, keep |-> keep, wait |-> wait, live |-> live,
     listed |-> ToSet(d.list), fresh |-> {}, dead |-> dead, spared |-> spared, due |-> due,
     calm |-> Undisturbed]

\* The frame of a step that keeps nothing in particular and owes nothing.
Idle == FrameOf(db, {}, {}, {}, abandoned \cup Deep, WaitNow, LiveNow)

\* Members of the SpeedupList, and copies, are speedups.
LEMMA LinkNames ==
    ASSUME SpeedupInv
    PROVE  /\ db \in Store /\ LiveNow \subseteq Speedups /\ WaitNow \subseteq Speedups
           /\ ToSet(db.list) \subseteq Speedups /\ DOMAIN snap \subseteq Speedups
  <1>1. db \in Store /\ DOMAIN snap \subseteq Speedups
    BY StepStart DEF SpeedupInv, PassOK
  <1>2. ToSet(db.list) \subseteq Speedups
    BY <1>1, StoreFields, ToSetOfSeq DEF Lists
  <1> QED
    BY <1>1, <1>2 DEF LiveNow, WaitNow

\* What such a frame may be made of.
MayFrame(d, keep, dead, due, spared, wait, live) ==
    /\ d \in LinkedStores(tx)
    /\ Undisturbed => Covering(d, tx, abandoned \cup Deep)
    /\ \A x \in keep \cap Ids : Known(d, x)
    /\ \A x \in dead \cap Ids : d.rec[x].state \notin Active
    /\ \A p \in due : d.rec[p].state \in Active
    /\ abandoned \cup Deep \subseteq spared
    /\ \A x \in Speedups : d.rec[x].state = "ToDispatch" => x \in wait
    /\ \A x \in ToSet(d.list) : Lively(d.rec[x]) => x \in live
    /\ live \subseteq Speedups
    /\ \A r \in live, y \in wait : d.rec[r].replaces # y

\* Such a frame is sound and holds the store.
LEMMA FrameNow ==
    ASSUME NEW d, NEW keep, NEW dead, NEW due, NEW spared, NEW wait, NEW live,
           MayFrame(d, keep, dead, due, spared, wait, live),
           NEW c, c = FrameOf(d, keep, dead, due, spared, wait, live)
    PROVE  /\ Sound(c) /\ Allowed(c) \subseteq LinkedStores(tx) /\ d \in Held(c)
           /\ <<d>> \in Runs(LinkedStores(tx), c) /\ Now(<<d>>) = d
           /\ c.keep = keep /\ c.dead = dead /\ c.due = due /\ c.fresh = {} /\ c.calm = Undisturbed
           /\ c.spared = spared /\ c.wait = wait /\ c.live = live
           /\ c.listed = ToSet(d.list) /\ c.built = {x \in Speedups : tx[x] # NoTx}
           /\ \A x \in Speedups : c.anchors[x] = tx[x].anchors /\ c.replaces[x] = d.rec[x].replaces
  <1>1. /\ c.keep = keep /\ c.dead = dead /\ c.due = due /\ c.fresh = {} /\ c.calm = Undisturbed
        /\ c.spared = spared /\ c.wait = wait /\ c.live = live
        /\ c.listed = ToSet(d.list) /\ c.built = {x \in Speedups : tx[x] # NoTx}
        /\ c.replaces = [x \in Speedups |-> d.rec[x].replaces]
        /\ c.anchors = [x \in Speedups |-> tx[x].anchors]
    BY DEF FrameOf
  <1>2. \A x \in Speedups : c.anchors[x] = tx[x].anchors /\ c.replaces[x] = d.rec[x].replaces
    BY <1>1
  <1>4. c.calm => Covering(d, tx, c.spared)
    BY <1>1, CoverLater DEF MayFrame
  <1>5. \A x \in Ids : Stays(c, x, d.rec[x])
    BY <1>1 DEF Stays, Known, MayFrame
  <1>6. \A r \in c.live, y \in c.wait : c.replaces[r] # y
    BY <1>1, <1>2 DEF MayFrame
  <1>7. Suits(c, d, tx)
    BY <1>1, <1>2, <1>4, <1>5, <1>6 DEF Suits, MayFrame
  <1>8. d \in LinkedStores(tx)
    BY DEF MayFrame
  <1>9. d \in Held(c) /\ Sound(c)
    BY <1>7, <1>8, FrameStart
  <1>10. Allowed(c) \subseteq LinkedStores(tx)
    BY <1>1, <1>2, <1>9, FrameEnd
  <1>11. <<d>> \in Runs(LinkedStores(tx), c) /\ Now(<<d>>) = d
    BY <1>9, <1>10, RunStart
  <1> QED
    BY <1>1, <1>2, <1>9, <1>10, <1>11

\* The frame Idle itself.
LEMMA IdleFrame ==
    ASSUME LinkInv
    PROVE  LET c == Idle
           IN  /\ Sound(c) /\ Allowed(c) \subseteq LinkedStores(tx) /\ db \in Held(c)
               /\ <<db>> \in Runs(LinkedStores(tx), c) /\ Now(<<db>>) = db
               /\ c.keep = {} /\ c.dead = {} /\ c.due = {} /\ c.fresh = {} /\ c.calm = Undisturbed
               /\ c.spared = abandoned \cup Deep /\ c.wait = WaitNow /\ c.live = LiveNow
               /\ \A x \in Speedups : c.anchors[x] = tx[x].anchors
  <1> DEFINE c == FrameOf(db, {}, {}, {}, abandoned \cup Deep, WaitNow, LiveNow)
  <1>1. c = Idle
    BY DEF Idle
  <1>2. SpeedupInv /\ \A r \in LiveNow, y \in WaitNow : db.rec[r].replaces # y
    BY DEF LinkInv, CopiesOK
  <1>6. db \in LinkedStores(tx) /\ (Undisturbed => Covering(db, tx, abandoned \cup Deep))
    BY LinkNames DEF LinkInv, CoverOK, LinkedStores
  <1>3. LiveNow \subseteq Speedups
    BY <1>2, LinkNames
  <1>4. /\ \A x \in Speedups : db.rec[x].state = "ToDispatch" => x \in WaitNow
        /\ \A x \in ToSet(db.list) : Lively(db.rec[x]) => x \in LiveNow
    BY DEF WaitNow, LiveNow
  <1> HIDE DEF c
  <1>5. /\ Sound(c) /\ Allowed(c) \subseteq LinkedStores(tx) /\ db \in Held(c)
        /\ <<db>> \in Runs(LinkedStores(tx), c) /\ Now(<<db>>) = db
        /\ c.keep = {} /\ c.dead = {} /\ c.due = {} /\ c.fresh = {} /\ c.calm = Undisturbed
        /\ c.spared = abandoned \cup Deep /\ c.wait = WaitNow /\ c.live = LiveNow
        /\ \A x \in Speedups : c.anchors[x] = tx[x].anchors
    <2> DEFINE X == abandoned \cup Deep
    <2>1. MayFrame(db, {}, {}, {}, X, WaitNow, LiveNow)
      BY <1>2, <1>3, <1>4, <1>6 DEF MayFrame
    <2>2. c = FrameOf(db, {}, {}, {}, X, WaitNow, LiveNow)
      BY DEF c
    <2> HIDE DEF X
    <2>3. /\ Sound(c) /\ Allowed(c) \subseteq LinkedStores(tx) /\ db \in Held(c)
          /\ <<db>> \in Runs(LinkedStores(tx), c) /\ Now(<<db>>) = db
          /\ c.keep = {} /\ c.dead = {} /\ c.due = {} /\ c.fresh = {} /\ c.calm = Undisturbed
          /\ c.spared = X /\ c.wait = WaitNow /\ c.live = LiveNow
          /\ \A x \in Speedups : c.anchors[x] = tx[x].anchors
      BY <2>1, <2>2, FrameNow
    <2> QED  BY <2>3 DEF X
  <1> QED
    BY <1>1, <1>5

-----------------------------------------------------------------------------
(* Every action keeps the stored speedups linked. *)

\* A step that leaves what is built and the chain alone.
LEMMA QuietLinked ==
    ASSUME LinkInv, SpeedupInv', pc # "send", NEW t \in Runs(LinkedStores(tx), Idle), NEW to,
           Step(t, to), UNCHANGED tx, UNCHANGED <<chainVars, indexVars>>
    PROVE  LinkInv'
  <1>1. SpeedupInv /\ DOMAIN snap = {} /\ ChainOK
    BY DEF LinkInv, SpeedupInv, PassOK
  <1>2. UNCHANGED <<height, minedAt, relayed>> /\ UNCHANGED indexVars
    BY DEF chainVars
  <1>3. ChainOK'
    BY <1>1, <1>2, ChainKept
  <1> DEFINE c == Idle
  <1>4. /\ \A x \in Speedups : c.anchors[x] = tx'[x].anchors
        /\ c.calm = Undisturbed /\ c.spared = abandoned \cup Deep
    BY IdleFrame
  <1>5. t \in Runs(LinkedStores(tx'), c)
    OBVIOUS
  <1> HIDE DEF c
  <1> QED
    BY <1>1, <1>2, <1>3, <1>4, <1>5, StepLinked

\* Register: the parent waits in PendingSpeedupParents.
LEMMA RegisterLinked ==
    ASSUME LinkInv, SpeedupInv', NEW p \in Parents, Register(p)
    PROVE  LinkInv'
  <1> DEFINE A == LinkedStores(tx)
             c == Idle
             e == Sparing(c, {p})
             u == UpdateTx(<<db>>, p, NewRecord)
             t == AddPendingSpeedupParent(u, p)
  <1>1. /\ Step(t, "idle") /\ UNCHANGED tx /\ UNCHANGED <<chainVars, indexVars>> /\ pc # "send"
    BY DEF Register
  <1>2. /\ Allowed(c) \subseteq A /\ <<db>> \in Runs(A, c) /\ c.keep = {} /\ c.dead = {} /\ c.due = {}
    BY IdleFrame
  <1>3. /\ Allowed(e) \subseteq A /\ <<db>> \in Runs(A, e) /\ e.keep = {} /\ e.dead = {}
        /\ p \in e.spared
    BY <1>2, SparingRuns, SparingFields
  <1>4. p \in Ids /\ p \notin Speedups /\ NewRecord \in Rec /\ NewRecord.replaces = 0
    BY Names, BlankRecords
  <1> HIDE DEF A, c, e
  <1>5. Stays(e, p, NewRecord) /\ ParentFits(e, Now(<<db>>), p, NewRecord)
    BY <1>3 DEF Stays, ParentFits
  <1>6. u \in Runs(A, e)
    BY <1>3, <1>4, <1>5, UpdateTxRun
  <1> HIDE DEF u
  <1>7. t \in Runs(A, e) /\ p \in ToSet(Now(t).psp)
    BY <1>3, <1>6, AddPendingRun
  <1> HIDE DEF t
  <1>8. t \in Runs(A, c)
    BY <1>7, NoLongerSpared DEF e
  <1> QED
    BY <1>1, <1>8, QuietLinked DEF A, c

\* Cancel: the parent is gone.
LEMMA CancelLinked ==
    ASSUME LinkInv, SpeedupInv', NEW p \in Parents, Cancel(p)
    PROVE  LinkInv'
  <1> DEFINE A == LinkedStores(tx)
             c == Idle
             e == Sparing(c, {p})
             u == RemovePendingSpeedupParent(<<db>>, p)
             t == RemoveTx(u, p)
  <1>1. /\ Step(t, "idle") /\ UNCHANGED tx /\ UNCHANGED <<chainVars, indexVars>> /\ pc # "send"
    BY DEF Cancel
  <1>2. /\ Allowed(c) \subseteq A /\ <<db>> \in Runs(A, c) /\ c.keep = {} /\ c.dead = {} /\ c.due = {}
    BY IdleFrame
  <1>3. /\ Allowed(e) \subseteq A /\ <<db>> \in Runs(A, e) /\ e.keep = {} /\ e.dead = {}
        /\ p \in e.spared
    BY <1>2, SparingRuns, SparingFields
  <1>4. p \in Ids /\ p \notin Speedups
    BY Names
  <1> HIDE DEF A, c, e
  <1>5. u \in Runs(A, e)
    BY <1>3, RemovePendingRun
  <1> HIDE DEF u
  <1>6. t \in Runs(A, e) /\ Now(t).rec[p] = NoRecord
    BY <1>3, <1>4, <1>5, RemoveTxRun
  <1> HIDE DEF t
  <1>7. NoRecord.state \notin Active
    BY DEF NoRecord, Active
  <1>8. t \in Runs(A, c)
    BY <1>2, <1>6, <1>7, NoLongerSpared DEF e
  <1> QED
    BY <1>1, <1>8, QuietLinked DEF A, c

\* AddFunding.
LEMMA AddFundingLinked ==
    ASSUME LinkInv, SpeedupInv', NEW f \in Fundings, AddFunding(f)
    PROVE  LinkInv'
  <1> DEFINE R == Runs(LinkedStores(tx), Idle)
             t == IF Amount[f] >= MinFunding THEN AppendFunding(<<db>>, f)
                  ELSE AddNews(<<db>>, "InvalidFundingUtxo", f)
  <1>1. /\ Step(t, "idle") /\ UNCHANGED tx /\ UNCHANGED <<chainVars, indexVars>> /\ pc # "send"
    BY DEF AddFunding
  <1>2. AppendFunding(<<db>>, f) \in R
    BY IdleFrame, AppendFundingRun, Names
  <1>3. AddNews(<<db>>, "InvalidFundingUtxo", f) \in R
    BY IdleFrame, AddNewsRun DEF Kinds
  <1>4. t \in R
    BY <1>2, <1>3
  <1> HIDE DEF t
  <1> QED
    BY <1>1, <1>4, QuietLinked

\* The tick begins; settled records may expire.
LEMMA TickStartLinked ==
    ASSUME LinkInv, SpeedupInv', TickStart
    PROVE  LinkInv'
  <1> DEFINE A == LinkedStores(tx)
             c == Idle
             d == [db EXCEPT !.news = {}]
             t == EvictStaleTxs(<<d>>, height)
  <1>1. Step(t, "review") /\ Sync /\ UNCHANGED tx /\ UNCHANGED chainVars /\ pc # "send"
    BY DEF TickStart
  <1>2. /\ Allowed(c) \subseteq A /\ db \in Held(c) /\ c.keep = {} /\ c.due = {} /\ c.fresh = {}
        /\ c.calm = Undisturbed /\ c.spared = abandoned \cup Deep
        /\ \A x \in Speedups : c.anchors[x] = tx'[x].anchors
    BY <1>1, IdleFrame
  <1>3. SpeedupInv /\ NodeTypeOK /\ ChainOK /\ DOMAIN snap = {}
    BY <1>1 DEF LinkInv, SpeedupInv, PassOK
  <1> HIDE DEF c
  <1>4. d \in Store /\ d.rec = db.rec /\ d.list = db.list /\ d.psp = db.psp
    BY <1>3, LinkNames, WriteNews
  <1> HIDE DEF d
  <1>5. d \in Held(c)
    BY <1>2, <1>4, AlikeRecs, HeldElsewhere
  <1> HIDE DEF A
  <1>6. <<d>> \in Runs(A, c)
    BY <1>2, <1>5, RunStart
  <1>7. t \in Runs(A, c)
    BY <1>2, <1>6, EvictStaleTxsRun
  <1> HIDE DEF t
  <1>8. ChainOK'
    BY <1>1, <1>3, ChainSync
  <1>9. UNCHANGED <<height, minedAt>>
    BY <1>1 DEF chainVars
  <1>10. t \in Runs(LinkedStores(tx'), c)
    BY <1>1, <1>7 DEF A
  <1> QED
    BY <1>1, <1>2, <1>3, <1>8, <1>9, <1>10, StepLinked

\* No CPFP.
LEMMA NoBatchLinked ==
    ASSUME LinkInv, SpeedupInv', NoBatch
    PROVE  LinkInv'
  <1> DEFINE t == PruneParents(<<db>>)
             c == Idle
             A == LinkedStores(tx)
  <1>1. Step(t, "idle") /\ UNCHANGED tx /\ UNCHANGED <<chainVars, indexVars>> /\ pc # "send"
    BY DEF NoBatch
  <1>2. Allowed(c) \subseteq A /\ <<db>> \in Runs(A, c) /\ c.due = {}
    BY IdleFrame
  <1> HIDE DEF A, c
  <1>3. t \in Runs(A, c)
    BY <1>2, PruneParentsRun
  <1> HIDE DEF t
  <1> QED
    BY <1>1, <1>3, QuietLinked DEF A, c

\* An error between two steps.
LEMMA TickErrorLinked ==
    ASSUME LinkInv, SpeedupInv', TickError
    PROVE  LinkInv'
  <1>1. /\ faults' = faults + 1 /\ snap' = NoCopies /\ UNCHANGED <<tx, db>>
        /\ UNCHANGED <<chainVars, indexVars>>
    BY DEF TickError
  <1>2. faults \in Nat /\ db \in Store /\ Linked(db, tx) /\ ChainOK
    BY LinkNames DEF LinkInv, SpeedupInv
  <1>3. DOMAIN snap' = {}
    BY <1>1 DEF NoCopies
  <1>4. CopiesOK'
    BY <1>1, <1>2, <1>3, NoCopiesOK
  <1>5. ChainOK'
    <2>1. UNCHANGED <<height, minedAt, relayed>> /\ UNCHANGED indexVars
      BY <1>1 DEF chainVars
    <2> QED  BY <1>1, <1>2, <2>1, ChainKept
  <1>6. CoverOK'
    BY <1>1, <1>2 DEF CoverOK, Undisturbed
  <1> QED
    BY <1>1, <1>2, <1>4, <1>5, <1>6 DEF LinkInv

\* The store and the pass are left alone.
LEMMA StoreLeftLinked ==
    ASSUME LinkInv, SpeedupInv', UNCHANGED <<tx, db, snap, faults, abandoned>>, ChainOK', Deep \subseteq Deep'
    PROVE  LinkInv'
  <1>1. Linked(db', tx')
    BY DEF LinkInv
  <1>2. CopiesOK'
    BY DEF LinkInv, CopiesOK, LiveNow, WaitNow
  <1>3. CoverOK'
    <2>1. abandoned \cup Deep \subseteq (abandoned \cup Deep)'
      OBVIOUS
    <2>2. ASSUME Undisturbed'  PROVE Covering(db', tx', (abandoned \cup Deep)')
      <3>1. Covering(db', tx', abandoned \cup Deep)
        BY <2>2 DEF LinkInv, CoverOK, Undisturbed
      <3> QED  BY <2>1, <3>1, CoverLater
    <2> QED  BY <2>2 DEF CoverOK
  <1> QED
    BY <1>1, <1>2, <1>3 DEF LinkInv

\* The dispatch pass ends.
LEMMA EndLinked ==
    ASSUME SpeedupInv, SpeedupInv', ChainOK', UNCHANGED <<height, minedAt>>,
           NEW c, NEW t \in Runs(LinkedStores(tx'), c), EndDispatch(t),
           \A x \in Speedups : c.anchors[x] = tx'[x].anchors,
           c.calm = Undisturbed, c.spared = abandoned \cup Deep
    PROVE  LinkInv'
  <1>1. Commit(t, "batch") /\ snap' = NoCopies /\ abandoned' = abandoned
    BY DEF EndDispatch
  <1>2. DOMAIN snap' = {} /\ c.spared \subseteq (abandoned \cup Deep)'
    BY <1>1 DEF NoCopies, Deep
  <1>3. db' \in LinkedStores(tx') /\ Linked(db', tx') /\ CoverOK'
    BY <1>1, <1>2, CommitLinked
  <1>4. CopiesOK'
    BY <1>2, <1>3, NoCopiesOK DEF LinkedStores
  <1> QED
    BY <1>3, <1>4 DEF LinkInv

\* No boost.
LEMMA SkipBoostLinked ==
    ASSUME LinkInv, SpeedupInv', SkipBoost
    PROVE  LinkInv'
  <1> DEFINE c == Idle
             t == <<db>>
  <1>1. EndDispatch(t) /\ UNCHANGED tx /\ UNCHANGED <<chainVars, indexVars>>
    BY DEF SkipBoost
  <1>2. /\ t \in Runs(LinkedStores(tx'), c) /\ c.calm = Undisturbed /\ c.spared = abandoned \cup Deep
        /\ \A x \in Speedups : c.anchors[x] = tx'[x].anchors
    BY <1>1, IdleFrame
  <1> HIDE DEF c, t
  <1>3. UNCHANGED <<height, minedAt, relayed>> /\ UNCHANGED indexVars /\ SpeedupInv /\ ChainOK
    BY <1>1 DEF chainVars, LinkInv
  <1>4. ChainOK'
    BY <1>1, <1>3, ChainKept
  <1> QED
    BY <1>1, <1>2, <1>3, <1>4, EndLinked

\* A speedup is sent: it has been built.
LEMMA SendSpeedupLinked ==
    ASSUME LinkInv, SpeedupInv', SendSpeedup
    PROVE  LinkInv'
  <1> DEFINE s == Head(todo)
  <1>1. /\ todo # <<>> /\ UNCHANGED <<tx, db, snap, faults, abandoned>> /\ UNCHANGED indexVars
        /\ \/ UNCHANGED chainVars
           \/ Accept({s})
    BY DEF SendSpeedup, history
  <1>2. SpeedupInv /\ ChainOK /\ Linked(db, tx)
    BY DEF LinkInv
  <1>3. s \in DOMAIN snap
    <2> DEFINE L == DOMAIN snap
    <2>1. todo \in Seq(L)
      BY <1>2 DEF SpeedupInv, PassOK
    <2> HIDE DEF L
    <2>2. s \in L
      BY <1>1, <2>1
    <2> QED  BY <2>2 DEF L
  <1>4. s \in Speedups => tx[s] # NoTx
    <2>1. Known(db, s)
      BY <1>3 DEF LinkInv, CopiesOK
    <2> QED  BY <1>2, <2>1 DEF Linked, Known
  <1> HIDE DEF s
  <1>5. UNCHANGED <<height, minedAt>>
    BY <1>1 DEF chainVars, Accept
  <1>6. ChainOK'
    <2>1. CASE UNCHANGED chainVars
      <3>1. UNCHANGED <<height, minedAt, relayed>>
        BY <2>1 DEF chainVars
      <3> QED  BY <1>1, <1>2, <3>1, ChainKept
    <2>2. CASE Accept({s})
      BY <1>1, <1>2, <1>4, <2>2, ChainAccept
    <2> QED  BY <1>1, <2>1, <2>2
  <1>7. Deep \subseteq Deep'
    BY <1>5 DEF Deep
  <1> QED
    BY <1>1, <1>6, <1>7, StoreLeftLinked

\* An outcome is handled.
LEMMA HandleSpeedupLinked ==
    ASSUME LinkInv, SpeedupInv', HandleSpeedup
    PROVE  LinkInv'
  <1> DEFINE s == Head(results)[1]
             o == Head(results)[2]
             t == CASE o = "Success" -> MarkAccepted(<<db>>, s, snap[s])
                    [] o = "ParentFailed" -> SettleFailedChild(<<db>>, s)
                    [] o = "DispatchError" -> Classify(<<db>>, s, snap[s])
             gone == IF GivesUp(s, o) THEN abandoned \cup ToSet(tx[s].anchors) ELSE abandoned
             keep == {x \in Ids : Known(db, x)}
             dead == {x \in Ids : db.rec[x].state \notin Active /\ x \notin DOMAIN snap}
             spared == gone \cup Deep
             c == FrameOf(db, keep, dead, {}, spared, WaitNow, LiveNow)
             A == LinkedStores(tx)
  <1>1. /\ results # <<>> /\ UNCHANGED tx /\ UNCHANGED <<chainVars, indexVars>>
        /\ \/ Commit(t, "send") /\ abandoned' = gone /\ UNCHANGED snap
           \/ CutShort(t)
    BY DEF HandleSpeedup
  <1>2. /\ SpeedupInv /\ NodeTypeOK /\ TxShape /\ PassOK /\ faults \in Nat /\ ChainOK /\ CopiesOK
        /\ Linked(db, tx) /\ db \in Store
    BY LinkNames DEF LinkInv, SpeedupInv
  <1>3. Head(results) \in (DOMAIN snap) \X Outcomes
    <2> DEFINE B == (DOMAIN snap) \X Outcomes
    <2>1. results \in Seq(B)
      BY <1>2 DEF PassOK
    <2> HIDE DEF B
    <2>2. Head(results) \in B
      BY <1>1, <2>1
    <2> QED  BY <2>2 DEF B
  <1>4. s \in DOMAIN snap /\ o \in Outcomes /\ s \in Speedups /\ snap[s] \in Rec /\ s \in Ids
        /\ DOMAIN snap \subseteq Speedups
    BY <1>2, <1>3, Names DEF PassOK
  <1> HIDE DEF s, o
  <1>5. /\ Sound(c) /\ Allowed(c) \subseteq A /\ db \in Held(c)
        /\ <<db>> \in Runs(A, c) /\ Now(<<db>>) = db
        /\ c.keep = keep /\ c.dead = dead /\ c.due = {} /\ c.fresh = {} /\ c.calm = Undisturbed
        /\ c.spared = spared /\ c.wait = WaitNow /\ c.live = LiveNow
        /\ c.built = {x \in Speedups : tx[x] # NoTx}
        /\ \A x \in Speedups : c.anchors[x] = tx[x].anchors /\ c.replaces[x] = db.rec[x].replaces
    <2>1. /\ \A x \in keep \cap Ids : Known(db, x)
          /\ \A x \in dead \cap Ids : db.rec[x].state \notin Active
          /\ abandoned \cup Deep \subseteq spared
      OBVIOUS
    <2>2. /\ \A x \in Speedups : db.rec[x].state = "ToDispatch" => x \in WaitNow
          /\ \A x \in ToSet(db.list) : Lively(db.rec[x]) => x \in LiveNow
      BY DEF WaitNow, LiveNow
    <2>3. LiveNow \subseteq Speedups /\ \A r \in LiveNow, y \in WaitNow : db.rec[r].replaces # y
      BY <1>2, LinkNames DEF CopiesOK
    <2> HIDE DEF keep, dead, spared, c, A
    <2>4. c = FrameOf(db, keep, dead, {}, spared, WaitNow, LiveNow)
      BY DEF c
    <2>6. \A p \in {} : db.rec[p].state \in Active
      OBVIOUS
    <2>5. db \in LinkedStores(tx) /\ (Undisturbed => Covering(db, tx, abandoned \cup Deep))
      BY <1>2 DEF LinkInv, CoverOK, LinkedStores
    <2>7. MayFrame(db, keep, dead, {}, spared, WaitNow, LiveNow)
      BY <2>1, <2>2, <2>3, <2>5, <2>6 DEF MayFrame
    <2> QED  BY <2>4, <2>7, FrameNow DEF A
  <1>6. Sending(c)
    <2>1. \A x \in WaitNow : x \in keep
      <3>1. \A x \in Speedups : db.rec[x].state = "ToDispatch" => x \in keep
        BY Names DEF Known
      <3>2. \A x \in DOMAIN snap : x \in keep
        BY <1>2, <1>4, Names DEF CopiesOK
      <3> QED  BY <3>1, <3>2 DEF WaitNow
    <2> HIDE DEF c, keep
    <2> QED  BY <1>5, <2>1 DEF Sending
  <1>7. Copied(c, s, snap[s])
    <2>1. s \notin dead
      BY <1>4
    <2>2. s \notin Parents
      BY <1>4, Names
    <2>3. /\ Known(db, s) /\ snap[s].replaces = db.rec[s].replaces
          /\ db.rec[s].replaces = 0 /\ tx[s].anchors # <<>> => snap[s].parents = tx[s].anchors
      BY <1>2, <1>4 DEF CopiesOK
    <2>4. tx[s] # NoTx
      BY <1>2, <1>4, <2>3 DEF Linked, Known
    <2>5. s \in LiveNow
      BY <1>4 DEF LiveNow
    <2> HIDE DEF c, dead
    <2> QED  BY <1>4, <1>5, <2>1, <2>2, <2>3, <2>4, <2>5 DEF Copied
  <1>8. \A p \in Parents : Now(<<db>>).rec[p].state = "Failed" => p \in c.dead
    <2>1. \A p \in Parents : db.rec[p].state = "Failed" => p \in dead
      BY <1>4, Names DEF Active
    <2> HIDE DEF c, dead
    <2> QED  BY <1>5, <2>1
  <1>9. s \in c.keep /\ s \in c.wait /\ c.anchors[s] = tx[s].anchors
    <2>1. Known(db, s) /\ s \in WaitNow
      BY <1>2, <1>4 DEF CopiesOK, WaitNow
    <2>2. s \in keep
      BY <1>4, <2>1
    <2> HIDE DEF c, keep
    <2> QED  BY <1>4, <1>5, <2>1, <2>2
  <1>10. o = "DispatchError" =>
           (/\ s \notin Present /\ ~FundingMissing(s) /\ ~AnchorMissing(s) /\ BudgetSpent(snap[s])
            => ToSet(c.anchors[s]) \subseteq c.spared)
    <2>1. o = "DispatchError" /\ s \notin Present /\ ~FundingMissing(s) /\ ~AnchorMissing(s)
            /\ BudgetSpent(snap[s]) => ToSet(tx[s].anchors) \subseteq spared
      BY DEF GivesUp
    <2> HIDE DEF c, spared
    <2> QED  BY <1>5, <1>9, <2>1
  <1>11. c.spared = spared /\ c.calm = Undisturbed /\ c.due = {} /\ Allowed(c) \subseteq A
         /\ <<db>> \in Runs(A, c) /\ \A x \in Speedups : c.anchors[x] = tx[x].anchors
    <2> HIDE DEF c, spared, A, keep, dead
    <2> QED  BY <1>5
  <1> HIDE DEF c
  <1>12. t \in Runs(A, c)
    <2> DEFINE R == Runs(A, c)
    <2>1. MarkAccepted(<<db>>, s, snap[s]) \in R
      BY <1>2, <1>4, <1>7, <1>11, Names, MarkAcceptedRun
    <2>2. SettleFailedChild(<<db>>, s) \in R
      BY <1>2, <1>4, <1>6, <1>8, <1>9, <1>11, SettleFailedChildRun
    <2>3. o = "DispatchError" => Classify(<<db>>, s, snap[s]) \in R
      BY <1>2, <1>4, <1>6, <1>7, <1>8, <1>9, <1>10, <1>11, ClassifyRun
    <2> HIDE DEF R
    <2>4. t \in R
      BY <1>4, <2>1, <2>2, <2>3 DEF Outcomes
    <2> QED  BY <2>4 DEF R
  <1> HIDE DEF t
  <1>13. UNCHANGED <<height, minedAt, relayed>> /\ UNCHANGED indexVars
    BY <1>1 DEF chainVars
  <1>14. ChainOK'
    BY <1>1, <1>2, <1>13, ChainKept
  <1>15. t \in Runs(LinkedStores(tx'), c)
    BY <1>1, <1>12
  <1>16. CASE CutShort(t)
    BY <1>2, <1>14, <1>15, <1>16, CutLinked DEF LinkInv
  <1>17. CASE Commit(t, "send") /\ abandoned' = gone /\ UNCHANGED snap
    <2>1. c.spared \subseteq (abandoned \cup Deep)'
      BY <1>11, <1>13, <1>17 DEF Deep
    <2>2. /\ db' \in LinkedStores(tx') /\ Linked(db', tx') /\ db' \in Allowed(c) /\ CoverOK'
      BY <1>1, <1>11, <1>15, <1>17, <2>1, CommitLinked
    <2>3. CopiesOK'
      <3>1. /\ ToSet(db'.list) \subseteq ToSet(db.list)
            /\ \A x \in Speedups : Permits(c, x, db'.rec[x])
            /\ \A x \in Ids : Known(db, x) => Known(db', x)
        <4>1. c.listed = ToSet(db.list) /\ c.keep = keep
          BY DEF c, FrameOf
        <4> QED  BY <2>2, <4>1 DEF Allowed, Stays, Known
      <3>2. c.wait = WaitNow /\ c.live = LiveNow /\ c.listed = ToSet(db.list)
            /\ \A x \in Speedups : c.replaces[x] = db.rec[x].replaces
        BY DEF c, FrameOf
      <3>3. \A x \in DOMAIN snap : Known(db', x) /\ db'.rec[x].replaces = db.rec[x].replaces
        <4>1. \A x \in DOMAIN snap : x \in Speedups /\ x \in Ids /\ Known(db, x)
          BY <1>2, <1>4, Names DEF CopiesOK
        <4> QED  BY <3>1, <3>2, <4>1 DEF Permits, Known
      <3>4. LiveNow' \subseteq LiveNow
        <4>1. \A x \in ToSet(db'.list) : x \in Speedups /\ x \in ToSet(db.list)
          BY <1>2, <3>1, LinkNames
        <4>2. \A x \in ToSet(db'.list) : Lively(db'.rec[x]) => x \in LiveNow
          BY <3>1, <3>2, <4>1 DEF Permits
        <4> QED  BY <1>17, <4>2 DEF LiveNow
      <3>5. WaitNow' \subseteq WaitNow
        <4>1. \A x \in Speedups : db'.rec[x].state = "ToDispatch" => x \in WaitNow
          BY <3>1, <3>2 DEF Permits
        <4> QED  BY <1>17, <4>1 DEF WaitNow
      <3>6. \A r \in LiveNow', y \in WaitNow' : db'.rec[r].replaces # y
        <4> SUFFICES ASSUME NEW r \in LiveNow', NEW y \in WaitNow'  PROVE db'.rec[r].replaces # y
          OBVIOUS
        <4>1. r \in LiveNow /\ y \in WaitNow /\ r \in Speedups /\ y \in Speedups
          BY <1>2, <3>4, <3>5, LinkNames
        <4>2. db.rec[r].replaces # y /\ y # 0
          BY <1>2, <4>1, Names DEF CopiesOK
        <4>3. db'.rec[r].replaces = 0 \/ db'.rec[r].replaces = db.rec[r].replaces
          BY <3>1, <3>2, <4>1 DEF Permits
        <4> QED  BY <4>2, <4>3
      <3>7. \A x \in DOMAIN snap : /\ snap[x].replaces = db.rec[x].replaces
                                   /\ db.rec[x].replaces = 0 /\ tx[x].anchors # <<>> =>
                                        snap[x].parents = tx[x].anchors
        BY <1>2 DEF CopiesOK
      <3> QED  BY <1>1, <1>17, <3>3, <3>6, <3>7 DEF CopiesOK
    <2> QED  BY <1>14, <2>2, <2>3 DEF LinkInv
  <1> QED
    BY <1>1, <1>16, <1>17

\* What the dispatch of the speedups takes from the store agrees with it.
LEMMA TakenCopiesOK ==
    ASSUME db' \in Store, Linked(db', tx'),
           DOMAIN snap' \subseteq {s \in Listed(db') : db'.rec[s].state = "ToDispatch"},
           \A s \in DOMAIN snap' : snap'[s] = db'.rec[s]
    PROVE  CopiesOK'
  <1>1. /\ ToSet(db'.list) \subseteq Speedups /\ Listed(db') \subseteq Speedups
        /\ Listed(db') \subseteq ToSet(db'.list)
    BY OrderedSeq, StoreFields, ToSetOfSeq DEF Lists
  <1>2. \A s \in DOMAIN snap' : /\ s \in ToSet(db'.list) /\ s \in Speedups
                                /\ db'.rec[s].state = "ToDispatch"
    BY <1>1
  <1>3. \A x \in DOMAIN snap' :
          /\ Known(db', x) /\ snap'[x].replaces = db'.rec[x].replaces
          /\ db'.rec[x].replaces = 0 /\ tx'[x].anchors # <<>> => snap'[x].parents = tx'[x].anchors
    BY <1>2 DEF Linked, Known
  <1>4. \A r \in LiveNow', y \in WaitNow' : db'.rec[r].replaces # y
    <2>1. \A r \in LiveNow' : r \in ToSet(db'.list) /\ Lively(db'.rec[r])
      BY <1>2 DEF LiveNow, Lively
    <2>2. \A y \in WaitNow' : y \in Speedups /\ db'.rec[y].state = "ToDispatch"
      BY <1>2 DEF WaitNow
    <2> QED  BY <2>1, <2>2 DEF Linked
  <1> QED
    BY <1>3, <1>4 DEF CopiesOK

\* The parents are sent: none of them is forgotten, whatever becomes of it.
LEMMA DispatchParentsLinked ==
    ASSUME LinkInv, SpeedupInv', DispatchParents
    PROVE  LinkInv'
  <1> DEFINE queue == {p \in Parents : db.rec[p].state = "ToDispatch"}
             batch == RateLimited(db, queue, retryReady)
             ready == retryReady /\ Retrying(db, queue) = {}
             keep == {x \in Ids : Known(db, x)}
             due == {p \in Parents : db.rec[p].state \in Active}
             X == abandoned \cup Deep
             c == FrameOf(db, keep, {}, due, X, WaitNow, LiveNow)
             A == LinkedStores(tx)
  <1>1. PICK taken \in SUBSET {p \in batch : Acceptable(p)} :
          LET t == HandleLoop(<<db>>, SetToSeq(batch), taken)
          IN  /\ Accept(taken)
              /\ \/ /\ Commit(t, "send")
                    /\ ReadSpeedups(Now(t), ready)
                    /\ UNCHANGED <<results, abandoned>>
                 \/ CutShort(t)
    BY Zenon DEF DispatchParents, HandleLoop
  <1> DEFINE t == HandleLoop(<<db>>, SetToSeq(batch), taken)
             d == Now(t)
             sendable == RateLimited(d, {s \in Listed(d) : d.rec[s].state = "ToDispatch"}, ready)
  <1>2. /\ Accept(taken) /\ UNCHANGED <<tx, indexVars>> /\ pc # "send"
        /\ \/ /\ Commit(t, "send") /\ snap' = [s \in sendable |-> d.rec[s]] /\ UNCHANGED abandoned
           \/ CutShort(t)
    BY <1>1 DEF DispatchParents, ReadSpeedups
  <1>3. /\ SpeedupInv /\ NodeTypeOK /\ TxShape /\ faults \in Nat /\ ChainOK /\ CopiesOK
        /\ Linked(db, tx) /\ db \in Store /\ DOMAIN snap = {}
    BY <1>2, LinkNames DEF LinkInv, SpeedupInv, PassOK
  <1>4. batch \subseteq queue /\ batch \in SUBSET Ids /\ taken \subseteq Parents
    BY Names DEF RateLimited
  <1>5. batch \subseteq due
    BY <1>4 DEF Active
  <1> HIDE DEF batch, ready, queue
  <1>6. /\ Sound(c) /\ Allowed(c) \subseteq A /\ <<db>> \in Runs(A, c)
        /\ c.keep = keep /\ c.dead = {} /\ c.due = due /\ c.fresh = {} /\ c.calm = Undisturbed
        /\ c.spared = X /\ c.wait = WaitNow
        /\ \A x \in Speedups : c.anchors[x] = tx[x].anchors
    <2>1. /\ \A x \in keep \cap Ids : Known(db, x)
          /\ \A p \in due : db.rec[p].state \in Active
          /\ \A x \in {} \cap Ids : db.rec[x].state \notin Active
      OBVIOUS
    <2>2. /\ \A x \in Speedups : db.rec[x].state = "ToDispatch" => x \in WaitNow
          /\ \A x \in ToSet(db.list) : Lively(db.rec[x]) => x \in LiveNow
      BY DEF WaitNow, LiveNow
    <2>3. LiveNow \subseteq Speedups /\ \A r \in LiveNow, y \in WaitNow : db.rec[r].replaces # y
      BY <1>3, LinkNames DEF CopiesOK
    <2>4. db \in LinkedStores(tx) /\ (Undisturbed => Covering(db, tx, abandoned \cup Deep))
      BY <1>3 DEF LinkInv, CoverOK, LinkedStores
    <2>5. abandoned \cup Deep \subseteq X
      OBVIOUS
    <2> HIDE DEF keep, due, X, c, A
    <2>6. c = FrameOf(db, keep, {}, due, X, WaitNow, LiveNow)
      BY DEF c
    <2>7. MayFrame(db, keep, {}, due, X, WaitNow, LiveNow)
      BY <2>1, <2>2, <2>3, <2>4, <2>5 DEF MayFrame
    <2> QED  BY <2>6, <2>7, FrameNow DEF A
  <1>7. WaitNow \subseteq keep /\ due \subseteq keep
    <2>1. WaitNow = {x \in Speedups : db.rec[x].state = "ToDispatch"}
      BY <1>3 DEF WaitNow
    <2> QED  BY <2>1, Names DEF Known, Active
  <1> HIDE DEF c, keep, due, A, X
  <1>8. Sending(c)
    BY <1>6, <1>7 DEF Sending
  <1>9. t \in Runs(A, c)
    <2> DEFINE R == Runs(A, c)
               q == SetToSeq(batch)
    <2>1. q \in Seq(batch)
      BY <1>4, SubsetsOfIds
    <2>2. ASSUME NEW acc \in R, NEW p \in batch  PROVE HandleParent(acc, p, taken) \in R
      <3>1. p \in Parents /\ p \in c.due /\ p \notin c.dead
        BY <1>4, <1>5, <1>6 DEF queue
      <3> QED  BY <1>3, <1>6, <1>8, <3>1, HandleParentRun
    <2>3. <<db>> \in R /\ t = HandleLoop(<<db>>, q, taken)
      BY <1>6
    <2> HIDE DEF R, q, t
    <2>4. t \in R
      BY <2>1, <2>2, <2>3, HandleFold
    <2> QED  BY <2>4 DEF R
  <1> HIDE DEF t
  <1>10. UNCHANGED <<height, minedAt>>
    BY <1>2 DEF Accept
  <1>11. ChainOK'
    <2>1. \A x \in taken : x \in Speedups => tx[x] # NoTx
      BY <1>4, Names
    <2> QED  BY <1>2, <1>3, <2>1, ChainAccept
  <1>12. t \in Runs(LinkedStores(tx'), c) /\ \A x \in Speedups : c.anchors[x] = tx'[x].anchors
    BY <1>2, <1>6, <1>9 DEF A
  <1>13. CASE CutShort(t)
    BY <1>3, <1>11, <1>12, <1>13, CutLinked DEF LinkInv
  <1>14. CASE Commit(t, "send") /\ snap' = [s \in sendable |-> d.rec[s]] /\ UNCHANGED abandoned
    <2>1. c.spared \subseteq (abandoned \cup Deep)'
      BY <1>6, <1>10, <1>14 DEF Deep, X
    <2>2. db' \in LinkedStores(tx') /\ Linked(db', tx') /\ db' = d /\ CoverOK'
      BY <1>6, <1>12, <1>14, <2>1, CommitLinked
    <2> HIDE DEF d
    <2>3. sendable \subseteq {s \in Listed(d) : d.rec[s].state = "ToDispatch"}
      BY DEF RateLimited
    <2> HIDE DEF sendable
    <2>4. DOMAIN snap' = sendable /\ \A s \in sendable : snap'[s] = d.rec[s]
      BY <1>14
    <2>5. CopiesOK'
      BY <2>2, <2>3, <2>4, TakenCopiesOK DEF LinkedStores
    <2> QED  BY <1>11, <2>2, <2>5 DEF LinkInv
  <1> QED
    BY <1>2, <1>13, <1>14

\* The frame of a review pass over d: what has no live replacement may be queued.
Reviewing(d) ==
    FrameOf(d, {}, {}, {p \in Parents : d.rec[p].state \in Active}, abandoned \cup Deep,
            {y \in Speedups : d.rec[y].state = "ToDispatch" \/ ~HasLiveReplacement(d, y)},
            {x \in ToSet(d.list) : Lively(d.rec[x])})

\* A review pass keeps the stores linked, and the parents covered.
LEMMA ReviewPassLinked ==
    ASSUME NodeTypeOK, TxShape, ChainOK, NEW t \in Seq(LinkedStores(tx)), t # <<>>,
           Undisturbed => Covering(Now(t), tx, abandoned \cup Deep),
           NEW xs \in Seq(Ids), NEW orphans, NEW c, c = Reviewing(Now(t))
    PROVE  /\ ReviewPass(t, xs, orphans) \in Runs(LinkedStores(tx), c)
           /\ Allowed(c) \subseteq LinkedStores(tx)
           /\ c.calm = Undisturbed /\ c.spared = abandoned \cup Deep
           /\ \A x \in Speedups : c.anchors[x] = tx[x].anchors
  <1> DEFINE A == LinkedStores(tx)
             d == Now(t)
             due == {p \in Parents : d.rec[p].state \in Active}
             wait == {y \in Speedups : d.rec[y].state = "ToDispatch" \/ ~HasLiveReplacement(d, y)}
             live == {x \in ToSet(d.list) : Lively(d.rec[x])}
             X == abandoned \cup Deep
  <1>1. d \in A
    <2>1. t \in Seq(A)
      OBVIOUS
    <2> HIDE DEF A
    <2>2. Last(t) \in A
      BY <2>1, HeadLast
    <2> QED  BY <2>2 DEF Now
  <1>2. d \in Store /\ Linked(d, tx)
    BY <1>1 DEF LinkedStores
  <1> HIDE DEF d
  <1>3. ToSet(d.list) \subseteq Speedups
    BY <1>2, StoreFields, ToSetOfSeq DEF Lists
  <1>4. \A r \in live, y \in wait : d.rec[r].replaces # y
    <2> SUFFICES ASSUME NEW r \in live, NEW y \in wait, d.rec[r].replaces = y  PROVE FALSE
      OBVIOUS
    <2>1. r \in ToSet(d.list) /\ Lively(d.rec[r]) /\ y \in Speedups /\ r \in Speedups
      BY <1>3
    <2>2. d.rec[y].state # "ToDispatch"
      BY <1>2, <2>1 DEF Linked
    <2>3. ~HasLiveReplacement(d, y)
      BY <2>2
    <2>4. r \in Listed(d)
      BY <1>2, <2>1, OrderedSeq DEF Listed, Known, Lively
    <2> QED  BY <2>1, <2>3, <2>4 DEF HasLiveReplacement, Lively
  <1>5. c = FrameOf(d, {}, {}, due, X, wait, live)
    BY DEF Reviewing, d
  <1>6. /\ \A p \in due : d.rec[p].state \in Active
        /\ abandoned \cup Deep \subseteq X /\ live \subseteq Speedups
        /\ \A x \in Speedups : d.rec[x].state = "ToDispatch" => x \in wait
        /\ \A x \in ToSet(d.list) : Lively(d.rec[x]) => x \in live
        /\ \A x \in {} \cap Ids : Known(d, x) /\ d.rec[x].state \notin Active
    BY <1>3
  <1>7. /\ \A p \in Parents : d.rec[p].state \in Active => p \in due
        /\ \A y \in Speedups : y \in wait \/ HasLiveReplacement(d, y)
    OBVIOUS
  <1> HIDE DEF due, wait, live, X
  <1>8. MayFrame(d, {}, {}, due, X, wait, live)
    BY <1>1, <1>4, <1>6 DEF MayFrame, d
  <1> HIDE DEF A
  <1>9. /\ Sound(c) /\ Allowed(c) \subseteq A /\ d \in Held(c)
        /\ c.dead = {} /\ c.due = due /\ c.fresh = {} /\ c.calm = Undisturbed
        /\ c.spared = X /\ c.wait = wait /\ c.live = live
        /\ c.listed = ToSet(d.list) /\ c.built = {x \in Speedups : tx[x] # NoTx}
        /\ \A x \in Speedups : c.anchors[x] = tx[x].anchors /\ c.replaces[x] = d.rec[x].replaces
    <2>1. /\ Sound(c) /\ Allowed(c) \subseteq LinkedStores(tx) /\ d \in Held(c)
          /\ <<d>> \in Runs(LinkedStores(tx), c) /\ Now(<<d>>) = d
          /\ c.keep = {} /\ c.dead = {} /\ c.due = due /\ c.fresh = {} /\ c.calm = Undisturbed
          /\ c.spared = X /\ c.wait = wait /\ c.live = live
          /\ c.listed = ToSet(d.list) /\ c.built = {x \in Speedups : tx[x] # NoTx}
          /\ \A x \in Speedups : c.anchors[x] = tx[x].anchors /\ c.replaces[x] = d.rec[x].replaces
      BY <1>5, <1>8, FrameNow
    <2> QED  BY <2>1 DEF A
  <1>10. t \in Runs(A, c)
    BY <1>9 DEF Runs, d, Now, A
  <1>11. ASSUME NEW x \in Flying(d)
         PROVE  /\ Copied(c, x, d.rec[x])
                /\ x \in Speedups => x \in c.wait \/ HasLiveReplacement(d, x)
                /\ c.calm /\ x \in Speedups /\ TxStatus(x, orphans) = "finalized" =>
                     ToSet(c.anchors[x]) \subseteq c.spared
    <2>1. x \in Ids /\ d.rec[x].state \in {"InMempool", "Confirmed"}
      BY DEF Flying
    <2>2. d.rec[x].state \in Active /\ Lively(d.rec[x]) /\ d.rec[x].state # "Unregistered"
      BY <2>1 DEF Active, Lively
    <2>3. x \in Parents => d.rec[x].replaces = 0 /\ x \in c.due
      BY <1>2, <1>7, <1>9, <2>1, <2>2, StoreFields
    <2>4. x \in Speedups => /\ tx[x] # NoTx
                            /\ d.rec[x].replaces = 0 /\ tx[x].anchors # <<>> =>
                                 d.rec[x].parents = tx[x].anchors
      BY <1>2, <2>2 DEF Linked
    <2>5. x \in Speedups => (x \in c.listed => x \in c.live)
      BY <1>6, <1>9, <2>2
    <2>6. Copied(c, x, d.rec[x])
      BY <1>9, <2>3, <2>4, <2>5 DEF Copied
    <2>7. c.calm /\ x \in Speedups /\ TxStatus(x, orphans) = "finalized" =>
            ToSet(c.anchors[x]) \subseteq c.spared
      <3> SUFFICES ASSUME c.calm, x \in Speedups, TxStatus(x, orphans) = "finalized"
                   PROVE  ToSet(c.anchors[x]) \subseteq c.spared
        OBVIOUS
      <3>1. ToSet(tx[x].anchors) \subseteq Deep
        BY <1>9, FinalIsDeep DEF Undisturbed
      <3> QED  BY <1>9, <3>1 DEF X
    <2> QED  BY <1>7, <1>9, <2>6, <2>7
  <1>12. ReviewPass(t, xs, orphans) \in Runs(A, c)
    BY <1>9, <1>10, <1>11, ReviewPassRun DEF d
  <1> QED
    BY <1>9, <1>12 DEF A, X

\* Steps 1 and 2 of the tick.
LEMMA ReviewLinked ==
    ASSUME LinkInv, SpeedupInv', Review
    PROVE  LinkInv'
  <1> DEFINE A == LinkedStores(tx)
             X == abandoned \cup Deep
  <1>1. PICK orphans \in SUBSET {x \in Ids : db.rec[x].state = "Confirmed" /\ x \notin Present} :
          LET parents == ReviewPass(<<db>>, SetToSeq(Parents), orphans)
          IN  Step(ReviewPass(parents, Ordered(Now(parents)), orphans), "dispatch")
    BY DEF Review
  <1> DEFINE u == ReviewPass(<<db>>, SetToSeq(Parents), orphans)
             t == ReviewPass(u, Ordered(Now(u)), orphans)
             b == Reviewing(Now(<<db>>))
             c == Reviewing(Now(u))
  <1>2. Step(t, "dispatch") /\ UNCHANGED tx /\ UNCHANGED <<chainVars, indexVars>> /\ pc # "send"
    BY <1>1 DEF Review
  <1>3. /\ SpeedupInv /\ NodeTypeOK /\ TxShape /\ ChainOK /\ db \in A /\ DOMAIN snap = {}
        /\ (Undisturbed => Covering(db, tx, X))
    BY <1>2, LinkNames DEF LinkInv, SpeedupInv, PassOK, CoverOK, LinkedStores
  <1>4. SetToSeq(Parents) \in Seq(Ids)
    <2>1. SetToSeq(Parents) \in Seq(Parents)
      BY Names, SubsetsOfIds
    <2> QED  BY <2>1, Names, SeqWider
  <1>5. Now(<<db>>) = db
    BY <1>3, StepStart
  <1>6. <<db>> \in Seq(A) /\ <<db>> # <<>>
    BY <1>3
  <1>7. /\ u \in Runs(A, b) /\ Allowed(b) \subseteq A /\ b.calm = Undisturbed /\ b.spared = X
        /\ \A x \in Speedups : b.anchors[x] = tx[x].anchors
    <2> HIDE DEF b, u
    <2>1. /\ ReviewPass(<<db>>, SetToSeq(Parents), orphans) \in Runs(A, b) /\ Allowed(b) \subseteq A
          /\ b.calm = Undisturbed /\ b.spared = abandoned \cup Deep
          /\ \A x \in Speedups : b.anchors[x] = tx[x].anchors
      BY <1>3, <1>4, <1>5, <1>6, ReviewPassLinked DEF b
    <2> QED  BY <2>1 DEF u
  <1> HIDE DEF b, u
  <1>8. u \in Seq(A) /\ u # <<>> /\ Now(u) \in Held(b) /\ Now(u) \in Store
    BY <1>7, RunNow DEF Runs
  <1>9. Undisturbed => Covering(Now(u), tx, X)
    <2> HIDE DEF X
    <2> QED  BY <1>7, <1>8, FrameCovers
  <1>10. Ordered(Now(u)) \in Seq(Ids)
    <2>1. Ordered(Now(u)) \in Seq(Speedups)
      BY <1>8, OrderedSeq
    <2> QED  BY <2>1, Names, SeqWider
  <1>11. /\ t \in Runs(A, c) /\ c.calm = Undisturbed /\ c.spared = X
         /\ \A x \in Speedups : c.anchors[x] = tx[x].anchors
    <2> HIDE DEF c, t
    <2>1. /\ ReviewPass(u, Ordered(Now(u)), orphans) \in Runs(A, c)
          /\ c.calm = Undisturbed /\ c.spared = abandoned \cup Deep
          /\ \A x \in Speedups : c.anchors[x] = tx[x].anchors
      BY <1>3, <1>8, <1>9, <1>10, ReviewPassLinked DEF c
    <2> QED  BY <2>1 DEF t
  <1> HIDE DEF c, t
  <1>12. UNCHANGED <<height, minedAt, relayed>> /\ UNCHANGED indexVars
    BY <1>2 DEF chainVars
  <1>13. ChainOK'
    BY <1>2, <1>3, <1>12, ChainKept
  <1>14. t \in Runs(LinkedStores(tx'), c) /\ \A x \in Speedups : c.anchors[x] = tx'[x].anchors
    BY <1>2, <1>11
  <1> QED
    BY <1>2, <1>3, <1>11, <1>12, <1>13, <1>14, StepLinked

-----------------------------------------------------------------------------
(* A speedup is built. *)

\* The frame of a step that goes on to build s.
Building(c, s, replaced, anchors, calm) ==
    [replaces |-> [x \in Speedups |-> IF x = s THEN replaced ELSE c.replaces[x]],
     anchors |-> [x \in Speedups |-> IF x = s THEN anchors ELSE c.anchors[x]],
     built |-> c.built \cup {s}, keep |-> {}, wait |-> c.wait \cup {s}, live |-> c.live \cup {s},
     listed |-> c.listed \cup {s}, fresh |-> {s}, dead |-> {}, spared |-> c.spared, due |-> {},
     calm |-> calm]

\* Its fields.
LEMMA BuildingFields ==
    ASSUME NEW c, NEW s, NEW replaced, NEW anchors, NEW calm,
           NEW e, e = Building(c, s, replaced, anchors, calm)
    PROVE  /\ \A x \in Speedups :
                /\ e.replaces[x] = IF x = s THEN replaced ELSE c.replaces[x]
                /\ e.anchors[x] = IF x = s THEN anchors ELSE c.anchors[x]
           /\ e.built = c.built \cup {s} /\ e.keep = {} /\ e.wait = c.wait \cup {s}
           /\ e.live = c.live \cup {s} /\ e.listed = c.listed \cup {s} /\ e.fresh = {s}
           /\ e.dead = {} /\ e.spared = c.spared /\ e.due = {} /\ e.calm = calm
  BY DEF Building

\* The list may grow by what the frame lists.
LEMMA HeldListed ==
    ASSUME NEW c, NEW d \in Held(c), NEW e \in Store, e.rec = d.rec, e.psp = d.psp,
           ToSet(e.list) \subseteq c.listed
    PROVE  e \in Held(c)
  <1>1. e \in Allowed(c)
    BY DEF Held, Allowed
  <1>2. c.calm => Covers(c, e)
    BY DEF Held, Covers, CoveredBy
  <1> QED
    BY <1>1, <1>2 DEF Held

\* What a build needs to be saved in the frame e: c is the frame before it.
MaySave(A, c, e, s, r, anchors, calm) ==
    /\ Allowed(c) \subseteq A /\ Allowed(e) \subseteq A
    /\ e = Building(c, s, r.replaces, anchors, calm)
    /\ r.state = "ToDispatch" /\ r.broadcast = 0
    /\ r.replaces = 0 /\ anchors # <<>> => r.parents = anchors
    /\ calm => c.calm
    /\ calm /\ s \notin c.dead /\ s \in c.built => r.replaces = 0 /\ anchors = c.anchors[s]

\* insert_speedup: what s covered before it still covers.
LEMMA InsertRun ==
    ASSUME NEW A, NEW c, NEW e, NEW s \in Speedups, NEW r \in Rec, NEW anchors, NEW calm,
           MaySave(A, c, e, s, r, anchors, calm), NEW t \in Runs(A, c)
    PROVE  InsertSpeedup(t, s, r) \in Runs(A, e) /\ Now(InsertSpeedup(t, s, r)).rec[s] = r
  <1> USE DEF MaySave
  <1> DEFINE d == Now(t)
             w == [d EXCEPT !.rec[s] = r]
             u == UpdateTx(t, s, r)
             v == Append(w.list, s)
             z == [w EXCEPT !.list = v]
  <1>1. d \in Allowed(c) /\ d \in Store /\ (c.calm => Covers(c, d))
    BY RunNow DEF Held
  <1>2. s \in Ids /\ s \notin Parents
    BY Names
  <1>3. u = Put(t, w) /\ InsertSpeedup(t, s, r) = IF Contains(d.list, s) THEN u
                                                   ELSE Put(u, [Now(u) EXCEPT !.list = Append(@, s)])
    BY DEF UpdateTx, InsertSpeedup
  <1>4. /\ \A x \in Speedups :
             /\ e.replaces[x] = IF x = s THEN r.replaces ELSE c.replaces[x]
             /\ e.anchors[x] = IF x = s THEN anchors ELSE c.anchors[x]
        /\ e.built = c.built \cup {s} /\ e.keep = {} /\ e.wait = c.wait \cup {s}
        /\ e.live = c.live \cup {s} /\ e.listed = c.listed \cup {s} /\ e.fresh = {s}
        /\ e.dead = {} /\ e.spared = c.spared /\ e.due = {} /\ e.calm = calm
    BY BuildingFields
  <1> HIDE DEF d
  <1>5. /\ w \in Store /\ w.list = d.list /\ w.psp = d.psp
        /\ \A y \in Ids : w.rec[y] = IF y = s THEN r ELSE d.rec[y]
    BY <1>1, <1>2, WriteRecord
  <1> HIDE DEF w
  <1>6. w \in Allowed(e)
    <2>1. ASSUME NEW x \in Speedups  PROVE Permits(e, x, w.rec[x])
      <3>1. x \in Ids /\ Permits(c, x, d.rec[x])
        BY <1>1, Names DEF Allowed
      <3>2. CASE x = s
        BY <1>2, <1>4, <1>5, <3>2 DEF Permits
      <3>3. CASE x # s
        <4>1. w.rec[x] = d.rec[x] /\ x \notin e.fresh
          BY <1>4, <1>5, <3>1, <3>3
        <4>2. e.replaces[x] = c.replaces[x] /\ e.anchors[x] = c.anchors[x]
          BY <1>4, <3>3
        <4> QED  BY <1>4, <3>1, <3>3, <4>1, <4>2 DEF Permits
      <3> QED  BY <3>2, <3>3
    <2>2. ToSet(w.list) \subseteq e.listed
      BY <1>1, <1>4, <1>5 DEF Allowed
    <2>3. \A x \in Ids : Stays(e, x, w.rec[x])
      BY <1>4 DEF Stays
    <2> QED  BY <1>5, <2>1, <2>2, <2>3 DEF Allowed
  <1>7. ASSUME e.calm  PROVE Covers(e, w)
    <2> SUFFICES ASSUME NEW p \in Parents \ e.spared, w.rec[p].state \in Active
                 PROVE  p \in ToSet(w.psp) \/ \E x \in Speedups : CoveredBy(e, w, x, p)
      BY <1>4 DEF Covers
    <2>1. p \in Ids /\ p # s /\ d.rec[p].state \in Active /\ p \in Parents \ c.spared
      BY <1>2, <1>4, <1>5, Names
    <2>2. p \in ToSet(d.psp) \/ \E x \in Speedups : CoveredBy(c, d, x, p)
      BY <1>1, <1>4, <1>7, <2>1 DEF Covers
    <2>3. ASSUME NEW x \in Speedups, CoveredBy(c, d, x, p)  PROVE CoveredBy(e, w, x, p)
      <3>1. /\ p \in ToSet(c.anchors[x]) /\ c.replaces[x] = 0 /\ d.rec[x].state \in Active /\ x \in Ids
            /\ Permits(c, x, d.rec[x]) /\ Stays(c, x, d.rec[x])
        BY <1>1, <2>3, Names DEF CoveredBy, Allowed
      <3>2. CASE x # s
        BY <1>4, <1>5, <3>1, <3>2 DEF CoveredBy
      <3>3. CASE x = s
        <4>1. s \notin c.dead /\ s \in c.built
          BY <3>1, <3>3 DEF Stays, Permits, Active
        <4>2. r.replaces = 0 /\ anchors = c.anchors[s]
          BY <1>4, <1>7, <4>1
        <4>3. w.rec[s].state \in Active
          BY <1>2, <1>5 DEF Active
        <4> QED  BY <1>4, <3>1, <3>3, <4>2, <4>3 DEF CoveredBy
      <3> QED  BY <3>2, <3>3
    <2> QED  BY <1>5, <2>2, <2>3
  <1>8. w \in Held(e)
    BY <1>6, <1>7 DEF Held
  <1>9. u \in Runs(A, e) /\ Now(u) = w
    BY <1>3, <1>8, RunPut
  <1> HIDE DEF u
  <1>10. CASE Contains(d.list, s)
    BY <1>2, <1>3, <1>5, <1>9, <1>10
  <1>11. CASE ~Contains(d.list, s)
    <2>1. d.list \in Lists(Speedups) /\ d.list \in Seq(Speedups)
      BY <1>1, StoreFields DEF Lists
    <2>2. s \notin ToSet(d.list)
      BY <1>11, <2>1, ToSetOfSeq DEF Contains
    <2>3. v \in Lists(Speedups) /\ ToSet(v) = ToSet(d.list) \cup {s}
      BY <1>5, <2>1, <2>2, ListAppend
    <2>4. InsertSpeedup(t, s, r) = Put(u, z)
      BY <1>3, <1>9, <1>11
    <2> HIDE DEF v
    <2>5. z \in Store /\ z.list = v /\ z.rec = w.rec /\ z.psp = w.psp
      BY <1>5, <2>3, WriteList
    <2> HIDE DEF z
    <2>6. ToSet(z.list) \subseteq e.listed
      BY <1>1, <1>4, <2>3, <2>5 DEF Allowed
    <2>7. z \in Held(e)
      BY <1>8, <2>5, <2>6, HeldListed
    <2>8. Put(u, z) \in Runs(A, e) /\ Now(Put(u, z)) = z
      BY <1>9, <2>7, RunPut
    <2> QED  BY <1>2, <1>5, <2>4, <2>5, <2>8
  <1> QED
    BY <1>10, <1>11

\* A boost is saved.
LEMMA SaveBoostRun ==
    ASSUME NEW A, NEW c, NEW e, NEW s \in Speedups, NEW r \in Rec, NEW anchors, NEW calm,
           MaySave(A, c, e, s, r, anchors, calm), NEW t \in Runs(A, c), NEW capped
    PROVE  SaveBoost(t, s, r, capped) \in Runs(A, e)
  <1> DEFINE saved == InsertSpeedup(t, s, r)
             told == IF capped THEN AddNews(saved, "MaxFeeRateReached", s) ELSE saved
             x == r.replaces
             o == Now(told).rec[x]
             z == [o EXCEPT !.rate = MaxRate]
  <1>1. saved \in Runs(A, e) /\ Allowed(e) \subseteq A
    <2>1. saved \in Runs(A, e)
      BY InsertRun
    <2> QED  BY <2>1 DEF MaySave
  <1>2. told \in Runs(A, e)
    <2> HIDE DEF saved
    <2>1. s \in Ids \cup Fundings \cup {0}
      BY Names
    <2>2. AddNews(saved, "MaxFeeRateReached", s) \in Runs(A, e)
      BY <1>1, <2>1, AddNewsRun DEF Kinds
    <2> QED  BY <1>1, <2>2
  <1>3. SaveBoost(t, s, r, capped) = IF capped /\ IsRbf(r) THEN UpdateTx(told, x, z) ELSE told
    BY DEF SaveBoost
  <1> HIDE DEF told
  <1>4. CASE ~(capped /\ IsRbf(r))
    BY <1>2, <1>3, <1>4
  <1>5. CASE capped /\ IsRbf(r)
    <2>1. x \in Speedups
      <3>1. x \in 0..MaxSpeedups /\ x # 0 /\ MaxSpeedups \in Nat
        BY <1>5, RecFields, Names DEF IsRbf
      <3> QED  BY <3>1 DEF Speedups
    <2>2. o \in Rec /\ o = Now(told).rec[x]
      BY <1>2, <2>1, RunRecord
    <2>3. UpdateTx(told, x, z) = SaveBoost(t, s, r, capped)
      BY <1>3, <1>5
    <2> HIDE DEF x, o
    <2>4. /\ z \in Rec /\ z.state = o.state /\ z.replaces = o.replaces
          /\ z.parents = o.parents /\ z.broadcast = o.broadcast
      <3>1. MaxRate \in 0..MaxRate
        BY SpeedupAssumption
      <3> QED  BY <2>2, <3>1 DEF Rec
    <2> HIDE DEF z
    <2> QED  BY <1>1, <1>2, <2>1, <2>2, <2>3, <2>4, QuietUpdate
  <1> QED
    BY <1>4, <1>5

\* What was spared for a while is covered again, perhaps by the speedup s.
LEMMA NowCovered ==
    ASSUME NEW A, NEW c, NEW X, NEW t \in Runs(A, Sparing(c, X)), NEW s \in Speedups,
           \A p \in X : CoveredBy(c, Now(t), s, p)
    PROVE  t \in Runs(A, c)
  <1> DEFINE e == Sparing(c, X)
             d == Last(t)
  <1>1. /\ e.replaces = c.replaces /\ e.anchors = c.anchors
        /\ e.spared = c.spared \cup X /\ e.due = c.due /\ e.calm = c.calm
    BY SparingFields
  <1>2. t \in Seq(A) /\ t # <<>> /\ d \in Held(e) /\ Now(t) = d
    BY DEF Runs, Now
  <1>3. Allowed(e) = Allowed(c)
    BY SparingRuns
  <1> HIDE DEF e
  <1>4. d \in Allowed(c) /\ (c.calm => Covers(e, d))
    BY <1>1, <1>2, <1>3 DEF Held
  <1>5. ASSUME c.calm  PROVE Covers(c, d)
    <2> SUFFICES ASSUME NEW p \in Parents \ c.spared
                 PROVE  d.rec[p].state \in Active \/ p \in c.due =>
                          p \in ToSet(d.psp) \/ \E y \in Speedups : CoveredBy(c, d, y, p)
      BY DEF Covers
    <2>1. CASE p \in X
      BY <1>2, <2>1
    <2>2. CASE p \notin X
      <3>1. \A y : CoveredBy(e, d, y, p) <=> CoveredBy(c, d, y, p)
        BY <1>1 DEF CoveredBy
      <3>2. p \in Parents \ e.spared
        BY <1>1, <2>2
      <3> QED  BY <1>1, <1>4, <1>5, <3>1, <3>2 DEF Covers
    <2> QED  BY <2>1, <2>2
  <1>6. d \in Held(c)
    BY <1>4, <1>5 DEF Held
  <1> QED
    BY <1>2, <1>6 DEF Runs

\* Sparing parents and building s commute.
LEMMA SparingBuilding ==
    ASSUME NEW c, NEW X, NEW s, NEW replaced, NEW anchors, NEW calm
    PROVE  Building(Sparing(c, X), s, replaced, anchors, calm)
             = Sparing(Building(c, s, replaced, anchors, calm), X)
  BY DEF Building, Sparing

\* The first CPFP of a batch is saved: it covers what is no longer pending.
LEMMA SaveFirstRun ==
    ASSUME NEW A, NEW c, NEW e, NEW s \in Speedups, NEW r \in Rec, NEW calm, c.due = {},
           MaySave(A, c, e, s, r, r.parents, calm), r.replaces = 0,
           NEW t \in Runs(A, c), NEW capped
    PROVE  SaveFirst(t, s, r, capped) \in Runs(A, e)
  <1> DEFINE X == ToSet(r.parents)
             b == Sparing(c, X)
             g == Sparing(e, X)
             T == Runs(A, b)
             q == r.parents
             dropped == DropLoop(t, q)
             told == IF capped THEN AddNews(dropped, "MaxFeeRateReached", s) ELSE dropped
             u == InsertSpeedup(told, s, r)
  <1>1. SaveFirst(t, s, r, capped) = u
    BY Zenon DEF SaveFirst, DropLoop
  <1>2. /\ Allowed(b) = Allowed(c) /\ t \in Runs(A, b) /\ Allowed(g) = Allowed(e)
        /\ b.dead = c.dead /\ b.built = c.built /\ b.anchors = c.anchors /\ b.calm = c.calm
        /\ b.due = c.due /\ X \subseteq b.spared
    <2> HIDE DEF X
    <2>1. Allowed(b) = Allowed(c) /\ Runs(A, c) \subseteq Runs(A, b)
      BY SparingRuns
    <2>2. Allowed(g) = Allowed(e)
      BY SparingRuns
    <2>3. /\ b.dead = c.dead /\ b.built = c.built /\ b.anchors = c.anchors /\ b.calm = c.calm
          /\ b.due = c.due /\ X \subseteq b.spared
      <3>1. b.spared = c.spared \cup X
        BY SparingFields
      <3>2. /\ b.dead = c.dead /\ b.built = c.built /\ b.anchors = c.anchors /\ b.calm = c.calm
            /\ b.due = c.due
        BY SparingFields
      <3> QED  BY <3>1, <3>2
    <2> QED  BY <2>1, <2>2, <2>3
  <1>3. g = Building(b, s, r.replaces, r.parents, calm)
    BY SparingBuilding DEF MaySave
  <1>4. Allowed(b) \subseteq A /\ Allowed(g) \subseteq A
    BY <1>2 DEF MaySave
  <1>5. q \in Seq(X)
    <2>1. q \in Seq(Ids)
      BY RecFields DEF Lists
    <2> HIDE DEF q
    <2>2. \A i \in 1..Len(q) : q[i] \in ToSet(q)
      BY <2>1, ToSetOfSeq
    <2> QED  BY <2>1, <2>2 DEF q
  <1> HIDE DEF b, g, X, q
  <1>6. ASSUME NEW acc \in T, NEW p \in X  PROVE RemovePendingSpeedupParent(acc, p) \in T
    BY <1>2, <1>4, RemovePendingRun
  <1>7. dropped \in T
    <2>1. t \in T
      BY <1>2
    <2> HIDE DEF T
    <2> QED  BY <1>5, <1>6, <2>1, DropFold
  <1> HIDE DEF dropped
  <1>8. told \in Runs(A, b)
    <2>1. s \in Ids \cup Fundings \cup {0}
      BY Names
    <2>2. AddNews(dropped, "MaxFeeRateReached", s) \in Runs(A, b)
      BY <1>4, <1>7, <2>1, AddNewsRun DEF Kinds
    <2> QED  BY <1>7, <2>2
  <1> HIDE DEF told
  <1>9. u \in Runs(A, g) /\ Now(u).rec[s] = r
    <2>1. MaySave(A, b, g, s, r, r.parents, calm)
      BY <1>2, <1>3, <1>4 DEF MaySave
    <2> QED  BY <1>8, <2>1, InsertRun
  <1> HIDE DEF u
  <1>10. \A p \in X : CoveredBy(e, Now(u), s, p)
    <2>1. e.replaces[s] = 0 /\ e.anchors[s] = r.parents
      BY BuildingFields DEF MaySave
    <2> QED  BY <1>9, <2>1 DEF CoveredBy, X, Active, MaySave
  <1>11. u \in Runs(A, e)
    BY <1>9, <1>10, NowCovered DEF g
  <1> QED
    BY <1>1, <1>11

\* Nothing that counts is lost when s is built: it is new, was never sent, or it
\* and what replaced it were given up.
GoodSlot(s) ==
    \/ tx[s] = NoTx
    \/ Prebuilt(db, s)
    \/ /\ db.rec[s].state \in {"Failed", "Unregistered"}
       /\ \A r \in Listed(db) : db.rec[r].replaces = s => db.rec[r].state = "Failed"

\* The stores on the way to a build of s.
BuildStores(s, T) == {d \in Store : (Prebuilt(d, s) => GoodSlot(s)) => Linked(d, T)}

\* The frame before it.
Before(s) ==
    FrameOf(db, {}, {x \in {s} : db.rec[x].state \notin Active}, {}, abandoned \cup Deep,
            {x \in Speedups : db.rec[x].state = "ToDispatch"},
            {x \in ToSet(db.list) : Lively(db.rec[x])})

\* s may be built as r, for the transaction content.
MayBuildAs(s, r, content) ==
    /\ tx' = [tx EXCEPT ![s] = content] /\ content # NoTx /\ tx[s] \in {content, NoTx}
    /\ r.state = "ToDispatch" /\ r.broadcast = 0
    /\ r.replaces = 0 /\ content.anchors # <<>> => r.parents = content.anchors
    /\ r.replaces # 0 => /\ r.replaces \in Speedups /\ db.rec[r.replaces].state = "InMempool"
                         /\ tx[r.replaces].anchors = content.anchors
    /\ Undisturbed /\ GoodSlot(s) /\ r.replaces # 0 => db.rec[s].state \notin Active

\* What is built says more of no other transaction.
LEMMA LinkedMore ==
    ASSUME NEW T, NEW U, \A x \in Speedups : T[x] # NoTx => U[x] = T[x], NEW d \in Store, Linked(d, T)
    PROVE  Linked(d, U)
  <1>1. ASSUME NEW x \in Speedups
        PROVE  IF d.rec[x].state = "Unregistered" THEN d.rec[x].replaces = 0
               ELSE /\ U[x] # NoTx
                    /\ d.rec[x].replaces = 0 /\ U[x].anchors # <<>> => d.rec[x].parents = U[x].anchors
    BY DEF Linked
  <1>2. ASSUME NEW x \in Speedups, d.rec[x].replaces # 0
        PROVE  U[d.rec[x].replaces] # NoTx /\ U[d.rec[x].replaces].anchors = U[x].anchors
    <2> DEFINE y == d.rec[x].replaces
    <2>1. y \in Speedups
      <3>1. y \in 0..MaxSpeedups /\ MaxSpeedups \in Nat
        BY StoreFields, RecFields, Names
      <3> QED  BY <1>2, <3>1 DEF Speedups
    <2>2. T[x] # NoTx /\ T[y] # NoTx /\ T[y].anchors = T[x].anchors
      BY <1>2 DEF Linked
    <2> HIDE DEF y
    <2>3. U[x] = T[x] /\ U[y] = T[y]
      BY <2>1, <2>2
    <2> QED  BY <2>2, <2>3 DEF y
  <1> QED
    BY <1>1, <1>2 DEF Linked

\* What a good slot means for the SpeedupList.
LEMMA GoodSlotFree ==
    ASSUME db \in Store, Linked(db, tx), NEW s \in Speedups, GoodSlot(s)
    PROVE  /\ db.rec[s].state # "InMempool"
           /\ \A r \in ToSet(db.list) : Lively(db.rec[r]) => db.rec[r].replaces # s
  <1>1. ToSet(db.list) \subseteq Speedups
    BY StoreFields, ToSetOfSeq DEF Lists
  <1>2. CASE tx[s] = NoTx
    <2>1. db.rec[s].state = "Unregistered"
      BY <1>2 DEF Linked
    <2>2. \A r \in Speedups : db.rec[r].replaces # s
      BY <1>2, Names DEF Linked
    <2> QED  BY <1>1, <2>1, <2>2
  <1>3. CASE Prebuilt(db, s)
    BY <1>3 DEF Prebuilt, Linked
  <1>4. CASE /\ db.rec[s].state \in {"Failed", "Unregistered"}
             /\ \A r \in Listed(db) : db.rec[r].replaces = s => db.rec[r].state = "Failed"
    <2>1. \A r \in ToSet(db.list) : Lively(db.rec[r]) => r \in Listed(db)
      BY DEF Listed, Known, Lively
    <2> QED  BY <1>4, <2>1 DEF Lively
  <1> QED
    BY <1>2, <1>3, <1>4 DEF GoodSlot

\* The frame before a build.
LEMMA BeforeFrame ==
    ASSUME LinkInv, NEW s \in Speedups, NEW c, c = Before(s)
    PROVE  /\ Sound(c) /\ Allowed(c) \subseteq LinkedStores(tx) /\ db \in Held(c)
           /\ c.due = {} /\ c.calm = Undisturbed /\ c.spared = abandoned \cup Deep
           /\ c.dead = {x \in {s} : db.rec[x].state \notin Active}
           /\ c.wait = {x \in Speedups : db.rec[x].state = "ToDispatch"}
           /\ c.live = {x \in ToSet(db.list) : Lively(db.rec[x])}
           /\ c.built = {x \in Speedups : tx[x] # NoTx}
           /\ \A x \in Speedups : c.anchors[x] = tx[x].anchors /\ c.replaces[x] = db.rec[x].replaces
  <1> DEFINE dead == {x \in {s} : db.rec[x].state \notin Active}
             X == abandoned \cup Deep
             wait == {x \in Speedups : db.rec[x].state = "ToDispatch"}
             live == {x \in ToSet(db.list) : Lively(db.rec[x])}
  <1>1. db \in LinkedStores(tx) /\ (Undisturbed => Covering(db, tx, abandoned \cup Deep))
    BY LinkNames DEF LinkInv, CoverOK, LinkedStores
  <1>2. ToSet(db.list) \subseteq Speedups /\ Linked(db, tx)
    BY LinkNames DEF LinkInv
  <1>3. /\ \A x \in {} \cap Ids : Known(db, x)
        /\ \A x \in dead \cap Ids : db.rec[x].state \notin Active
        /\ \A p \in {} : db.rec[p].state \in Active
        /\ abandoned \cup Deep \subseteq X
        /\ \A x \in Speedups : db.rec[x].state = "ToDispatch" => x \in wait
        /\ \A x \in ToSet(db.list) : Lively(db.rec[x]) => x \in live
        /\ live \subseteq Speedups
    BY <1>2
  <1>4. \A r \in live, y \in wait : db.rec[r].replaces # y
    BY <1>2 DEF Linked
  <1>5. c = FrameOf(db, {}, dead, {}, X, wait, live)
    BY DEF Before
  <1> HIDE DEF dead, X, wait, live
  <1>6. MayFrame(db, {}, dead, {}, X, wait, live)
    BY <1>1, <1>3, <1>4 DEF MayFrame
  <1>7. /\ Sound(c) /\ Allowed(c) \subseteq LinkedStores(tx) /\ db \in Held(c)
        /\ <<db>> \in Runs(LinkedStores(tx), c) /\ Now(<<db>>) = db
        /\ c.keep = {} /\ c.dead = dead /\ c.due = {} /\ c.fresh = {} /\ c.calm = Undisturbed
        /\ c.spared = X /\ c.wait = wait /\ c.live = live
        /\ c.listed = ToSet(db.list) /\ c.built = {x \in Speedups : tx[x] # NoTx}
        /\ \A x \in Speedups : c.anchors[x] = tx[x].anchors /\ c.replaces[x] = db.rec[x].replaces
    BY <1>5, <1>6, FrameNow
  <1> QED
    BY <1>7 DEF dead, X, wait, live

\* A build may be saved.
LEMMA BuildingFrame ==
    ASSUME LinkInv, NEW s \in Speedups, NEW r \in Rec, NEW content, MayBuildAs(s, r, content),
           NEW c, c = Before(s), NEW calm, calm = (Undisturbed /\ GoodSlot(s)),
           NEW e, e = Building(c, s, r.replaces, content.anchors, calm),
           NEW A, A = BuildStores(s, tx')
    PROVE  /\ MaySave(A, c, e, s, r, content.anchors, calm)
           /\ <<db>> \in Runs(A, c) /\ c.due = {}
           /\ e.calm = calm /\ e.spared = abandoned \cup Deep /\ e.fresh = {s}
           /\ \A x \in Speedups : e.anchors[x] = tx'[x].anchors
  <1>1. /\ Sound(c) /\ Allowed(c) \subseteq LinkedStores(tx) /\ db \in Held(c)
        /\ c.due = {} /\ c.calm = Undisturbed /\ c.spared = abandoned \cup Deep
        /\ c.dead = {x \in {s} : db.rec[x].state \notin Active}
        /\ c.wait = {x \in Speedups : db.rec[x].state = "ToDispatch"}
        /\ c.live = {x \in ToSet(db.list) : Lively(db.rec[x])}
        /\ c.built = {x \in Speedups : tx[x] # NoTx}
        /\ \A x \in Speedups : c.anchors[x] = tx[x].anchors /\ c.replaces[x] = db.rec[x].replaces
    BY BeforeFrame
  <1>2. /\ \A x \in Speedups :
             /\ e.replaces[x] = IF x = s THEN r.replaces ELSE c.replaces[x]
             /\ e.anchors[x] = IF x = s THEN content.anchors ELSE c.anchors[x]
        /\ e.built = c.built \cup {s} /\ e.wait = c.wait \cup {s}
        /\ e.live = c.live \cup {s} /\ e.fresh = {s} /\ e.spared = c.spared /\ e.calm = calm
    BY BuildingFields
  <1>3. db \in Store /\ Linked(db, tx) /\ TxShape /\ s \in Ids
    BY LinkNames, Names DEF LinkInv, SpeedupInv
  <1>4. \A x \in Speedups : tx'[x] = IF x = s THEN content ELSE tx[x]
    BY <1>3 DEF MayBuildAs, TxShape
  <1>5. \A x \in Speedups : tx[x] # NoTx => tx'[x] = tx[x]
    BY <1>4 DEF MayBuildAs
  <1>6. Allowed(c) \subseteq A
    <2> SUFFICES ASSUME NEW d \in Allowed(c)  PROVE d \in A
      OBVIOUS
    <2>1. d \in Store /\ Linked(d, tx)
      BY <1>1 DEF LinkedStores
    <2>2. Linked(d, tx')
      BY <1>5, <2>1, LinkedMore
    <2> QED  BY <2>1, <2>2 DEF BuildStores
  <1>7. \A x \in Speedups : e.anchors[x] = tx'[x].anchors
    BY <1>1, <1>2, <1>4
  <1>8. \A x \in e.built : tx'[x] # NoTx
    BY <1>1, <1>2, <1>4, <1>5 DEF MayBuildAs
  <1>9. ASSUME GoodSlot(s)  PROVE Sound(e)
    <2>1. /\ db.rec[s].state # "InMempool"
          /\ \A y \in ToSet(db.list) : Lively(db.rec[y]) => db.rec[y].replaces # s
      BY <1>3, <1>9, GoodSlotFree
    <2>2. r.replaces # 0 => r.replaces # s
      BY <2>1 DEF MayBuildAs
    <2>3. ASSUME NEW x \in Speedups, e.replaces[x] # 0
          PROVE  /\ e.replaces[x] \in Speedups
                 /\ e.anchors[e.replaces[x]] = e.anchors[x] /\ e.replaces[x] \in e.built
      <3>1. CASE x = s
        <4>1. e.replaces[x] = r.replaces /\ r.replaces \in Speedups /\ r.replaces # s
              /\ tx[r.replaces].anchors = content.anchors /\ db.rec[r.replaces].state = "InMempool"
          BY <1>2, <2>2, <2>3, <3>1 DEF MayBuildAs
        <4>2. tx[r.replaces] # NoTx
          BY <1>3, <4>1 DEF Linked
        <4> QED  BY <1>1, <1>2, <3>1, <4>1, <4>2
      <3>2. CASE x # s
        <4> DEFINE y == db.rec[x].replaces
        <4>1. e.replaces[x] = y /\ c.replaces[x] = y
          BY <1>1, <1>2, <3>2
        <4>2. y \in Speedups /\ c.anchors[y] = c.anchors[x] /\ y \in c.built
          BY <1>1, <2>3, <4>1 DEF Sound
        <4> HIDE DEF y
        <4>3. e.anchors[y] = c.anchors[y]
          BY <1>1, <1>2, <1>4, <1>5, <1>7, <4>2
        <4> QED  BY <1>2, <3>2, <4>1, <4>2, <4>3
      <3> QED  BY <3>1, <3>2
    <2>4. ASSUME NEW x \in e.live, NEW y \in e.wait, e.replaces[x] = y  PROVE FALSE
      <3>0. x \in Speedups /\ y \in Speedups
        BY <1>1, <1>2, <2>4, LinkNames DEF LinkInv
      <3>1. CASE x = s
        <4>1. y = r.replaces /\ y # 0
          BY <1>2, <2>4, <3>0, <3>1, Names
        <4>2. y # s /\ db.rec[y].state = "InMempool"
          BY <2>2, <4>1 DEF MayBuildAs
        <4> QED  BY <1>1, <1>2, <4>2
      <3>2. CASE x # s
        <4>1. x \in c.live /\ db.rec[x].replaces = y /\ c.replaces[x] = y
          BY <1>1, <1>2, <2>4, <3>0, <3>2
        <4>2. y # s
          BY <1>1, <2>1, <4>1
        <4> QED  BY <1>1, <1>2, <4>1, <4>2 DEF Sound
      <3> QED  BY <3>1, <3>2
    <2> QED  BY <2>3, <2>4 DEF Sound
  <1>10. Allowed(e) \subseteq A
    <2>1. CASE GoodSlot(s)
      <3>1. Allowed(e) \subseteq LinkedStores(tx')
        BY <1>7, <1>8, <1>9, <2>1, FrameEnd
      <3> QED  BY <3>1 DEF LinkedStores, BuildStores
    <2>2. CASE ~GoodSlot(s)
      <3> SUFFICES ASSUME NEW d \in Allowed(e)  PROVE d \in A
        OBVIOUS
      <3>1. d \in Store /\ Prebuilt(d, s)
        BY <1>2 DEF Allowed, Permits, Prebuilt
      <3> QED  BY <2>2, <3>1 DEF BuildStores
    <2> QED  BY <2>1, <2>2
  <1>11. calm /\ s \notin c.dead /\ s \in c.built => r.replaces = 0 /\ content.anchors = c.anchors[s]
    BY <1>1 DEF MayBuildAs
  <1>12. MaySave(A, c, e, s, r, content.anchors, calm)
    BY <1>1, <1>6, <1>10, <1>11 DEF MaySave, MayBuildAs
  <1>13. <<db>> \in Runs(A, c)
    BY <1>1, <1>6, RunStart
  <1> QED
    BY <1>1, <1>2, <1>7, <1>12, <1>13

\* A build is stored, or cut short: by RebuiltDead it took a good slot.
LEMMA BuildEnds ==
    ASSUME LinkInv, SpeedupInv', RebuiltDead, UNCHANGED <<chainVars, indexVars>>,
           NEW s \in Speedups, NEW r \in Rec, NEW content, MayBuildAs(s, r, content),
           NEW A, A = BuildStores(s, tx'),
           NEW e, e.calm = (Undisturbed /\ GoodSlot(s)), e.spared = abandoned \cup Deep,
           e.fresh = {s}, \A x \in Speedups : e.anchors[x] = tx'[x].anchors,
           NEW t \in Runs(A, e), NEW to,
           \/ Commit(t, to) /\ DOMAIN snap' = {} /\ abandoned' = abandoned
           \/ CutShort(t)
    PROVE  LinkInv'
  <1>1. /\ UNCHANGED <<height, minedAt, relayed>> /\ UNCHANGED indexVars
        /\ faults \in Nat /\ TxShape /\ ChainOK
    BY DEF chainVars, LinkInv, SpeedupInv
  <1>2. \A x \in Speedups : tx[x] # NoTx => tx'[x] = tx[x]
    BY <1>1 DEF MayBuildAs, TxShape
  <1>3. ChainOK'
    BY <1>1, <1>2, ChainKept
  <1>4. t \in Seq(A) /\ t # <<>> /\ Now(t) \in Held(e)
    BY RunNow DEF Runs
  <1>5. db' \in A
    <2>1. CASE Commit(t, to)
      <3>1. Last(t) \in A /\ db' = Last(t)
        BY <1>4, <2>1, HeadLast DEF Commit, Now
      <3> QED  BY <3>1
    <2>2. CASE CutShort(t)
      <3>1. \E i \in 1..(Len(t) - 1) : db' = t[i]
        BY <2>2 DEF CutShort
      <3> QED  BY <1>4, <3>1
    <2> QED  BY <2>1, <2>2
  <1>6. Prebuilt(db', s) => GoodSlot(s)
    BY DEF RebuiltDead, GoodSlot
  <1>7. db' \in Store /\ Linked(db', tx')
    BY <1>5, <1>6 DEF BuildStores
  <1>8. CASE CutShort(t)
    <2>1. DOMAIN snap' = {} /\ faults' = faults + 1
      BY <1>8 DEF CutShort, NoCopies
    <2>2. CopiesOK'
      BY <1>7, <2>1, NoCopiesOK
    <2>3. CoverOK'
      BY <1>1, <2>1 DEF CoverOK, Undisturbed
    <2> QED  BY <1>3, <1>7, <2>2, <2>3 DEF LinkInv
  <1>9. CASE Commit(t, to) /\ DOMAIN snap' = {} /\ abandoned' = abandoned
    <2>1. CopiesOK'
      BY <1>7, <1>9, NoCopiesOK
    <2>2. db' \in Held(e) /\ faults' = faults
      BY <1>4, <1>9 DEF Commit
    <2>3. Permits(e, s, db'.rec[s])
      BY <2>2 DEF Held, Allowed
    <2>4. Prebuilt(db', s)
      BY <2>3 DEF Permits, Prebuilt
    <2>5. ASSUME Undisturbed'  PROVE Covering(db', tx', (abandoned \cup Deep)')
      <3>1. e.calm
        BY <1>6, <2>2, <2>4, <2>5 DEF Undisturbed
      <3>2. Covering(db', tx', e.spared)
        BY <2>2, <3>1, FrameCovers
      <3>3. (abandoned \cup Deep)' = e.spared
        BY <1>1, <1>9 DEF Deep
      <3> QED  BY <3>2, <3>3
    <2>6. CoverOK'
      BY <2>5 DEF CoverOK
    <2> QED  BY <1>3, <1>7, <2>1, <2>6 DEF LinkInv
  <1> QED
    BY <1>8, <1>9

\* A slot holds the same transaction, or none yet.
LEMMA SlotHolds ==
    ASSUME NEW content, NEW s \in SlotsFor(content)
    PROVE  s \in Speedups /\ tx[s] \in {content, NoTx}
  <1> DEFINE same == {x \in Speedups : tx[x] = content}
             unused == {x \in Speedups : tx[x] = NoTx}
  <1>1. SlotsFor(content) = IF same # {} THEN same ELSE IF unused # {} THEN {Min(unused)} ELSE {}
    BY DEF SlotsFor
  <1>2. unused # {} => Min(unused) \in unused
    <2>1. unused \in SUBSET Nat
      BY Names DEF Speedups
    <2> HIDE DEF unused
    <2> QED  BY <2>1, MinExists
  <1> QED
    BY <1>1, <1>2

\* The tip is in the mempool.
LEMMA TipIsLive ==
    ASSUME NEW d \in Store, LiveSpeedups(d) # <<>>
    PROVE  Tip(d) \in Speedups /\ d.rec[Tip(d)].state = "InMempool"
  <1> DEFINE live == {s \in Speedups : IsLive(d, s)}
             q == Where(Ordered(d), live)
  <1>1. Ordered(d) \in Seq(Speedups)
    BY OrderedSeq
  <1>2. q = LiveSpeedups(d) /\ Tip(d) = Last(q)
    BY DEF LiveSpeedups, Tip
  <1>3. \A s \in live : s \in Speedups /\ d.rec[s].state = "InMempool"
    BY DEF IsLive
  <1> HIDE DEF live
  <1>4. q \in Seq(Speedups) /\ ToSet(q) = ToSet(Ordered(d)) \cap live
    BY <1>1, WhereKeeps
  <1>5. q # <<>>
    BY <1>2
  <1> HIDE DEF q
  <1>6. Len(q) \in 1..Len(q) /\ Last(q) = q[Len(q)]
    BY <1>4, <1>5 DEF Last
  <1>7. Last(q) \in ToSet(q)
    BY <1>4, <1>6, ToSetOfSeq
  <1> QED
    BY <1>2, <1>3, <1>4, <1>7

\* Nothing in a good slot is alive while no listed speedup is queued.
LEMMA GoodSlotIdle ==
    ASSUME LinkInv, Undisturbed, ~AnyToDispatch(db), NEW s \in Speedups, GoodSlot(s)
    PROVE  db.rec[s].state \notin Active
  <1>1. PICK P \in SUBSET Speedups : db \in Good(Between(Mode, P, {}))
    BY StepStart DEF LinkInv
  <1>2. Fits(Between(Mode, P, {}), db.list, s, db.rec[s])
    BY <1>1 DEF Good, Calm, Between, Mode, Undisturbed
  <1>3. CASE tx[s] = NoTx
    BY <1>3 DEF LinkInv, Linked, Active
  <1>4. CASE Prebuilt(db, s)
    <2>1. s \in ToSet(db.list) /\ db.rec[s].state = "ToDispatch"
      BY <1>2, <1>4 DEF Prebuilt, Fits, Active
    <2>2. s \in Listed(db)
      BY <2>1 DEF Listed, Known
    <2> QED  BY <2>1, <2>2 DEF AnyToDispatch
  <1>5. CASE db.rec[s].state \in {"Failed", "Unregistered"}
    BY <1>5 DEF Active
  <1> QED
    BY <1>3, <1>4, <1>5 DEF GoodSlot

\* boost_if_stale.
LEMMA BoostLinked ==
    ASSUME LinkInv, SpeedupInv', RebuiltDead, NEW rate \in 1..MaxRate, NEW capped, Boost(rate, capped)
    PROVE  LinkInv'
  <1>1. SpeedupInv /\ TxShape /\ db \in Store /\ faults \in Nat /\ ChainOK
    BY LinkNames DEF LinkInv, SpeedupInv
  <1> DEFINE tip == Tip(db)
             useRbf == SlotsFull(db)
             inherited == IF useRbf THEN tx[tip].funding ELSE <<>>
             built == Build(<<db>>, inherited, rate)
             anchors == IF useRbf THEN tx[tip].anchors ELSE <<>>
             content == Content(built.inputs, anchors, rate)
             added == SubSeq(built.inputs, Len(inherited) + 1, Len(built.inputs))
             record == [NewRecord EXCEPT
                          !.rate = rate,
                          !.parents = IF useRbf THEN <<>> ELSE <<tip>>,
                          !.replaces = IF useRbf THEN tip ELSE 0,
                          !.fresh = IF useRbf THEN added ELSE <<>>]
  <1>2. /\ ShouldBoost /\ UNCHANGED <<chainVars, indexVars>>
        /\ \/ /\ built.inputs = <<>> /\ UNCHANGED tx
              /\ EndDispatch(built.trace) \/ CutShort(built.trace)
           \/ /\ built.inputs # <<>>
              /\ \E s \in SlotsFor(content) :
                   /\ tx' = [tx EXCEPT ![s] = content]
                   /\ \/ EndDispatch(SaveBoost(built.trace, s, record, capped))
                      \/ CutShort(SaveBoost(built.trace, s, record, capped))
    BY Zenon DEF Boost
  <1>3. tip \in Speedups /\ db.rec[tip].state = "InMempool" /\ ~AnyToDispatch(db)
    BY <1>1, <1>2, TipIsLive DEF ShouldBoost
  <1>4. inherited \in Seq(Outputs) /\ anchors \in Lists(Parents) /\ useRbf \in BOOLEAN
        /\ (useRbf => anchors = tx[tip].anchors) /\ (~useRbf => anchors = <<>>)
    <2>1. tx[tip].funding \in Seq(Outputs) /\ tx[tip].anchors \in Lists(Parents)
      BY <1>1, <1>3 DEF TxShape
    <2>2. useRbf \in BOOLEAN
      BY DEF SlotsFull
    <2> HIDE DEF tip, useRbf
    <2> QED  BY <2>1, <2>2, EmptyList
  <1> HIDE DEF inherited, anchors
  <1>5. /\ built.inputs \in Seq(Outputs)
        /\ built.inputs # <<>> => Len(inherited) <= Len(built.inputs)
    <2>1. PICK P \in SUBSET Speedups : <<db>> \in Traces(Between(Mode, P, {}))
      BY <1>1, StepStart
    <2> QED  BY <1>4, <2>1, BuildGood
  <1>6. ASSUME NEW A, NEW c, Allowed(c) \subseteq A, <<db>> \in Runs(A, c)
        PROVE  built.trace \in Runs(A, c)
    BY <1>4, <1>6, BuildRun
  <1> HIDE DEF built
  <1>7. UNCHANGED <<height, minedAt, relayed>> /\ UNCHANGED indexVars
    BY <1>2 DEF chainVars
  <1>8. CASE /\ built.inputs = <<>> /\ UNCHANGED tx
             /\ EndDispatch(built.trace) \/ CutShort(built.trace)
    <2> DEFINE c == Idle
               A == LinkedStores(tx)
               t == built.trace
    <2>1. /\ Allowed(c) \subseteq A /\ <<db>> \in Runs(A, c)
          /\ c.calm = Undisturbed /\ c.spared = abandoned \cup Deep
          /\ \A x \in Speedups : c.anchors[x] = tx[x].anchors
      BY IdleFrame
    <2> HIDE DEF c, A
    <2>2. t \in Runs(A, c)
      BY <1>6, <2>1
    <2>3. ChainOK'
      BY <1>1, <1>7, <1>8, ChainKept
    <2>4. A = LinkedStores(tx') /\ \A x \in Speedups : c.anchors[x] = tx'[x].anchors
      BY <1>8, <2>1 DEF A
    <2>5. EndDispatch(t) \/ CutShort(t)
      BY <1>8
    <2> HIDE DEF t
    <2>6. CASE EndDispatch(t)
      BY <1>1, <1>7, <2>1, <2>2, <2>3, <2>4, <2>6, EndLinked
    <2>7. CASE CutShort(t)
      <3>1. Linked(db', tx') /\ CopiesOK' /\ CoverOK'
        BY <1>1, <2>2, <2>4, <2>7, CutLinked
      <3> QED  BY <2>3, <3>1 DEF LinkInv
    <2> QED  BY <2>5, <2>6, <2>7
  <1>9. ASSUME built.inputs # <<>>, NEW s \in SlotsFor(content), tx' = [tx EXCEPT ![s] = content],
               \/ EndDispatch(SaveBoost(built.trace, s, record, capped))
               \/ CutShort(SaveBoost(built.trace, s, record, capped))
        PROVE  LinkInv'
    <2> DEFINE t == SaveBoost(built.trace, s, record, capped)
               calm == Undisturbed /\ GoodSlot(s)
    <2>1. content.funding = built.inputs /\ content.anchors = anchors
      BY ContentFields
    <2> HIDE DEF content
    <2>2. s \in Speedups /\ tx[s] \in {content, NoTx}
      BY SlotHolds
    <2>3. content # NoTx
      BY <1>9, <2>1 DEF NoTx
    <2>4. /\ record \in Rec /\ record.state = "ToDispatch" /\ record.broadcast = 0
          /\ record.replaces = IF useRbf THEN tip ELSE 0
      <3>1. record = BoostOf(tip, useRbf, rate, inherited, built.inputs)
        BY DEF BoostOf
      <3> HIDE DEF tip, useRbf, record
      <3> QED  BY <1>3, <1>4, <1>5, <1>9, <3>1, BoostRecord
    <2>5. EndDispatch(t) \/ CutShort(t)
      BY <1>9
    <2> HIDE DEF tip, useRbf, record
    <2>6. MayBuildAs(s, record, content)
      <3>1. record.replaces = 0 => content.anchors = <<>>
        BY <1>3, <1>4, <2>1, <2>4, Names
      <3>2. record.replaces # 0 => record.replaces = tip /\ content.anchors = tx[tip].anchors
        BY <1>4, <2>1, <2>4
      <3>3. Undisturbed /\ GoodSlot(s) => db.rec[s].state \notin Active
        BY <1>3, <2>2, GoodSlotIdle
      <3> QED  BY <1>3, <1>9, <2>2, <2>3, <2>4, <3>1, <3>2, <3>3 DEF MayBuildAs
    <2> DEFINE c == Before(s)
               e == Building(c, s, record.replaces, content.anchors, calm)
               A == BuildStores(s, tx')
    <2> HIDE DEF c, e, A, calm
    <2>7. /\ MaySave(A, c, e, s, record, content.anchors, calm)
          /\ <<db>> \in Runs(A, c) /\ c.due = {}
          /\ e.calm = calm /\ e.spared = abandoned \cup Deep /\ e.fresh = {s}
          /\ \A x \in Speedups : e.anchors[x] = tx'[x].anchors
      BY <2>2, <2>4, <2>6, BuildingFrame DEF c, e, A, calm
    <2>8. built.trace \in Runs(A, c)
      BY <1>6, <2>7 DEF MaySave
    <2>9. t \in Runs(A, e)
      BY <2>2, <2>4, <2>7, <2>8, SaveBoostRun
    <2> HIDE DEF t
    <2>10. (\E to : Commit(t, to) /\ DOMAIN snap' = {} /\ abandoned' = abandoned) \/ CutShort(t)
      BY <2>5 DEF EndDispatch, NoCopies
    <2> QED  BY <1>2, <2>2, <2>4, <2>6, <2>7, <2>9, <2>10, BuildEnds DEF A, calm
  <1> QED
    BY <1>2, <1>8, <1>9

\* The CPFP for the next batch.
LEMMA CreateCpfpLinked ==
    ASSUME LinkInv, SpeedupInv', RebuiltDead,
           NEW rate \in 1..MaxRate, NEW capped, CreateCpfpBatch(rate, capped)
    PROVE  LinkInv'
  <1>1. SpeedupInv /\ TxShape /\ db \in Store /\ faults \in Nat /\ ChainOK
    BY LinkNames DEF LinkInv, SpeedupInv
  <1> DEFINE pruned == PruneParents(<<db>>)
             eligible == EligibleParents(Now(pruned))
             batch == SubSeq(eligible, 1, Min({MaxBatch, Len(eligible)}))
             built == Build(pruned, <<>>, rate)
             content == Content(built.inputs, batch, rate)
             record == [NewRecord EXCEPT !.rate = rate, !.parents = batch]
  <1>2. /\ pc = "batch" /\ UNCHANGED <<chainVars, indexVars>>
        /\ \/ built.inputs = <<>> /\ Step(built.trace, "idle") /\ UNCHANGED tx
           \/ /\ built.inputs # <<>>
              /\ \E s \in SlotsFor(content) :
                   /\ tx' = [tx EXCEPT ![s] = content]
                   /\ Step(SaveFirst(built.trace, s, record, capped), "idle")
    BY Zenon DEF CreateCpfpBatch
  <1>3. DOMAIN snap = {} /\ pc # "send"
    BY <1>1, <1>2 DEF SpeedupInv, PassOK
  <1>4. PICK P \in SUBSET Speedups : <<db>> \in Traces(Between(Mode, P, {}))
    BY <1>1, StepStart
  <1>5. pruned \in Traces(Between(Mode, P, {})) /\ Now(pruned) \in Store
    <2> DEFINE b == Between(Mode, P, {})
    <2>1. pruned \in Traces(b)
      BY <1>4, PruneParentsGood
    <2> HIDE DEF b, pruned
    <2>2. Now(pruned) \in Store
      BY <2>1, TraceNow
    <2> QED  BY <2>1, <2>2 DEF b
  <1>6. ASSUME NEW A, NEW c, Allowed(c) \subseteq A, c.due = {}, <<db>> \in Runs(A, c)
        PROVE  built.trace \in Runs(A, c)
    <2>1. pruned \in Runs(A, c)
      BY <1>6, PruneParentsRun
    <2>2. <<>> \in Seq(Outputs)
      OBVIOUS
    <2> HIDE DEF pruned
    <2> QED  BY <1>6, <2>1, <2>2, BuildRun
  <1> HIDE DEF pruned
  <1>7. batch \in Lists(Parents) /\ batch \in Lists(Ids)
    BY <1>5, BatchLists
  <1> HIDE DEF batch, built
  <1>8. CASE built.inputs = <<>> /\ Step(built.trace, "idle") /\ UNCHANGED tx
    <2> DEFINE c == Idle
               A == LinkedStores(tx)
               t == built.trace
    <2>1. Allowed(c) \subseteq A /\ <<db>> \in Runs(A, c) /\ c.due = {}
      BY IdleFrame
    <2> HIDE DEF c, A
    <2>2. t \in Runs(A, c)
      BY <1>6, <2>1
    <2> HIDE DEF t
    <2>3. Step(t, "idle")
      BY <1>8 DEF t
    <2> QED  BY <1>2, <1>3, <1>8, <2>2, <2>3, QuietLinked DEF A, c
  <1>9. ASSUME built.inputs # <<>>, NEW s \in SlotsFor(content), tx' = [tx EXCEPT ![s] = content],
               Step(SaveFirst(built.trace, s, record, capped), "idle")
        PROVE  LinkInv'
    <2> DEFINE t == SaveFirst(built.trace, s, record, capped)
               calm == Undisturbed /\ GoodSlot(s)
    <2>1. content.funding = built.inputs /\ content.anchors = batch
      BY ContentFields
    <2> HIDE DEF content
    <2>2. s \in Speedups /\ tx[s] \in {content, NoTx}
      BY SlotHolds
    <2>3. content # NoTx
      BY <1>9, <2>1 DEF NoTx
    <2>4. /\ record \in Rec /\ record.state = "ToDispatch" /\ record.broadcast = 0
          /\ record.replaces = 0 /\ record.parents = batch
      <3>1. record = CpfpOf(batch, rate)
        BY DEF CpfpOf
      <3> HIDE DEF record
      <3> QED  BY <1>7, <3>1, BatchRecord
    <2>5. Step(t, "idle")
      BY <1>9
    <2> HIDE DEF record
    <2>6. MayBuildAs(s, record, content)
      BY <1>9, <2>1, <2>2, <2>3, <2>4 DEF MayBuildAs
    <2> DEFINE c == Before(s)
               e == Building(c, s, record.replaces, content.anchors, calm)
               A == BuildStores(s, tx')
    <2> HIDE DEF c, e, A, calm
    <2>7. /\ MaySave(A, c, e, s, record, content.anchors, calm)
          /\ <<db>> \in Runs(A, c) /\ c.due = {}
          /\ e.calm = calm /\ e.spared = abandoned \cup Deep /\ e.fresh = {s}
          /\ \A x \in Speedups : e.anchors[x] = tx'[x].anchors
      BY <2>2, <2>4, <2>6, BuildingFrame DEF c, e, A, calm
    <2>8. built.trace \in Runs(A, c)
      BY <1>6, <2>7 DEF MaySave
    <2>9. t \in Runs(A, e)
      <3>1. MaySave(A, c, e, s, record, record.parents, calm)
        BY <2>1, <2>4, <2>7
      <3> QED  BY <2>2, <2>4, <2>7, <2>8, <3>1, SaveFirstRun
    <2> HIDE DEF t
    <2>10. (\E to : Commit(t, to) /\ DOMAIN snap' = {} /\ abandoned' = abandoned) \/ CutShort(t)
      BY <1>3, <2>5 DEF Step
    <2> QED  BY <1>2, <2>2, <2>4, <2>6, <2>7, <2>9, <2>10, BuildEnds DEF A, calm
  <1> QED
    BY <1>2, <1>8, <1>9

-----------------------------------------------------------------------------
(* The theorems. *)

\* Every step that rebuilds only what was given up keeps the invariant.
LEMMA NextLinked ==
    ASSUME LinkInv, [Next]_vars, [RebuiltDead]_vars
    PROVE  LinkInv'
  <1>1. SpeedupInv' /\ NodeTypeOK /\ ChainOK
    BY NextOK DEF LinkInv, SpeedupInv
  <1>2. ASSUME UNCHANGED <<tx, db, tickVars, faults, history>>, UNCHANGED <<chainVars, indexVars>>
        PROVE  LinkInv'
    <2>1. UNCHANGED <<tx, db, snap, faults, abandoned>>
      BY <1>2 DEF tickVars, history
    <2>2. UNCHANGED <<height, minedAt, relayed>> /\ UNCHANGED indexVars
      BY <1>2 DEF chainVars
    <2>3. ChainOK' /\ Deep \subseteq Deep'
      BY <1>1, <2>1, <2>2, ChainKept DEF Deep
    <2> QED  BY <1>1, <2>1, <2>3, StoreLeftLinked
  <1>3. CASE UNCHANGED vars
    BY <1>2, <1>3 DEF vars
  <1>4. CASE RetryIntervalElapses
    BY <1>2, <1>4 DEF RetryIntervalElapses
  <1>5. CASE Network
    <2>1. UNCHANGED <<tx, db, snap, faults, abandoned>> /\ NetworkStep
      BY <1>5 DEF Network, tickVars, history
    <2>2. ChainOK' /\ Deep \subseteq Deep'
      BY <1>1, <2>1, ChainNetwork
    <2> QED  BY <1>1, <2>1, <2>2, StoreLeftLinked
  <1>6. CASE TickError
    BY <1>1, <1>6, TickErrorLinked
  <1>7. CASE ClientStep
    BY <1>1, <1>7, SpeedupAssumption, RegisterLinked, CancelLinked, AddFundingLinked DEF ClientStep
  <1>8. CASE TickStep /\ ~UNCHANGED vars
    <2>1. RebuiltDead
      BY <1>8
    <2>2. ASSUME NEW r \in Rates, Boost(r[1], r[2]) \/ CreateCpfpBatch(r[1], r[2])
          PROVE  LinkInv'
      <3>1. r[1] \in 1..MaxRate
        BY DEF Rates
      <3> QED  BY <1>1, <2>1, <2>2, <3>1, BoostLinked, CreateCpfpLinked
    <2> QED
      BY <1>1, <1>8, <2>2, TickStartLinked, ReviewLinked, DispatchParentsLinked,
         SendSpeedupLinked, HandleSpeedupLinked, SkipBoostLinked, NoBatchLinked DEF TickStep
  <1> QED
    BY <1>3, <1>4, <1>5, <1>6, <1>7, <1>8 DEF Next

\* Nothing is stored, and nothing is mined.
LEMMA InitLinked ==
    ASSUME Init
    PROVE  LinkInv
  <1>1. SpeedupInv
    BY InitOK
  <1>2. DOMAIN snap = {} /\ db = EmptyStore /\ NodeInit
    BY DEF Init, NoCopies
  <1>3. \A x \in Ids : db.rec[x].state = "Unregistered" /\ db.rec[x].replaces = 0
    BY <1>2, BlankRecords DEF EmptyStore
  <1>4. ToSet(db.list) = {}
    BY <1>2 DEF EmptyStore, ToSet
  <1>5. Linked(db, tx)
    BY <1>3, <1>4, Names DEF Linked
  <1>6. CopiesOK
    BY <1>2, <1>4 DEF CopiesOK, LiveNow
  <1>7. ChainOK
    BY <1>2 DEF ChainOK, NodeInit
  <1>8. CoverOK
    BY <1>3, Names DEF CoverOK, Covering, Active
  <1> QED
    BY <1>1, <1>5, <1>6, <1>7, <1>8 DEF LinkInv

\* The invariant holds as long as only what was given up is rebuilt.
LEMMA LinkInvHolds == Spec /\ RebuildsOnlyDead => []LinkInv
  <1>1. Init => LinkInv
    BY InitLinked
  <1>2. LinkInv /\ [Next]_vars /\ [RebuiltDead]_vars => LinkInv'
    BY NextLinked
  <1> QED
    BY <1>1, <1>2, PTL DEF Spec, RebuildsOnlyDead

\* has_live_replacement and replaced_by, through every review, retry, cascade,
\* eviction, reorganisation and fault: while a replacement is stored and alive,
\* what it replaces is not queued.  RebuildsOnlyDead is what insert_speedup, which
\* overwrites a record of the same txid, needs for that.
THEOREM ReplacedStaysOutHolds == Spec /\ RebuildsOnlyDead => []ReplacedStaysOut
  <1>1. ASSUME LinkInv  PROVE ReplacedStaysOut
    <2> SUFFICES ASSUME NEW s \in Listed(db), NEW r \in Listed(db),
                        db.rec[r].replaces = s, db.rec[r].state \in Active
                 PROVE  db.rec[s].state # "ToDispatch"
      BY DEF ReplacedStaysOut
    <2>1. db \in Store /\ Linked(db, tx)
      BY <1>1, LinkNames DEF LinkInv
    <2>2. s \in Speedups /\ r \in ToSet(db.list)
      BY <2>1, OrderedSeq
    <2>3. Lively(db.rec[r])
      BY DEF Lively, Active
    <2> QED  BY <2>1, <2>2, <2>3 DEF Linked
  <1> QED
    BY <1>1, LinkInvHolds, PTL

\* No parent is forgotten.  prepend_pending_speedup_parents, rebuild_survivors
\* and fail_and_cascade give every parent of a CPFP that dies back to
\* PendingSpeedupParents, the dispatch loop and insert_speedup take none out
\* without a CPFP, and only finality, which no reorganisation reaches, lets go of
\* one.  Up to the first fault: a crash between the removal from
\* PendingSpeedupParents and insert_speedup loses a batch.
THEOREM CoveredHolds ==
    Spec /\ RebuildsOnlyDead => [](faults = 0 /\ MaxReorg < MaxConfs => Covered)
  <1>1. ASSUME LinkInv, faults = 0, MaxReorg < MaxConfs  PROVE Covered
    <2> SUFFICES ASSUME NEW p \in Parents \ (abandoned \cup OnChain), db.rec[p].state \in Active
                 PROVE  \/ Contains(db.psp, p)
                        \/ \E s \in Speedups : /\ Contains(tx[s].anchors, p)
                                               /\ db.rec[s].state \in Active \cup {"Finalized"}
      BY DEF Covered
    <2>1. Covering(db, tx, abandoned \cup Deep) /\ db \in Store /\ TxShape
      BY <1>1, LinkNames DEF LinkInv, CoverOK, Undisturbed, SpeedupInv
    <2>2. p \notin Deep
      BY Names DEF Deep, OnChain
    <2>3. \/ p \in ToSet(db.psp)
          \/ \E s \in Speedups : p \in ToSet(tx[s].anchors) /\ db.rec[s].state \in Active
      BY <2>1, <2>2 DEF Covering
    <2>4. db.psp \in Seq(Parents) /\ \A s \in Speedups : tx[s].anchors \in Seq(Parents)
      BY <2>1, StoreFields DEF TxShape, Lists
    <2>5. \A q \in Seq(Parents) : p \in ToSet(q) => Contains(q, p)
      BY ToSetOfSeq DEF Contains
    <2> QED  BY <2>3, <2>4, <2>5
  <1>2. LinkInv => (faults = 0 /\ MaxReorg < MaxConfs => Covered)
    BY <1>1
  <1> QED
    BY <1>2, LinkInvHolds, PTL
=============================================================================
