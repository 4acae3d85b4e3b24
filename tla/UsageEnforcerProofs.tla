------------------------- MODULE UsageEnforcerProofs -------------------------
(***************************************************************************)
(* The usage enforcer for any set of nodes, any quotas, and any number of  *)
(* renewals, lost counters, removed servers, refreshes and crashes.        *)
(*                                                                         *)
(* What is claimed of the books is claimed while nothing has upset them,   *)
(* so the invariant speaks of those states only: the cause that a step     *)
(* adds to upset is what would break it.                                   *)
(***************************************************************************)
EXTENDS UsageEnforcer, FiniteSetTheorems, WellFoundedInduction, TLAPS

Eras == 0..renewals
PanelRec == [raw : Nat, plan : Nat, on : BOOLEAN]
ReadingRec == [raw : Nat, plan : Nat, used : Nat, on : BOOLEAN]
Alive(n) == row[n].state # "gone"

(***************************************************************************)
(* A counter u of the traffic fits the row of a node when the panel shows  *)
(* raw: what the row holds has been seen, and what it does not hold is     *)
(* what the panel has counted since, or all it shows if it lost its        *)
(* counter -- but for what the panel has taken back.                       *)
(***************************************************************************)
Booked(n) == row[n].off + row[n].raw

Fits(n, raw, u) ==
    /\ seen[n] - corrected[n] <= Booked(n)
    /\ Booked(n) <= row[n].eff /\ row[n].eff <= seen[n] /\ seen[n] <= u
    /\ n \in zeroed => u - corrected[n] <= Booked(n) + raw /\ Booked(n) + raw <= u
    /\ n \notin zeroed => /\ u - corrected[n] <= row[n].off + raw /\ row[n].off + raw <= u
                          /\ ~ResetDetected(row[n].raw, raw)

InStep(n) == Fits(n, panel[n].raw, used[n])

\* The period of the books.  A renewal that has not reached the primary may
\* still be taken back.
Era == IF r.pc = "primary" THEN r.old.end ELSE svc.end

\* A node that has missed the renewal has a row for the new period and a panel
\* that counts for an older one, and the enforcer knows, unless its server is
\* gone.
Missed(n) ==
    /\ row[n].eff = 0 /\ row[n].raw = 0 /\ row[n].off = 0 /\ seen[n] = 0
    /\ panel[n].plan # Era
    /\ n \in servers => row[n].reason = "renew_pending"

ShapeOK ==
    /\ row \in [Nodes -> Rows] /\ panel \in [Nodes -> PanelRec]
    /\ used \in [Nodes -> Nat] /\ seen \in [Nodes -> Nat] /\ corrected \in [Nodes -> Nat]
    /\ servers \subseteq Nodes
    /\ renewals \in Nat
    /\ \A n \in Nodes : panel[n].plan \in Eras
    /\ DOMAIN svc = {"usage", "limit", "end", "active"} /\ svc.end \in Eras

\* A cycle, a refresh and a renewal do not overlap.
AloneOK ==
    /\ ~(Cycling /\ Viewing) /\ ~(Cycling /\ Renewing) /\ ~(Viewing /\ Renewing)

\* Between two periods the rows are not claimed to fit.
RowsFit == r.pc # "nodes" => \A n \in Nodes : Alive(n) => InStep(n) \/ Missed(n)

\* A reading on its way to the books.
Sampled(n, g) ==
    /\ Fits(n, g.raw, g.used) /\ InStep(n)
    /\ g.raw <= panel[n].raw /\ used[n] - g.used = panel[n].raw - g.raw

CycleFields == {"pc", "snap", "map", "n", "got", "todo", "total", "live", "ended"}

\* A node that a cycle is still to ask is asked as what it is.
CycleOK ==
    Cycling =>
        /\ DOMAIN e = CycleFields
        /\ e.map \in [Nodes -> Rows] /\ e.todo \subseteq Nodes
        /\ e.snap.end \in Eras
        /\ e.pc \in CyclePCs \ {"idle"}
        /\ e.pc \in {"thaw", "again", "record", "note", "offNote"} => e.n \in Nodes
        /\ e.pc \notin {"off", "offNote"} =>
               \A n \in e.todo \cap servers :
                   Alive(n) => InStep(n) \/ e.map[n].reason = "renew_pending"
        /\ e.pc \in {"again", "record", "note"} /\ Alive(e.n) => InStep(e.n)
        /\ e.pc = "record" => e.got \in ReadingRec
        /\ e.pc = "record" /\ Alive(e.n) => Sampled(e.n, e.got)
        /\ e.pc = "offNote" => ~panel[e.n].on

\* A refresh that has seen panels of this period only has samples that fit.
ViewOK ==
    /\ DOMAIN view \subseteq Nodes
    /\ \A n \in DOMAIN view :
           /\ view[n] \in ReadingRec /\ view[n].plan \in Eras
           /\ Alive(n) /\ view[n].plan = svc.end => Sampled(n, view[n])

\* The counter of a node that was renewed shows the traffic of the period.
Counted(n) == seen[n] = 0 /\ used[n] - corrected[n] <= panel[n].raw /\ panel[n].raw <= used[n]

RenewalFields == {"pc", "period", "old", "all", "todo", "failed", "on"}

\* Every node that still has a server is renewed, or known not to be.
RenewalOK ==
    Renewing =>
        /\ DOMAIN r = RenewalFields
        /\ r.pc \in RenewPCs \ {"idle"}
        /\ r.period = renewals /\ r.period > 0
        /\ r.todo \subseteq Nodes /\ r.all \subseteq Nodes
        /\ r.pc = "primary" =>
               /\ DOMAIN r.old = {"usage", "limit", "end", "active"} /\ r.old.end \in Eras
               /\ r.old.end # r.period
               /\ \A n \in Nodes : panel[n].plan # r.period
               /\ \A n \in servers : Alive(n) => n \in r.todo \cup {Primary}
        /\ svc.end = r.period
        /\ r.pc = "nodes" =>
               /\ \A n \in Nodes : panel[n].plan = r.period => Counted(n)
               /\ \A n \in servers :
                      Alive(n) => n \in r.todo \cup r.failed \/ panel[n].plan = r.period

\* A node that is noted as disabled is disabled.
DisabledIsOff ==
    \A n \in LiveRows : row[n].reason = "verified" => ~panel[n].on /\ r.pc # "enable"

Sound == ShapeOK /\ AloneOK /\ RowsFit /\ CycleOK /\ ViewOK /\ RenewalOK /\ DisabledIsOff
InOrder == upset = {} => Sound

-----------------------------------------------------------------------------
(* The helpers the actions are made of.                                    *)

\* What the notes of a row do not touch: what it counts, and whether it is there.
Marked(n) ==
    /\ row' \in [Nodes -> Rows]
    /\ \A m \in Nodes : /\ row'[m].eff = row[m].eff /\ row'[m].off = row[m].off
                        /\ row'[m].raw = row[m].raw
                        /\ row'[m].state = "gone" <=> row[m].state = "gone"
    /\ \A m \in Nodes \ {n} : row'[m] = row[m]

LEMMA RowNoted ==
    ASSUME row \in [Nodes -> Rows], NEW n \in Nodes, NEW reason \in Reasons, NEW b \in BOOLEAN,
           row' = [row EXCEPT ![n].reason = reason, ![n].active = b]
    PROVE  Marked(n) /\ row'[n].reason = reason /\ row'[n].state = row[n].state
<1>1. PICK x \in Rows : x = row[n]
    OBVIOUS
<1>2. row'[n] = [x EXCEPT !.reason = reason, !.active = b]
    BY <1>1
<1>3. /\ [x EXCEPT !.reason = reason, !.active = b] \in Rows
      /\ [x EXCEPT !.reason = reason, !.active = b].reason = reason
      /\ [x EXCEPT !.reason = reason, !.active = b].state = x.state
      /\ [x EXCEPT !.reason = reason, !.active = b].eff = x.eff
      /\ [x EXCEPT !.reason = reason, !.active = b].off = x.off
      /\ [x EXCEPT !.reason = reason, !.active = b].raw = x.raw
    BY DEF Rows
<1> QED
    BY <1>1, <1>2, <1>3 DEF Marked

LEMMA RowFlagged ==
    ASSUME row \in [Nodes -> Rows], NEW n \in Nodes, NEW s \in {"live", "deleted"}, NEW b \in BOOLEAN,
           row' = [row EXCEPT ![n].state = IF @ = "gone" THEN @ ELSE s,
                              ![n].reason = "", ![n].active = b]
    PROVE  /\ Marked(n) /\ row'[n].reason = ""
           /\ row'[n].state = IF row[n].state = "gone" THEN "gone" ELSE s
<1>1. PICK x \in Rows : x = row[n]
    OBVIOUS
<1>2. PICK z \in RowStates : z = IF x.state = "gone" THEN x.state ELSE s
    BY DEF RowStates, Rows
<1>3. row'[n] = [x EXCEPT !.state = z, !.reason = "", !.active = b]
    BY <1>1, <1>2
<1>4. /\ [x EXCEPT !.state = z, !.reason = "", !.active = b] \in Rows
      /\ [x EXCEPT !.state = z, !.reason = "", !.active = b].reason = ""
      /\ [x EXCEPT !.state = z, !.reason = "", !.active = b].state = z
      /\ [x EXCEPT !.state = z, !.reason = "", !.active = b].eff = x.eff
      /\ [x EXCEPT !.state = z, !.reason = "", !.active = b].off = x.off
      /\ [x EXCEPT !.state = z, !.reason = "", !.active = b].raw = x.raw
    BY DEF Rows, Reasons
<1> QED
    BY <1>1, <1>2, <1>3, <1>4 DEF Marked

LEMMA MaxOfTwo ==
    ASSUME NEW a \in Int, NEW b \in Int
    PROVE  Max({a, b}) = IF a >= b THEN a ELSE b
BY DEF Max

\* A sample moves only what the row counts.
LEMMA RecordedTyped ==
    ASSUME NEW x \in Rows, NEW raw \in Nat
    PROVE  /\ Recorded(x, raw) \in Rows
           /\ Recorded(x, raw).state = x.state /\ Recorded(x, raw).reason = x.reason
           /\ Recorded(x, raw).eff >= x.eff
<1>0. x.raw \in Nat /\ x.off \in Nat /\ x.eff \in Nat
    BY DEF Rows
<1>1. PICK off \in Nat : off = x.off + (IF ResetDetected(x.raw, raw) THEN x.raw ELSE 0)
    BY <1>0
<1>2. PICK eff \in Nat : eff = Max({x.eff, off + raw}) /\ eff >= x.eff
    BY <1>0, <1>1, MaxOfTwo
<1>3. Recorded(x, raw) = [x EXCEPT !.raw = raw, !.off = off, !.eff = eff]
    BY <1>0, <1>1, <1>2 DEF Recorded
<1>4. /\ [x EXCEPT !.raw = raw, !.off = off, !.eff = eff] \in Rows
      /\ [x EXCEPT !.raw = raw, !.off = off, !.eff = eff].eff = eff
      /\ [x EXCEPT !.raw = raw, !.off = off, !.eff = eff].state = x.state
      /\ [x EXCEPT !.raw = raw, !.off = off, !.eff = eff].reason = x.reason
    BY DEF Rows
<1> QED
    BY <1>2, <1>3, <1>4

\* A sample that fits adds what the panel has counted since, unless a lost
\* counter has grown again unseen.
LEMMA RecordedFits ==
    ASSUME NEW x \in Rows, NEW raw \in Nat, NEW s \in Nat, NEW u \in Nat, NEW c \in Nat,
           NEW lost \in BOOLEAN,
           s - c <= x.off + x.raw, x.off + x.raw <= x.eff, x.eff <= s, s <= u,
           lost => u - c <= x.off + x.raw + raw /\ x.off + x.raw + raw <= u,
           ~lost => u - c <= x.off + raw /\ x.off + raw <= u /\ ~ResetDetected(x.raw, raw),
           ~(lost /\ x.raw > 0 /\ 10 * raw > 6 * x.raw)
    PROVE  /\ Recorded(x, raw) \in Rows /\ Recorded(x, raw).raw = raw
           /\ u - c <= Recorded(x, raw).off + raw
           /\ Recorded(x, raw).off + raw <= Recorded(x, raw).eff /\ Recorded(x, raw).eff <= u
           /\ Recorded(x, raw).state = x.state /\ Recorded(x, raw).reason = x.reason
<1>0. x.raw \in Nat /\ x.off \in Nat /\ x.eff \in Nat
    BY DEF Rows
<1>1. PICK off \in Nat : off = x.off + (IF ResetDetected(x.raw, raw) THEN x.raw ELSE 0)
    BY <1>0
<1>2. u - c <= off + raw /\ off + raw <= u
    BY <1>0, <1>1 DEF ResetDetected
<1>3. PICK eff \in Nat : eff = Max({x.eff, off + raw})
    BY <1>0, <1>1, MaxOfTwo
<1>4. off + raw <= eff /\ eff <= u
    BY <1>0, <1>1, <1>2, <1>3, MaxOfTwo
<1>5. Recorded(x, raw) = [x EXCEPT !.raw = raw, !.off = off, !.eff = eff]
    BY <1>0, <1>1, <1>3 DEF Recorded
<1>6. /\ [x EXCEPT !.raw = raw, !.off = off, !.eff = eff] \in Rows
      /\ [x EXCEPT !.raw = raw, !.off = off, !.eff = eff].eff = eff
      /\ [x EXCEPT !.raw = raw, !.off = off, !.eff = eff].raw = raw
      /\ [x EXCEPT !.raw = raw, !.off = off, !.eff = eff].off = off
      /\ [x EXCEPT !.raw = raw, !.off = off, !.eff = eff].state = x.state
      /\ [x EXCEPT !.raw = raw, !.off = off, !.eff = eff].reason = x.reason
    BY DEF Rows
<1> QED
    BY <1>2, <1>4, <1>5, <1>6

-----------------------------------------------------------------------------
(* The panels, the calendar and the servers.                               *)

\* A step that lets every row and every sample under way fit what it fitted.
KeepsFits ==
    /\ \A m \in Nodes : InStep(m) => InStep(m)'
    /\ \A m \in Nodes, g \in ReadingRec : BeingRead(m) /\ Sampled(m, g) => Sampled(m, g)'

LEMMA PanelsOnly ==
    ASSUME Sound, UNCHANGED <<svc, row, servers, e, view, r, renewals, seen>>, KeepsFits,
           panel' \in [Nodes -> PanelRec], used' \in [Nodes -> Nat], corrected' \in [Nodes -> Nat],
           \A m \in Nodes : panel'[m].plan = panel[m].plan /\ panel'[m].on = panel[m].on,
           \A m \in Nodes : Counted(m) => Counted(m)'
    PROVE  Sound'
<1>0. ShapeOK /\ AloneOK /\ RowsFit /\ CycleOK /\ ViewOK /\ RenewalOK /\ DisabledIsOff
    BY DEF Sound
<1>1. ShapeOK'
    BY <1>0 DEF ShapeOK, Eras
<1>2. AloneOK'
    BY <1>0 DEF AloneOK, Cycling, Viewing, Renewing
<1>3. RowsFit'
    BY <1>0 DEF RowsFit, Alive, KeepsFits, Missed, Era
<1>4. CycleOK'
    <2>1. e # NoCycle => \A n \in Nodes : InStep(n) => InStep(n)'
        BY DEF KeepsFits
    <2>2. ASSUME e.pc = "record", e # NoCycle, Alive(e.n)
          PROVE  Sampled(e.n, e.got)'
        <3>1. PICK n \in Nodes, g \in ReadingRec : n = e.n /\ g = e.got /\ Sampled(n, g)
            BY <1>0, <2>2 DEF CycleOK, Cycling
        <3>2. BeingRead(n)
            BY <2>2, <3>1 DEF BeingRead
        <3>3. Sampled(n, g)'
            BY <3>1, <3>2 DEF KeepsFits
        <3> QED
            BY <3>1, <3>3
    <2> QED
        BY <1>0, <2>1, <2>2 DEF CycleOK, Cycling, Alive, Eras
<1>5. ViewOK'
    <2>1. ASSUME NEW n \in DOMAIN view, Alive(n), view[n].plan = svc.end
          PROVE  Sampled(n, view[n])'
        <3>1. PICK g \in ReadingRec : g = view[n] /\ Sampled(n, g)
            BY <1>0, <2>1 DEF ViewOK
        <3>2. n \in Nodes /\ BeingRead(n)
            BY <1>0, <2>1 DEF BeingRead, ViewOK
        <3>3. Sampled(n, g)'
            BY <3>1, <3>2 DEF KeepsFits
        <3> QED
            BY <3>1, <3>3
    <2> QED
        BY <1>0, <2>1 DEF ViewOK, Alive, Eras
<1>6. RenewalOK'
    <2>1. Renewing /\ r.pc = "nodes" =>
              \A n \in Nodes : panel'[n].plan = r.period => Counted(n)'
        BY <1>0 DEF RenewalOK
    <2>2. \A n \in servers : n \in Nodes
        BY <1>0 DEF ShapeOK
    <2> QED
        BY <1>0, <2>1, <2>2 DEF RenewalOK, Renewing, Alive, Eras
<1>7. DisabledIsOff'
    BY <1>0 DEF DisabledIsOff, LiveRows
<1> QED
    BY <1>1, <1>2, <1>3, <1>4, <1>5, <1>6, <1>7 DEF Sound

LEMMA UseKeeps ==
    ASSUME Sound, NEW n \in Nodes, Use(n)
    PROVE  Sound'
<1>0. ShapeOK
    BY DEF Sound
<1>1. PICK x \in PanelRec : x = panel[n]
    BY <1>0 DEF ShapeOK
<1>b. Burst \in Nat
    BY UsageAssumption
<1>2. /\ [x EXCEPT !.raw = @ + Burst] \in PanelRec
      /\ [x EXCEPT !.raw = @ + Burst].raw = x.raw + Burst
      /\ [x EXCEPT !.raw = @ + Burst].plan = x.plan /\ [x EXCEPT !.raw = @ + Burst].on = x.on
    BY <1>b DEF PanelRec
<1>3. /\ panel' \in [Nodes -> PanelRec] /\ used' \in [Nodes -> Nat]
      /\ panel'[n].raw = panel[n].raw + Burst /\ used'[n] = used[n] + Burst
      /\ \A m \in Nodes : panel'[m].plan = panel[m].plan /\ panel'[m].on = panel[m].on
      /\ \A m \in Nodes \ {n} : panel'[m] = panel[m] /\ used'[m] = used[m]
    BY <1>0, <1>b, <1>1, <1>2 DEF Use, ShapeOK
<1>4. UNCHANGED <<svc, row, servers, e, view, r, renewals, seen, zeroed, corrected>>
    BY DEF Use, booksOnly
<1>5. \A m \in Nodes : panel[m].raw \in Nat /\ used[m] \in Nat /\ row[m].raw \in Nat
                       /\ row[m].off \in Nat /\ row[m].eff \in Nat
                       /\ seen[m] \in Nat /\ corrected[m] \in Nat
    BY <1>0 DEF ShapeOK, PanelRec, Rows
<1>6. \A m \in Nodes : InStep(m) => InStep(m)'
    <2>1. SUFFICES ASSUME NEW m \in Nodes, InStep(m) PROVE InStep(m)'
        OBVIOUS
    <2>2. CASE m = n
        BY <1>b, <1>3, <1>4, <1>5, <2>1, <2>2 DEF InStep, Fits, Booked, ResetDetected
    <2>3. CASE m # n
        BY <1>3, <1>4, <2>1, <2>3 DEF InStep, Fits, Booked
    <2> QED
        BY <2>2, <2>3
<1>7. \A m \in Nodes, g \in ReadingRec : Sampled(m, g) => Sampled(m, g)'
    <2>1. \A m \in Nodes, g \in ReadingRec : Fits(m, g.raw, g.used) => Fits(m, g.raw, g.used)'
        BY <1>4 DEF Fits, Booked
    <2>2. ASSUME NEW m \in Nodes, NEW g \in ReadingRec, g.raw <= panel[m].raw,
                 used[m] - g.used = panel[m].raw - g.raw
          PROVE  g.raw <= panel'[m].raw /\ used'[m] - g.used = panel'[m].raw - g.raw
        <3>1. PICK a \in Nat, b \in Nat : a = g.raw /\ b = g.used
            BY DEF ReadingRec
        <3>2. CASE m = n
            <4>1. PICK p \in Nat, u \in Nat : p = panel[m].raw /\ u = used[m]
                BY <1>5
            <4>2. panel'[m].raw = p + Burst /\ used'[m] = u + Burst
                BY <1>3, <3>2, <4>1
            <4>3. a <= p /\ u - b = p - a
                BY <2>2, <3>1, <4>1
            <4>4. a <= p + Burst /\ (u + Burst) - b = (p + Burst) - a
                BY <1>b, <4>3
            <4> QED
                BY <3>1, <4>2, <4>4
        <3>3. CASE m # n
            <4>1. panel'[m] = panel[m] /\ used'[m] = used[m]
                BY <1>3, <3>3
            <4> QED
                BY <2>2, <4>1
        <3> QED
            BY <3>2, <3>3
    <2> QED
        BY <1>6, <2>1, <2>2 DEF Sampled
<1>8. \A m \in Nodes : Counted(m) => Counted(m)'
    BY <1>b, <1>3, <1>4, <1>5 DEF Counted
<1> QED
    BY <1>0, <1>3, <1>4, <1>6, <1>7, <1>8, PanelsOnly DEF KeepsFits, ShapeOK

LEMMA CounterResetKeeps ==
    ASSUME Sound, NEW n \in Nodes, CounterReset(n), upset = {}, upset' = {}
    PROVE  Sound'
<1>0. ShapeOK
    BY DEF Sound
<1>1. PICK x \in PanelRec : x = panel[n]
    BY <1>0 DEF ShapeOK
<1>2. /\ [x EXCEPT !.raw = 0] \in PanelRec /\ [x EXCEPT !.raw = 0].raw = 0
      /\ [x EXCEPT !.raw = 0].plan = x.plan /\ [x EXCEPT !.raw = 0].on = x.on
    BY DEF PanelRec
<1>3. /\ panel' \in [Nodes -> PanelRec] /\ used' \in [Nodes -> Nat]
      /\ panel'[n].raw = 0 /\ used'[n] = seen[n]
      /\ \A m \in Nodes : panel'[m].plan = panel[m].plan /\ panel'[m].on = panel[m].on
      /\ \A m \in Nodes \ {n} : panel'[m] = panel[m] /\ used'[m] = used[m]
      /\ zeroed' = zeroed \cup {n}
    BY <1>0, <1>1, <1>2 DEF CounterReset, Zero, ShapeOK
<1>4. UNCHANGED <<svc, row, servers, e, view, r, renewals, seen, corrected>>
    BY DEF CounterReset, booksOnly
<1>5. \A m \in Nodes : panel[m].raw \in Nat /\ used[m] \in Nat /\ row[m].raw \in Nat
                       /\ row[m].off \in Nat /\ row[m].eff \in Nat
                       /\ seen[m] \in Nat /\ corrected[m] \in Nat
    BY <1>0 DEF ShapeOK, PanelRec, Rows
<1>6. \A m \in Nodes : InStep(m) => InStep(m)'
    <2>1. SUFFICES ASSUME NEW m \in Nodes, InStep(m) PROVE InStep(m)'
        OBVIOUS
    <2>2. CASE m = n
        BY <1>3, <1>4, <1>5, <2>1, <2>2 DEF InStep, Fits, Booked
    <2>3. CASE m # n
        BY <1>3, <1>4, <2>1, <2>3 DEF InStep, Fits, Booked
    <2> QED
        BY <2>2, <2>3
<1>7. ~BeingRead(n)
    BY DEF CounterReset
<1>8. \A m \in Nodes \ {n}, g \in ReadingRec : Sampled(m, g) => Sampled(m, g)'
    <2>1. \A m \in Nodes \ {n}, g \in ReadingRec :
              Fits(m, g.raw, g.used) => Fits(m, g.raw, g.used)'
        BY <1>3, <1>4 DEF Fits, Booked
    <2> QED
        BY <1>3, <1>6, <2>1 DEF Sampled
<1>9. \A m \in Nodes : Counted(m) => Counted(m)'
    BY <1>3, <1>4, <1>5 DEF Counted
<1> QED
    BY <1>0, <1>3, <1>4, <1>6, <1>7, <1>8, <1>9, PanelsOnly DEF KeepsFits, ShapeOK

LEMMA CounterCorrectedKeeps ==
    ASSUME Sound, NEW n \in Nodes, NEW back \in Corrections, CounterCorrected(n, back),
           upset = {}, upset' = {}
    PROVE  Sound'
<1>0. ShapeOK
    BY DEF Sound
<1>1. PICK x \in PanelRec : x = panel[n]
    BY <1>0 DEF ShapeOK
<1>2. PICK raw \in Nat : raw = x.raw - back /\ back \in Nat
    BY <1>1, UsageAssumption DEF CounterCorrected, PanelRec
<1>3. /\ [x EXCEPT !.raw = raw] \in PanelRec /\ [x EXCEPT !.raw = raw].raw = raw
      /\ [x EXCEPT !.raw = raw].plan = x.plan /\ [x EXCEPT !.raw = raw].on = x.on
    BY DEF PanelRec
<1>4. panel' = [panel EXCEPT ![n].raw = raw]
    BY <1>1, <1>2 DEF CounterCorrected
<1>5. /\ panel' \in [Nodes -> PanelRec] /\ corrected' \in [Nodes -> Nat]
      /\ panel'[n].raw = panel[n].raw - back /\ corrected'[n] = corrected[n] + back
      /\ \A m \in Nodes : panel'[m].plan = panel[m].plan /\ panel'[m].on = panel[m].on
      /\ \A m \in Nodes \ {n} : panel'[m] = panel[m] /\ corrected'[m] = corrected[m]
    BY <1>0, <1>1, <1>2, <1>3, <1>4 DEF CounterCorrected, ShapeOK
<1>6. UNCHANGED <<svc, row, servers, e, view, r, renewals, used, seen, zeroed>>
    BY DEF CounterCorrected, booksOnly
<1>7. \A m \in Nodes : panel[m].raw \in Nat /\ used[m] \in Nat /\ row[m].raw \in Nat
                       /\ row[m].off \in Nat /\ row[m].eff \in Nat
                       /\ seen[m] \in Nat /\ corrected[m] \in Nat
    BY <1>0 DEF ShapeOK, PanelRec, Rows
<1>8. ~BeingRead(n) /\ ~ResetDetected(row[n].raw, panel'[n].raw)
    BY <1>5 DEF CounterCorrected
<1>9. \A m \in Nodes : InStep(m) => InStep(m)'
    <2>1. SUFFICES ASSUME NEW m \in Nodes, InStep(m) PROVE InStep(m)'
        OBVIOUS
    <2>2. CASE m = n
        BY <1>2, <1>5, <1>6, <1>7, <1>8, <2>1, <2>2 DEF InStep, Fits, Booked
    <2>3. CASE m # n
        BY <1>5, <1>6, <2>1, <2>3 DEF InStep, Fits, Booked
    <2> QED
        BY <2>2, <2>3
<1>10. \A m \in Nodes \ {n}, g \in ReadingRec : Sampled(m, g) => Sampled(m, g)'
    <2>1. \A m \in Nodes \ {n}, g \in ReadingRec :
              Fits(m, g.raw, g.used) => Fits(m, g.raw, g.used)'
        BY <1>5, <1>6 DEF Fits, Booked
    <2> QED
        BY <1>5, <1>6, <1>9, <2>1 DEF Sampled
<1>11. \A m \in Nodes : Counted(m) => Counted(m)'
    BY <1>2, <1>5, <1>6, <1>7 DEF Counted
<1> QED
    BY <1>0, <1>5, <1>6, <1>8, <1>9, <1>10, <1>11, PanelsOnly DEF KeepsFits, ShapeOK

LEMMA EndPassesKeeps ==
    ASSUME Sound, NEW p \in Periods, EndPasses(p)
    PROVE  Sound'
<1>0. ShapeOK
    BY DEF Sound
<1>1. UNCHANGED <<svc, row, panel, servers, e, view, r, renewals, used, seen, zeroed, corrected>>
    BY DEF EndPasses, booksOnly, counters, history
<1>2. KeepsFits
    BY <1>1 DEF KeepsFits, Sampled, InStep, Fits, Booked
<1>3. \A m \in Nodes : Counted(m) => Counted(m)'
    BY <1>1 DEF Counted
<1> QED
    BY <1>0, <1>1, <1>2, <1>3, PanelsOnly DEF ShapeOK

\* A note in a row leaves what the row counts fitting what it fitted.
LEMMA MarkedFits ==
    ASSUME NEW n \in Nodes, Marked(n), UNCHANGED <<panel, used, seen, zeroed, corrected>>
    PROVE  /\ \A m \in Nodes : (Alive(m)' <=> Alive(m)) /\ (InStep(m)' <=> InStep(m))
           /\ \A m \in Nodes, g \in ReadingRec : Sampled(m, g)' <=> Sampled(m, g)
BY DEF Marked, Alive, InStep, Sampled, Fits, Booked

LEMMA RemoveServerKeeps ==
    ASSUME Sound, NEW n \in Nodes, RemoveServer(n)
    PROVE  Sound'
<1>0. ShapeOK /\ AloneOK /\ RowsFit /\ CycleOK /\ ViewOK /\ RenewalOK /\ DisabledIsOff
    BY DEF Sound
<1>1. /\ UNCHANGED <<svc, panel, e, view, r, renewals, used, seen, zeroed, corrected>>
      /\ servers' = servers \ {n}
    BY DEF RemoveServer, counters, history
<1>2. Marked(n) /\ row'[n].state # "live"
    <2>1. row \in [Nodes -> Rows]
        BY <1>0 DEF ShapeOK
    <2>2. row' = [row EXCEPT ![n].state = IF @ = "gone" THEN @ ELSE "deleted",
                             ![n].reason = "", ![n].active = FALSE]
        BY DEF RemoveServer
    <2>3. PICK s \in {"live", "deleted"}, b \in BOOLEAN : s = "deleted" /\ b = FALSE
        OBVIOUS
    <2>4. row' = [row EXCEPT ![n].state = IF @ = "gone" THEN @ ELSE s,
                             ![n].reason = "", ![n].active = b]
        BY <2>2, <2>3, Zenon
    <2>5. Marked(n) /\ row'[n].state = IF row[n].state = "gone" THEN "gone" ELSE s
        BY <2>1, <2>4, RowFlagged
    <2> QED
        BY <2>3, <2>5
<1>3. \A m \in Nodes : (Alive(m)' <=> Alive(m)) /\ (InStep(m)' <=> InStep(m))
    BY <1>1, <1>2, MarkedFits
<1>4. ShapeOK'
    BY <1>0, <1>1, <1>2 DEF ShapeOK, Eras, Marked
<1>5. AloneOK'
    BY <1>0, <1>1 DEF AloneOK, Cycling, Viewing, Renewing
<1>6. RowsFit'
    <2>1. \A m \in Nodes : Missed(m) => Missed(m)'
        BY <1>1, <1>2 DEF Missed, Era, Marked
    <2> QED
        BY <1>0, <1>1, <1>3, <2>1 DEF RowsFit
<1>7. CycleOK'
    <2>1. ASSUME e.pc = "record", e # NoCycle, Alive(e.n)
          PROVE  Sampled(e.n, e.got)'
        <3>1. PICK m \in Nodes, g \in ReadingRec : m = e.n /\ g = e.got /\ Sampled(m, g)
            BY <1>0, <2>1 DEF CycleOK, Cycling
        <3>2. Sampled(m, g)'
            BY <1>1, <1>2, <3>1, MarkedFits
        <3> QED
            BY <1>1, <3>1, <3>2
    <2>2. ASSUME e # NoCycle, e.pc \in {"again", "record", "note"}, Alive(e.n)'
          PROVE  Alive(e.n) /\ InStep(e.n)'
        <3>1. PICK m \in Nodes : m = e.n
            BY <1>0, <2>2 DEF CycleOK, Cycling
        <3>2. Alive(m)'
            BY <1>1, <2>2, <3>1
        <3>3. Alive(m) /\ InStep(m)
            BY <1>0, <1>3, <2>2, <3>1, <3>2 DEF CycleOK, Cycling
        <3>4. InStep(m)'
            BY <1>3, <3>3
        <3> QED
            BY <1>1, <3>1, <3>3, <3>4
    <2> QED
        BY <1>0, <1>1, <1>3, <2>1, <2>2 DEF CycleOK, Cycling, Eras
<1>8. ViewOK'
    <2>1. ASSUME NEW m \in DOMAIN view, Alive(m)', view[m].plan = svc.end
          PROVE  Sampled(m, view[m])'
        <3>1. m \in Nodes /\ Alive(m)
            BY <1>0, <1>3, <2>1 DEF ViewOK
        <3>2. PICK g \in ReadingRec : g = view[m] /\ Sampled(m, g)
            BY <1>0, <2>1, <3>1 DEF ViewOK
        <3>3. Sampled(m, g)'
            BY <1>1, <1>2, <3>1, <3>2, MarkedFits
        <3> QED
            BY <1>1, <3>2, <3>3
    <2> QED
        BY <1>0, <1>1, <2>1 DEF ViewOK, Eras
<1>9. RenewalOK'
    <2>1. servers' \subseteq servers /\ servers \subseteq Nodes
        BY <1>0, <1>1 DEF ShapeOK
    <2>2. \A m \in Nodes : Counted(m) => Counted(m)'
        BY <1>1 DEF Counted
    <2> QED
        BY <1>0, <1>1, <1>3, <2>1, <2>2 DEF RenewalOK, Renewing, Eras
<1>10. DisabledIsOff'
    BY <1>0, <1>1, <1>2 DEF DisabledIsOff, LiveRows, Marked
<1> QED
    BY <1>4, <1>5, <1>6, <1>7, <1>8, <1>9, <1>10 DEF Sound

-----------------------------------------------------------------------------
(* The cycle: nothing else is under way.                                   *)

LEMMA CycleRest ==
    ASSUME Sound, ~Viewing, ~Renewing, UNCHANGED <<view, r>>,
           ShapeOK', RowsFit', CycleOK', DisabledIsOff'
    PROVE  Sound'
<1>1. AloneOK'
    BY DEF AloneOK, Cycling, Viewing, Renewing
<1>2. ViewOK'
    BY DEF ViewOK, Viewing, NoView
<1>3. RenewalOK'
    BY DEF RenewalOK, Renewing
<1> QED
    BY <1>1, <1>2, <1>3 DEF Sound

\* The rows and the panels as they are.
LEMMA BooksRest ==
    ASSUME Sound, ~Renewing, UNCHANGED <<row, panel, used, seen, zeroed, corrected, servers, renewals, r>>,
           DOMAIN svc' = DOMAIN svc, svc'.end = svc.end
    PROVE  ShapeOK' /\ RowsFit' /\ DisabledIsOff'
<1>1. ShapeOK'
    BY DEF Sound, ShapeOK, Eras
<1>2. RowsFit'
    BY DEF Sound, RowsFit, Alive, InStep, Fits, Booked, Missed, Era
<1>3. DisabledIsOff'
    BY DEF Sound, DisabledIsOff, LiveRows
<1> QED
    BY <1>1, <1>2, <1>3

\* The node that the cycle has done with is no longer to be asked.
LEMMA AddsField ==
    ASSUME Sound, Cycling, NEW n, NEW x, Adds(n, x)
    PROVE  /\ DOMAIN e' = CycleFields /\ e'.pc = "visit" /\ e'.todo = e.todo \ {n}
           /\ e'.map = e.map /\ e'.snap = e.snap
BY DEF Sound, CycleOK, Adds, CycleFields

LEMMA AtWork ==
    ASSUME e.pc # "idle"
    PROVE  Cycling
BY DEF Cycling, NoCycle

LEMMA CycleStartKeeps ==
    ASSUME Sound, CycleStart, upset = {}, upset' = {}
    PROVE  Sound'
<1>0. ShapeOK /\ RowsFit
    BY DEF Sound
<1>1. ~Viewing /\ ~Renewing /\ e = NoCycle
    BY DEF CycleStart, Meet, Cycling
<1>2. UNCHANGED <<svc, row, panel, used, seen, zeroed, corrected, servers, view, r, renewals>>
    BY DEF CycleStart, cycleOnly, history, counters
<1>3. ShapeOK' /\ RowsFit' /\ DisabledIsOff'
    BY <1>1, <1>2, BooksRest
<1>4. /\ DOMAIN e' = CycleFields /\ e'.pc = "read" /\ e'.map = row /\ e'.snap = svc
      /\ e'.todo = {}
    BY DEF CycleStart, CycleFields
<1>5. CycleOK'
    BY <1>0, <1>2, <1>4 DEF CycleOK, ShapeOK, CyclePCs, Eras
<1> QED
    BY <1>1, <1>2, <1>3, <1>5, CycleRest

LEMMA CycleReadKeeps ==
    ASSUME Sound, CycleRead
    PROVE  Sound'
<1>0. ShapeOK /\ RowsFit /\ CycleOK /\ AloneOK /\ Cycling
    <2>1. e.pc = "read"
        BY DEF CycleRead
    <2> QED
        BY <2>1, AtWork DEF Sound
<1>1. ~Viewing /\ ~Renewing
    BY <1>0 DEF AloneOK
<1>2. UNCHANGED <<svc, row, panel, used, seen, zeroed, corrected, servers, view, r, renewals>>
    BY DEF CycleRead, cycleOnly, history, counters
<1>3. ShapeOK' /\ RowsFit' /\ DisabledIsOff'
    BY <1>1, <1>2, BooksRest
<1>4. /\ DOMAIN e' = CycleFields /\ e'.pc = "visit" /\ e'.map = row /\ e'.snap = e.snap
      /\ e'.todo \subseteq Nodes
    BY <1>0 DEF CycleRead, CycleOK, CycleFields
<1>5. \A n \in Nodes \cap servers : Alive(n) => InStep(n) \/ row[n].reason = "renew_pending"
    BY <1>0, <1>1 DEF RowsFit, Missed, NoRenewal, Renewing
<1>6. CycleOK'
    BY <1>0, <1>2, <1>4, <1>5 DEF CycleOK, ShapeOK, CyclePCs, Alive, InStep, Fits, Booked, Eras
<1> QED
    BY <1>1, <1>2, <1>3, <1>6, CycleRest

\* What the cycle knows of the nodes still to be asked, when it only moves on.
LEMMA VisitRest ==
    ASSUME Sound, Cycling, UNCHANGED <<servers, renewals>>, e.pc \notin {"off", "offNote"},
           \A m \in Nodes : (Alive(m)' => Alive(m)) /\ (InStep(m) => InStep(m)'),
           DOMAIN e' = CycleFields, e'.map = e.map, e'.snap = e.snap,
           e'.pc = "visit", e'.todo \subseteq e.todo
    PROVE  CycleOK'
<1>0. CycleOK /\ ShapeOK
    BY DEF Sound
<1>1. \A n \in e'.todo \cap servers :
          Alive(n)' => InStep(n)' \/ e'.map[n].reason = "renew_pending"
    BY <1>0 DEF CycleOK, Cycling
<1> QED
    BY <1>0, <1>1 DEF CycleOK, CyclePCs, Eras

LEMMA VisitDeletedKeeps ==
    ASSUME Sound, NEW n \in Nodes, VisitDeleted(n)
    PROVE  Sound'
<1>0. AloneOK /\ Cycling /\ e.pc = "visit"
    BY DEF Sound, VisitDeleted, Cycling, NoCycle
<1>1. UNCHANGED <<svc, row, panel, used, seen, zeroed, corrected, servers, view, r, renewals>>
    BY DEF VisitDeleted, cycleOnly, history, counters
<1>2. ~Viewing /\ ~Renewing
    BY <1>0 DEF AloneOK
<1>3. ShapeOK' /\ RowsFit' /\ DisabledIsOff'
    BY <1>1, <1>2, BooksRest
<1>4. /\ DOMAIN e' = CycleFields /\ e'.pc = "visit" /\ e'.todo = e.todo \ {n}
      /\ e'.map = e.map /\ e'.snap = e.snap
    BY <1>0, AddsField DEF VisitDeleted
<1>5. \A m \in Nodes : (Alive(m)' <=> Alive(m)) /\ (InStep(m)' <=> InStep(m))
    BY <1>1 DEF Alive, InStep, Fits, Booked
<1>6. CycleOK'
    BY <1>0, <1>1, <1>4, <1>5, VisitRest
<1> QED
    BY <1>1, <1>2, <1>3, <1>6, CycleRest

\* A note in the row of a node: a renewal it has missed is still known, and it is
\* not noted as disabled while it is not.
LEMMA NotedRest ==
    ASSUME Sound, ~Renewing, NEW n \in Nodes, Marked(n),
           UNCHANGED <<svc, panel, used, seen, zeroed, corrected, servers, renewals, r>>,
           n \in servers /\ Alive(n) => InStep(n) \/ row'[n].reason = "renew_pending",
           row'[n].state = "live" /\ row'[n].reason = "verified" => ~panel[n].on
    PROVE  ShapeOK' /\ RowsFit' /\ DisabledIsOff'
<1>0. ShapeOK /\ RowsFit /\ DisabledIsOff
    BY DEF Sound
<1>1. ShapeOK'
    BY <1>0 DEF ShapeOK, Eras, Marked
<1>2. RowsFit'
    <2>1. SUFFICES ASSUME NEW m \in Nodes, Alive(m)', ~InStep(m)', r.pc # "nodes" PROVE Missed(m)'
        BY DEF RowsFit
    <2>2. Alive(m) /\ ~InStep(m)
        BY <2>1, MarkedFits
    <2>3. Missed(m)
        BY <1>0, <2>1, <2>2 DEF RowsFit
    <2>4. m \in servers => row'[m].reason = "renew_pending"
        BY <2>2, <2>3 DEF Marked, Missed
    <2> QED
        BY <2>3, <2>4 DEF Missed, Era, Marked
<1>3. DisabledIsOff'
    <2>1. r.pc # "enable"
        BY DEF Renewing, NoRenewal
    <2> QED
        BY <1>0, <2>1 DEF DisabledIsOff, LiveRows, Marked
<1> QED
    BY <1>1, <1>2, <1>3

LEMMA VisitRemovedKeeps ==
    ASSUME Sound, NEW n \in Nodes, VisitRemoved(n)
    PROVE  Sound'
<1>0. AloneOK /\ Cycling /\ e.pc = "visit" /\ n \notin servers
    <2>1. e.pc = "visit" /\ n \notin servers
        BY DEF VisitRemoved
    <2> QED
        BY <2>1, AtWork DEF Sound
<1>1. UNCHANGED <<svc, panel, used, seen, zeroed, corrected, servers, view, r, renewals>>
    BY DEF VisitRemoved, cycleOnly, history, counters
<1>2. ~Viewing /\ ~Renewing
    BY <1>0 DEF AloneOK
<1>3. Marked(n) /\ row'[n].reason = ""
    <2>1. row \in [Nodes -> Rows]
        BY DEF Sound, ShapeOK
    <2>2. row' = [row EXCEPT ![n].state = IF @ = "gone" THEN @ ELSE "deleted",
                             ![n].reason = "", ![n].active = FALSE]
        BY DEF VisitRemoved
    <2>3. PICK s \in {"live", "deleted"}, b \in BOOLEAN : s = "deleted" /\ b = FALSE
        OBVIOUS
    <2>4. row' = [row EXCEPT ![n].state = IF @ = "gone" THEN @ ELSE s,
                             ![n].reason = "", ![n].active = b]
        BY <2>2, <2>3, Zenon
    <2> QED
        BY <2>1, <2>4, RowFlagged
<1>4. ShapeOK' /\ RowsFit' /\ DisabledIsOff'
    BY <1>0, <1>1, <1>2, <1>3, NotedRest
<1>5. /\ DOMAIN e' = CycleFields /\ e'.pc = "visit" /\ e'.todo = e.todo \ {n}
      /\ e'.map = e.map /\ e'.snap = e.snap
    BY <1>0, AddsField DEF VisitRemoved
<1>6. \A m \in Nodes : (Alive(m)' <=> Alive(m)) /\ (InStep(m)' <=> InStep(m))
    BY <1>1, <1>3, MarkedFits
<1>7. CycleOK'
    BY <1>0, <1>1, <1>5, <1>6, VisitRest
<1> QED
    BY <1>1, <1>2, <1>4, <1>7, CycleRest

LEMMA VisitFailsKeeps ==
    ASSUME Sound, NEW n \in Nodes, VisitFails(n)
    PROVE  Sound'
<1>0. AloneOK /\ CycleOK /\ Cycling /\ e.pc = "visit" /\ n \in e.todo /\ n \in servers
    <2>1. e.pc = "visit" /\ n \in e.todo /\ n \in servers
        BY DEF VisitFails, Asks
    <2> QED
        BY <2>1, AtWork DEF Sound
<1>1. UNCHANGED <<svc, panel, used, seen, zeroed, corrected, servers, view, r, renewals>>
    BY DEF VisitFails, cycleOnly, history, counters
<1>2. ~Viewing /\ ~Renewing
    BY <1>0 DEF AloneOK
<1>3. PICK reason \in {"", "renew_pending"}, b \in BOOLEAN :
        /\ row' = [row EXCEPT ![n].reason = reason, ![n].active = b]
        /\ reason = "renew_pending" <=> e.map[n].reason = "renew_pending"
    <2>1. e.map[n] \in Rows
        BY <1>0 DEF CycleOK
    <2>2. e.map[n].active \in BOOLEAN
        BY <2>1 DEF Rows
    <2>3. CASE e.map[n].reason = "renew_pending"
        BY <2>3 DEF VisitFails
    <2>4. CASE e.map[n].reason # "renew_pending"
        BY <2>2, <2>4 DEF VisitFails
    <2> QED
        BY <2>3, <2>4
<1>4. Marked(n) /\ row'[n].reason = reason
    BY <1>3, RowNoted DEF Sound, ShapeOK, Reasons
<1>5. ShapeOK' /\ RowsFit' /\ DisabledIsOff'
    BY <1>0, <1>1, <1>2, <1>3, <1>4, NotedRest DEF CycleOK
<1>6. /\ DOMAIN e' = CycleFields /\ e'.pc = "visit" /\ e'.todo = e.todo \ {n}
      /\ e'.map = e.map /\ e'.snap = e.snap
    BY <1>0, AddsField DEF VisitFails
<1>7. \A m \in Nodes : (Alive(m)' <=> Alive(m)) /\ (InStep(m)' <=> InStep(m))
    BY <1>1, <1>4, MarkedFits
<1>8. CycleOK'
    BY <1>0, <1>1, <1>6, <1>7, VisitRest
<1> QED
    BY <1>1, <1>2, <1>5, <1>8, CycleRest

\* A panel that answers is one that is in step, or is first brought up to date.
LEMMA VisitAnswersKeeps ==
    ASSUME Sound, NEW n \in Nodes, VisitAnswers(n)
    PROVE  Sound'
<1>0. AloneOK /\ CycleOK /\ ShapeOK /\ Cycling /\ e.pc = "visit" /\ n \in e.todo /\ n \in servers
    BY DEF Sound, VisitAnswers, Asks, Cycling, NoCycle
<1>1. UNCHANGED <<svc, row, panel, used, seen, zeroed, corrected, servers, view, r, renewals>>
    BY DEF VisitAnswers, cycleOnly, history, counters
<1>2. ~Viewing /\ ~Renewing
    BY <1>0 DEF AloneOK
<1>3. ShapeOK' /\ RowsFit' /\ DisabledIsOff'
    BY <1>1, <1>2, BooksRest
<1>4. PICK pc \in {"thaw", "record"}, g \in {Reading(n)} :
        /\ e' = [e EXCEPT !.n = n, !.got = g, !.pc = pc]
        /\ pc = "record" => e.map[n].reason # "renew_pending"
    BY DEF VisitAnswers
<1>5. /\ DOMAIN e' = CycleFields /\ e'.pc = pc /\ e'.todo = e.todo /\ e'.n = n
      /\ e'.map = e.map /\ e'.snap = e.snap /\ e'.got = g
    BY <1>0, <1>4 DEF CycleOK, CycleFields
<1>6. \A m \in Nodes : (Alive(m)' <=> Alive(m)) /\ (InStep(m)' <=> InStep(m))
    BY <1>1 DEF Alive, InStep, Fits, Booked
<1>7. g \in ReadingRec /\ g.raw = panel[n].raw /\ g.used = used[n]
    BY <1>0, <1>4 DEF Reading, ReadingRec, ShapeOK, PanelRec
<1>8. pc = "record" /\ Alive(n) => InStep(n) /\ Sampled(n, g)
    <2>1. pc = "record" /\ Alive(n) => InStep(n)
        BY <1>0, <1>4 DEF CycleOK
    <2> QED
        BY <1>0, <1>7, <2>1 DEF Sampled, InStep, Fits, Booked, ShapeOK, PanelRec
<1>9. Sampled(n, g) => Sampled(n, g)'
    BY <1>1 DEF Sampled, InStep, Fits, Booked
<1>10. Sampled(e.n, e.got)' <=> Sampled(n, g)'
    BY <1>5 DEF Sampled, InStep, Fits, Booked
<1>11. CycleOK'
    BY <1>0, <1>1, <1>5, <1>6, <1>7, <1>8, <1>9, <1>10 DEF CycleOK, CyclePCs, Eras, Alive
<1> QED
    BY <1>1, <1>2, <1>3, <1>11, CycleRest

\* A user that is brought up to date: its counter begins again, and what samples
\* have shown is all that there is.
LEMMA ThawedRest ==
    ASSUME Sound, ~Renewing, NEW n \in Nodes, Marked(n), NEW plan \in Eras, Renewed(n, plan), Zero(n),
           UNCHANGED <<svc, seen, corrected, servers, renewals, r>>,
           row'[n].state = "live" /\ row'[n].reason = "verified" => ~panel[n].on
    PROVE  /\ ShapeOK' /\ RowsFit' /\ DisabledIsOff'
           /\ \A m \in Nodes : (Alive(m)' <=> Alive(m)) /\ (InStep(m) => InStep(m)')
           /\ Alive(n) => InStep(n)'
<1>0. ShapeOK /\ RowsFit /\ DisabledIsOff /\ r.pc # "enable" /\ r.pc # "nodes" /\ r.pc # "primary"
    BY DEF Sound, Renewing, NoRenewal
<1>1. PICK x \in PanelRec : x = panel[n]
    BY <1>0 DEF ShapeOK
<1>2. /\ [x EXCEPT !.raw = 0, !.plan = plan] \in PanelRec
      /\ [x EXCEPT !.raw = 0, !.plan = plan].raw = 0
      /\ [x EXCEPT !.raw = 0, !.plan = plan].plan = plan
      /\ [x EXCEPT !.raw = 0, !.plan = plan].on = x.on
    <2>1. plan \in Nat
        BY <1>0 DEF ShapeOK, Eras
    <2> QED
        BY <2>1 DEF PanelRec
<1>3. /\ panel' \in [Nodes -> PanelRec] /\ used' \in [Nodes -> Nat]
      /\ panel'[n].raw = 0 /\ panel'[n].plan = plan /\ panel'[n].on = panel[n].on
      /\ used'[n] = seen[n] /\ zeroed' = zeroed \cup {n}
      /\ \A m \in Nodes \ {n} : panel'[m] = panel[m] /\ used'[m] = used[m]
    BY <1>0, <1>1, <1>2 DEF Renewed, Zero, ShapeOK
<1>4. \A m \in Nodes : row[m].raw \in Nat /\ row[m].off \in Nat /\ row[m].eff \in Nat
                       /\ seen[m] \in Nat /\ corrected[m] \in Nat
    BY <1>0 DEF ShapeOK, Rows
<1>5. \A m \in Nodes : Alive(m)' <=> Alive(m)
    BY DEF Marked, Alive
<1>6. Alive(n) => InStep(n)'
    <2>1. Alive(n) => /\ seen[n] - corrected[n] <= row[n].off + row[n].raw
                      /\ row[n].off + row[n].raw <= row[n].eff /\ row[n].eff <= seen[n]
        BY <1>0, <1>4 DEF RowsFit, InStep, Fits, Booked, Missed
    <2>2. /\ row'[n].eff = row[n].eff /\ row'[n].off = row[n].off /\ row'[n].raw = row[n].raw
          /\ seen' = seen
        BY DEF Marked
    <2> QED
        BY <1>3, <1>4, <2>1, <2>2 DEF InStep, Fits, Booked
<1>7. \A m \in Nodes : InStep(m) => InStep(m)'
    <2>1. SUFFICES ASSUME NEW m \in Nodes, InStep(m) PROVE InStep(m)'
        OBVIOUS
    <2>2. /\ row'[m].eff = row[m].eff /\ row'[m].off = row[m].off /\ row'[m].raw = row[m].raw
          /\ seen' = seen
        BY DEF Marked
    <2>3. CASE m = n
        BY <1>3, <1>4, <2>1, <2>2, <2>3 DEF InStep, Fits, Booked
    <2>4. CASE m # n
        BY <1>3, <2>1, <2>2, <2>4 DEF InStep, Fits, Booked
    <2> QED
        BY <2>3, <2>4
<1>8. ShapeOK'
    BY <1>0, <1>3 DEF ShapeOK, Eras, Marked
<1>9. RowsFit'
    <2>1. SUFFICES ASSUME NEW m \in Nodes, Alive(m)', ~InStep(m)' PROVE Missed(m)'
        BY DEF RowsFit
    <2>2. Alive(m) /\ ~InStep(m) /\ m # n
        BY <1>5, <1>6, <1>7, <2>1
    <2>3. Missed(m)
        BY <1>0, <2>2 DEF RowsFit
    <2>4. row'[m] = row[m] /\ panel'[m] = panel[m]
        BY <1>3, <2>2 DEF Marked
    <2> QED
        BY <2>3, <2>4 DEF Missed, Era
<1>10. DisabledIsOff'
    <2>1. SUFFICES ASSUME NEW m \in Nodes, row'[m].state = "live", row'[m].reason = "verified"
                   PROVE  ~panel'[m].on
        BY <1>0 DEF DisabledIsOff, LiveRows
    <2>2. CASE m = n
        BY <1>3, <2>1, <2>2
    <2>3. CASE m # n
        BY <1>0, <1>3, <2>1, <2>3 DEF Marked, DisabledIsOff, LiveRows
    <2> QED
        BY <2>2, <2>3
<1> QED
    BY <1>5, <1>6, <1>7, <1>8, <1>9, <1>10

LEMMA ThawKeeps ==
    ASSUME Sound, Thaw
    PROVE  Sound'
<1>0. AloneOK /\ CycleOK /\ ShapeOK /\ DisabledIsOff /\ Cycling /\ e.pc = "thaw"
    <2>1. e.pc = "thaw"
        BY DEF Thaw
    <2> QED
        BY <2>1, AtWork DEF Sound
<1>1. UNCHANGED <<svc, row, seen, corrected, servers, view, r, renewals>>
    BY DEF Thaw, cycleOnly, counters
<1>2. ~Viewing /\ ~Renewing
    BY <1>0 DEF AloneOK
<1>3. PICK n \in Nodes, plan \in Eras : n = e.n /\ plan = e.snap.end
    BY <1>0 DEF CycleOK
<1>4. Renewed(n, plan) /\ Zero(n) /\ Marked(n)
    BY <1>0, <1>1, <1>3 DEF Thaw, Marked, ShapeOK
<1>5. row'[n].state = "live" /\ row'[n].reason = "verified" => ~panel[n].on
    BY <1>0, <1>1 DEF DisabledIsOff, LiveRows
<1>6. /\ ShapeOK' /\ RowsFit' /\ DisabledIsOff'
      /\ \A m \in Nodes : (Alive(m)' <=> Alive(m)) /\ (InStep(m) => InStep(m)')
      /\ Alive(n) => InStep(n)'
    BY <1>1, <1>2, <1>4, <1>5, ThawedRest
<1>7. /\ DOMAIN e' = CycleFields /\ e'.pc = "again" /\ e'.todo = e.todo /\ e'.n = n
      /\ e'.map = e.map /\ e'.snap = e.snap
    BY <1>0, <1>3 DEF Thaw, Goto, CycleOK, CycleFields
<1>8. CycleOK'
    <2>1. (Alive(e.n) => InStep(e.n))'
        <3>1. Alive(n)' => InStep(n)'
            BY <1>6
        <3> QED
            BY <1>7, <3>1 DEF Alive, InStep, Fits, Booked
    <2> QED
        BY <1>0, <1>1, <1>6, <1>7, <2>1 DEF CycleOK, CyclePCs, Eras
<1> QED
    BY <1>1, <1>2, <1>6, <1>8, CycleRest

LEMMA ThawFailsKeeps ==
    ASSUME Sound, ThawFails
    PROVE  Sound'
<1>0. AloneOK /\ CycleOK /\ ShapeOK /\ Cycling /\ e.pc \in {"thaw", "again"}
    <2>1. e.pc \in {"thaw", "again"}
        BY DEF ThawFails
    <2> QED
        BY <2>1, AtWork DEF Sound
<1>1. UNCHANGED <<svc, seen, corrected, servers, view, r, renewals>>
    BY DEF ThawFails, cycleOnly, counters
<1>2. ~Viewing /\ ~Renewing
    BY <1>0 DEF AloneOK
<1>3. PICK n \in Nodes, plan \in Eras : n = e.n /\ plan = e.snap.end
    BY <1>0 DEF CycleOK
<1>4. Marked(n) /\ row'[n].reason = "renew_pending"
    <2>1. row' = [row EXCEPT ![n].reason = "renew_pending", ![n].active = FALSE]
        BY <1>3 DEF ThawFails
    <2>2. PICK s \in Reasons, b \in BOOLEAN : s = "renew_pending" /\ b = FALSE
        BY DEF Reasons
    <2> QED
        BY <1>0, <2>1, <2>2, RowNoted DEF ShapeOK
<1>5. /\ ShapeOK' /\ RowsFit' /\ DisabledIsOff'
      /\ \A m \in Nodes : (Alive(m)' <=> Alive(m)) /\ (InStep(m) => InStep(m)')
    <2>1. CASE UNCHANGED <<panel, used, zeroed>>
        BY <1>1, <1>2, <1>4, <2>1, NotedRest, MarkedFits
    <2>2. CASE Renewed(n, plan) /\ Zero(n)
        BY <1>1, <1>2, <1>4, <2>2, ThawedRest
    <2> QED
        BY <1>3, <2>1, <2>2 DEF ThawFails
<1>6. /\ DOMAIN e' = CycleFields /\ e'.pc = "visit" /\ e'.todo = e.todo \ {n}
      /\ e'.map = e.map /\ e'.snap = e.snap
    BY <1>0, <1>3, AddsField DEF ThawFails
<1>7. CycleOK'
    BY <1>0, <1>1, <1>5, <1>6, VisitRest
<1> QED
    BY <1>1, <1>2, <1>5, <1>7, CycleRest

LEMMA ThawAnswersKeeps ==
    ASSUME Sound, ThawAnswers
    PROVE  Sound'
<1>0. AloneOK /\ CycleOK /\ ShapeOK /\ Cycling /\ e.pc = "again"
    <2>1. e.pc = "again"
        BY DEF ThawAnswers
    <2> QED
        BY <2>1, AtWork DEF Sound
<1>1. UNCHANGED <<svc, row, panel, used, seen, zeroed, corrected, servers, view, r, renewals>>
    BY DEF ThawAnswers, cycleOnly, history, counters
<1>2. ~Viewing /\ ~Renewing
    BY <1>0 DEF AloneOK
<1>3. ShapeOK' /\ RowsFit' /\ DisabledIsOff'
    BY <1>1, <1>2, BooksRest
<1>4. PICK n \in Nodes : n = e.n
    BY <1>0 DEF CycleOK
<1>5. PICK g \in {Reading(n)} : e' = [e EXCEPT !.pc = "record", !.got = g]
    BY <1>4 DEF ThawAnswers
<1>6. /\ DOMAIN e' = CycleFields /\ e'.pc = "record" /\ e'.todo = e.todo /\ e'.n = n
      /\ e'.map = e.map /\ e'.snap = e.snap /\ e'.got = g
    BY <1>0, <1>4, <1>5 DEF CycleOK, CycleFields
<1>7. \A m \in Nodes : (Alive(m)' <=> Alive(m)) /\ (InStep(m)' <=> InStep(m))
    BY <1>1 DEF Alive, InStep, Fits, Booked
<1>8. g \in ReadingRec /\ g.raw = panel[n].raw /\ g.used = used[n]
    BY <1>0, <1>5 DEF Reading, ReadingRec, ShapeOK, PanelRec
<1>9. Alive(n) => InStep(n) /\ Sampled(n, g)
    <2>1. Alive(n) => InStep(n)
        BY <1>0, <1>4 DEF CycleOK
    <2> QED
        BY <1>0, <1>8, <2>1 DEF Sampled, InStep, Fits, Booked, ShapeOK, PanelRec
<1>10. Sampled(n, g) => Sampled(n, g)'
    BY <1>1 DEF Sampled, InStep, Fits, Booked
<1>11. Sampled(e.n, e.got)' <=> Sampled(n, g)'
    BY <1>6 DEF Sampled, InStep, Fits, Booked
<1>12. CycleOK'
    BY <1>0, <1>1, <1>6, <1>7, <1>8, <1>9, <1>10, <1>11 DEF CycleOK, CyclePCs, Eras, Alive
<1> QED
    BY <1>1, <1>2, <1>3, <1>12, CycleRest

\* A sample that fits is written so that the row fits the panel.
LEMMA SampledInStep ==
    ASSUME ShapeOK, NEW n \in Nodes, NEW g \in ReadingRec, Sampled(n, g),
           ~(n \in zeroed /\ row[n].raw > 0 /\ 10 * g.raw > 6 * row[n].raw),
           UNCHANGED <<panel, used, corrected>>, seen'[n] = g.used, n \notin zeroed',
           row'[n].raw = Recorded(row[n], g.raw).raw, row'[n].off = Recorded(row[n], g.raw).off,
           row'[n].eff = Recorded(row[n], g.raw).eff
    PROVE  /\ Recorded(row[n], g.raw) \in Rows /\ seen'[n] \in Nat
           /\ Recorded(row[n], g.raw).state = row[n].state
           /\ Recorded(row[n], g.raw).reason = row[n].reason
           /\ InStep(n)'
<1>1. PICK x \in Rows, raw \in Nat, u \in Nat, s \in Nat, c \in Nat, lost \in BOOLEAN :
          /\ x = row[n] /\ raw = g.raw /\ u = g.used /\ s = seen[n] /\ c = corrected[n]
          /\ lost <=> n \in zeroed
    BY DEF ShapeOK, ReadingRec
<1>2. PICK w \in Nat, v \in Nat : w = panel[n].raw /\ v = used[n]
    BY DEF ShapeOK, PanelRec
<1>3. /\ s - c <= x.off + x.raw /\ x.off + x.raw <= x.eff /\ x.eff <= s /\ s <= u
      /\ lost => u - c <= x.off + x.raw + raw /\ x.off + x.raw + raw <= u
      /\ ~lost => u - c <= x.off + raw /\ x.off + raw <= u /\ ~ResetDetected(x.raw, raw)
      /\ raw <= w /\ v - u = w - raw
    BY <1>1, <1>2 DEF Sampled, Fits, Booked
<1>4. ~(lost /\ x.raw > 0 /\ 10 * raw > 6 * x.raw)
    BY <1>1
<1>5. /\ Recorded(x, raw) \in Rows /\ Recorded(x, raw).raw = raw
      /\ u - c <= Recorded(x, raw).off + raw
      /\ Recorded(x, raw).off + raw <= Recorded(x, raw).eff /\ Recorded(x, raw).eff <= u
      /\ Recorded(x, raw).state = x.state /\ Recorded(x, raw).reason = x.reason
    BY <1>3, <1>4, RecordedFits
<1>6. PICK off \in Nat, eff \in Nat : off = Recorded(x, raw).off /\ eff = Recorded(x, raw).eff
    BY <1>5 DEF Rows
<1>7. /\ u - c <= off + raw /\ off + raw <= eff /\ eff <= u /\ u <= v
      /\ v - c <= off + w /\ off + w <= v /\ ~ResetDetected(raw, w)
    BY <1>3, <1>5, <1>6 DEF ResetDetected
<1>8. row'[n].raw = raw /\ row'[n].off = off /\ row'[n].eff = eff /\ seen'[n] = u
    BY <1>1, <1>5, <1>6
<1>9. InStep(n)'
    BY <1>1, <1>2, <1>7, <1>8 DEF InStep, Fits, Booked
<1> QED
    BY <1>1, <1>5, <1>8, <1>9

\* Samples that fit are written so that the rows fit the panels.
LEMMA SampleFits ==
    ASSUME ShapeOK, NEW g, DOMAIN g \subseteq Nodes,
           \A n \in DOMAIN g : g[n] \in ReadingRec /\ (Alive(n) => Sampled(n, g[n])),
           ~Unnoticed(g), Sample(g, row), UNCHANGED <<panel, used, corrected>>
    PROVE  /\ row' \in [Nodes -> Rows] /\ seen' \in [Nodes -> Nat]
           /\ \A m \in Nodes : /\ row'[m].state = row[m].state /\ row'[m].reason = row[m].reason
                               /\ InStep(m) => InStep(m)'
                               /\ m \notin DOMAIN g => row'[m] = row[m] /\ seen'[m] = seen[m]
<1> DEFINE known == {n \in DOMAIN g : row[n].state # "gone"}
<1>1. ASSUME NEW n \in known
      PROVE  /\ row'[n] \in Rows /\ seen'[n] \in Nat
             /\ row'[n].state = row[n].state /\ row'[n].reason = row[n].reason
             /\ InStep(n)'
    <2>1. n \in Nodes /\ Sampled(n, g[n]) /\ g[n] \in ReadingRec
        BY DEF Alive
    <2>2. ~(n \in zeroed /\ row[n].raw > 0 /\ 10 * g[n].raw > 6 * row[n].raw)
        BY DEF Unnoticed
    <2>3. row'[n] = Recorded(row[n], g[n].raw) /\ seen'[n] = g[n].used /\ n \notin zeroed'
        BY <2>1 DEF Sample
    <2> QED
        BY <2>1, <2>2, <2>3, SampledInStep
<1>2. ASSUME NEW n \in Nodes \ known
      PROVE  row'[n] = row[n] /\ seen'[n] = seen[n] /\ (n \in zeroed' <=> n \in zeroed)
    BY DEF Sample
<1>3. row' \in [Nodes -> Rows] /\ seen' \in [Nodes -> Nat]
    <2>1. /\ row' = [n \in Nodes |-> row'[n]] /\ seen' = [n \in Nodes |-> seen'[n]]
        BY DEF Sample
    <2>2. \A n \in Nodes : row'[n] \in Rows /\ seen'[n] \in Nat
        BY <1>1, <1>2 DEF ShapeOK
    <2> QED
        BY <2>1, <2>2
<1>4. \A m \in Nodes \ known : InStep(m) => InStep(m)'
    BY <1>2 DEF InStep, Fits, Booked
<1> QED
    BY <1>1, <1>2, <1>3, <1>4

\* What samples that fit leave of the books, when no renewal is under way.
LEMMA SampleRest ==
    ASSUME Sound, ~Renewing, NEW g, DOMAIN g \subseteq Nodes,
           \A n \in DOMAIN g : g[n] \in ReadingRec /\ (Alive(n) => Sampled(n, g[n])),
           ~Unnoticed(g), Sample(g, row),
           UNCHANGED <<panel, used, corrected, servers, renewals, r>>,
           DOMAIN svc' = DOMAIN svc, svc'.end = svc.end
    PROVE  /\ ShapeOK' /\ RowsFit' /\ DisabledIsOff'
           /\ \A m \in Nodes : (Alive(m)' <=> Alive(m)) /\ (InStep(m) => InStep(m)')
<1>0. ShapeOK /\ RowsFit /\ DisabledIsOff
    BY DEF Sound
<1>1. /\ row' \in [Nodes -> Rows] /\ seen' \in [Nodes -> Nat]
      /\ \A m \in Nodes : /\ row'[m].state = row[m].state /\ row'[m].reason = row[m].reason
                          /\ InStep(m) => InStep(m)'
                          /\ m \notin DOMAIN g => row'[m] = row[m] /\ seen'[m] = seen[m]
    BY <1>0, SampleFits
<1>2. ShapeOK'
    BY <1>0, <1>1 DEF ShapeOK, Eras
<1>3. RowsFit'
    <2>1. SUFFICES ASSUME NEW m \in Nodes, Alive(m)', ~InStep(m)', r.pc # "nodes" PROVE Missed(m)'
        BY DEF RowsFit
    <2>2. Alive(m) /\ ~InStep(m)
        BY <1>1, <2>1 DEF Alive
    <2>3. Missed(m)
        BY <1>0, <2>1, <2>2 DEF RowsFit
    <2>4. m \notin DOMAIN g
        BY <2>2 DEF Sampled
    <2> QED
        BY <1>1, <2>3, <2>4 DEF Missed, Era
<1>4. DisabledIsOff'
    BY <1>0, <1>1 DEF DisabledIsOff, LiveRows
<1> QED
    BY <1>1, <1>2, <1>3, <1>4 DEF Alive

LEMMA RecordKeeps ==
    ASSUME Sound, Record, upset = {}, upset' = {}
    PROVE  Sound'
<1>0. AloneOK /\ CycleOK /\ ShapeOK /\ Cycling /\ e.pc = "record"
    <2>1. e.pc = "record"
        BY DEF Record
    <2> QED
        BY <2>1, AtWork DEF Sound
<1>1. UNCHANGED <<svc, panel, used, corrected, servers, view, r, renewals>>
    BY DEF Record, cycleOnly, counters
<1>2. ~Viewing /\ ~Renewing
    BY <1>0 DEF AloneOK
<1>3. PICK n \in Nodes, got \in ReadingRec : n = e.n /\ got = e.got
    BY <1>0 DEF CycleOK
<1>4. PICK g : g = [m \in {n} |-> got]
    OBVIOUS
<1>5. Sample(g, row) /\ ~Unnoticed(g)
    BY <1>3, <1>4 DEF Record
<1>6. \A m \in DOMAIN g : m = n /\ g[m] \in ReadingRec /\ (Alive(m) => Sampled(m, g[m]))
    BY <1>0, <1>3, <1>4 DEF CycleOK
<1>7. /\ ShapeOK' /\ RowsFit' /\ DisabledIsOff'
      /\ \A m \in Nodes : (Alive(m)' <=> Alive(m)) /\ (InStep(m) => InStep(m)')
    BY <1>1, <1>2, <1>5, <1>6, SampleRest
<1>8. /\ DOMAIN e' = CycleFields /\ e'.pc = "note" /\ e'.todo = e.todo /\ e'.n = n
      /\ e'.map = e.map /\ e'.snap = e.snap
    BY <1>0, <1>3 DEF Record, CycleOK, CycleFields
<1>9. (Alive(e.n) => InStep(e.n))'
    <2>1. Alive(n)' => InStep(n)'
        BY <1>0, <1>3, <1>7 DEF CycleOK
    <2> QED
        BY <1>8, <2>1 DEF Alive, InStep, Fits, Booked
<1>10. CycleOK'
    BY <1>0, <1>1, <1>7, <1>8, <1>9 DEF CycleOK, CyclePCs, Eras
<1> QED
    BY <1>1, <1>2, <1>7, <1>10, CycleRest

LEMMA NoteKeeps ==
    ASSUME Sound, Note
    PROVE  Sound'
<1>0. AloneOK /\ CycleOK /\ ShapeOK /\ Cycling /\ e.pc = "note"
    <2>1. e.pc = "note"
        BY DEF Note
    <2> QED
        BY <2>1, AtWork DEF Sound
<1>1. UNCHANGED <<svc, panel, used, seen, zeroed, corrected, servers, view, r, renewals>>
    BY DEF Note, cycleOnly, history, counters
<1>2. ~Viewing /\ ~Renewing
    BY <1>0 DEF AloneOK
<1>3. PICK n \in Nodes : n = e.n
    BY <1>0 DEF CycleOK
<1>4. Marked(n) /\ row'[n].reason = ""
    <2>1. row' = [row EXCEPT ![n].state = IF @ = "gone" THEN @ ELSE "live",
                             ![n].reason = "", ![n].active = TRUE]
        BY <1>3 DEF Note
    <2>2. PICK s \in {"live", "deleted"}, b \in BOOLEAN : s = "live" /\ b = TRUE
        OBVIOUS
    <2>3. row' = [row EXCEPT ![n].state = IF @ = "gone" THEN @ ELSE s,
                             ![n].reason = "", ![n].active = b]
        BY <2>1, <2>2, Zenon
    <2> QED
        BY <1>0, <2>3, RowFlagged DEF ShapeOK
<1>5. ShapeOK' /\ RowsFit' /\ DisabledIsOff'
    BY <1>0, <1>1, <1>2, <1>3, <1>4, NotedRest DEF CycleOK
<1>6. /\ DOMAIN e' = CycleFields /\ e'.pc = "visit" /\ e'.todo \subseteq e.todo
      /\ e'.map = e.map /\ e'.snap = e.snap
    BY <1>0 DEF Note, CycleOK, CycleFields
<1>7. \A m \in Nodes : (Alive(m)' <=> Alive(m)) /\ (InStep(m)' <=> InStep(m))
    BY <1>1, <1>4, MarkedFits
<1>8. CycleOK'
    BY <1>0, <1>1, <1>6, <1>7, VisitRest
<1> QED
    BY <1>1, <1>2, <1>5, <1>8, CycleRest

LEMMA ClosesKeep ==
    ASSUME Sound, CloseUnconfirmed \/ CloseInOrder \/ OffEnd
    PROVE  Sound'
<1>0. AloneOK /\ ShapeOK /\ Cycling
    <2>1. e.pc \in {"visit", "off"}
        BY DEF CloseUnconfirmed, CloseInOrder, OffEnd
    <2> QED
        BY <2>1, AtWork DEF Sound
<1>1. UNCHANGED <<row, panel, used, seen, zeroed, corrected, servers, view, r, renewals>> /\ e' = NoCycle
    BY DEF CloseUnconfirmed, CloseInOrder, OffEnd, cycleOnly, history, counters
<1>2. ~Viewing /\ ~Renewing
    BY <1>0 DEF AloneOK
<1>3. DOMAIN svc' = DOMAIN svc /\ svc'.end = svc.end
    BY <1>0 DEF CloseUnconfirmed, CloseInOrder, OffEnd, Books, ShapeOK
<1>4. ShapeOK' /\ RowsFit' /\ DisabledIsOff'
    BY <1>1, <1>2, <1>3, BooksRest
<1>5. CycleOK'
    BY <1>1 DEF CycleOK, Cycling
<1> QED
    BY <1>1, <1>2, <1>4, <1>5, CycleRest

LEMMA CloseUsedUpKeeps ==
    ASSUME Sound, CloseUsedUp
    PROVE  Sound'
<1>0. AloneOK /\ CycleOK /\ Cycling
    <2>1. e.pc = "visit"
        BY DEF CloseUsedUp
    <2> QED
        BY <2>1, AtWork DEF Sound
<1>1. UNCHANGED <<svc, row, panel, used, seen, zeroed, corrected, servers, view, r, renewals>>
    BY DEF CloseUsedUp, cycleOnly, history, counters
<1>2. ~Viewing /\ ~Renewing
    BY <1>0 DEF AloneOK
<1>3. ShapeOK' /\ RowsFit' /\ DisabledIsOff'
    BY <1>1, <1>2, BooksRest
<1>4. /\ DOMAIN e' = CycleFields /\ e'.pc = "off" /\ e'.todo \subseteq Nodes
      /\ e'.map = e.map /\ e'.snap = e.snap
    BY <1>0 DEF CloseUsedUp, CycleOK, CycleFields
<1>5. CycleOK'
    BY <1>0, <1>1, <1>4 DEF CycleOK, CyclePCs, Eras
<1> QED
    BY <1>1, <1>2, <1>3, <1>5, CycleRest

\* The user of a node is disabled, or the note of it is written, or both.
LEMMA OffRest ==
    ASSUME Sound, ~Renewing, NEW n \in Nodes, Marked(n),
           panel' = panel \/ panel' = [panel EXCEPT ![n].on = FALSE],
           UNCHANGED <<svc, used, seen, zeroed, corrected, servers, renewals, r>>,
           n \in servers /\ Alive(n) => InStep(n) \/ row'[n].reason = "renew_pending",
           row'[n].state = "live" /\ row'[n].reason = "verified" => ~panel'[n].on
    PROVE  ShapeOK' /\ RowsFit' /\ DisabledIsOff'
<1>0. ShapeOK /\ RowsFit /\ DisabledIsOff /\ r.pc # "enable" /\ r.pc # "nodes" /\ r.pc # "primary"
    BY DEF Sound, Renewing, NoRenewal
<1>1. PICK x \in PanelRec : x = panel[n]
    BY <1>0 DEF ShapeOK
<1>2. /\ [x EXCEPT !.on = FALSE] \in PanelRec
      /\ [x EXCEPT !.on = FALSE].raw = x.raw /\ [x EXCEPT !.on = FALSE].plan = x.plan
    BY DEF PanelRec
<1>3. /\ panel' \in [Nodes -> PanelRec]
      /\ \A m \in Nodes : panel'[m].raw = panel[m].raw /\ panel'[m].plan = panel[m].plan
      /\ \A m \in Nodes \ {n} : panel'[m] = panel[m]
    BY <1>0, <1>1, <1>2 DEF ShapeOK
<1>4. ShapeOK'
    BY <1>0, <1>3 DEF ShapeOK, Eras, Marked
<1>5. \A m \in Nodes : (Alive(m)' <=> Alive(m)) /\ (InStep(m)' <=> InStep(m))
    BY <1>3 DEF Marked, Alive, InStep, Fits, Booked
<1>6. RowsFit'
    <2>1. SUFFICES ASSUME NEW m \in Nodes, Alive(m)', ~InStep(m)' PROVE Missed(m)'
        BY DEF RowsFit
    <2>2. Alive(m) /\ ~InStep(m)
        BY <1>5, <2>1
    <2>3. Missed(m)
        BY <1>0, <2>2 DEF RowsFit
    <2>4. m \in servers => row'[m].reason = "renew_pending"
        BY <2>2, <2>3 DEF Marked, Missed
    <2> QED
        BY <1>3, <2>3, <2>4 DEF Missed, Era, Marked
<1>7. DisabledIsOff'
    BY <1>0, <1>3 DEF DisabledIsOff, LiveRows, Marked
<1> QED
    BY <1>4, <1>6, <1>7

LEMMA OffKeeps ==
    ASSUME Sound, NEW n \in Nodes, Off(n)
    PROVE  Sound'
<1>0. AloneOK /\ CycleOK /\ ShapeOK /\ RowsFit /\ DisabledIsOff /\ Cycling
    <2>1. e.pc = "off"
        BY DEF Off
    <2> QED
        BY <2>1, AtWork DEF Sound
<1>1. /\ UNCHANGED <<svc, row, used, seen, zeroed, corrected, servers, view, r, renewals>>
      /\ panel' = [panel EXCEPT ![n].on = FALSE]
    BY DEF Off, cycleOnly, history, counters
<1>2. ~Viewing /\ ~Renewing
    BY <1>0 DEF AloneOK
<1>3. Marked(n) /\ ~panel'[n].on
    BY <1>0, <1>1 DEF Marked, ShapeOK, PanelRec
<1>4. Alive(n) /\ n \in servers => InStep(n) \/ row'[n].reason = "renew_pending"
    BY <1>0, <1>1, <1>2 DEF RowsFit, Missed, Renewing, NoRenewal
<1>5. ShapeOK' /\ RowsFit' /\ DisabledIsOff'
    BY <1>1, <1>2, <1>3, <1>4, OffRest
<1>6. /\ DOMAIN e' = CycleFields /\ e'.pc = "offNote" /\ e'.todo = e.todo /\ e'.n = n
      /\ e'.map = e.map /\ e'.snap = e.snap
    BY <1>0 DEF Off, CycleOK, CycleFields
<1>7. CycleOK'
    BY <1>0, <1>1, <1>3, <1>6 DEF CycleOK, CyclePCs, Eras
<1> QED
    BY <1>1, <1>2, <1>5, <1>7, CycleRest

\* A node that is noted as disabled had no renewal pending, and so was in step.
LEMMA ForgetsNothing ==
    ASSUME Sound, ~Renewing, NEW n \in Nodes, Forgets(n), upset' = {}
    PROVE  n \in servers /\ Alive(n) => InStep(n)
<1>1. row[n].reason # "renew_pending"
    BY DEF Forgets
<1>2. RowsFit /\ r.pc # "nodes"
    BY DEF Sound, Renewing, NoRenewal
<1> QED
    BY <1>1, <1>2 DEF RowsFit, Missed

LEMMA OffFailsKeeps ==
    ASSUME Sound, NEW n \in Nodes, OffFails(n), upset' = {}
    PROVE  Sound'
<1>0. AloneOK /\ CycleOK /\ ShapeOK /\ Cycling /\ e.pc = "off"
    <2>1. e.pc = "off"
        BY DEF OffFails
    <2> QED
        BY <2>1, AtWork DEF Sound
<1>1. /\ UNCHANGED <<svc, used, seen, zeroed, corrected, servers, view, r, renewals>>
      /\ panel' = panel \/ panel' = [panel EXCEPT ![n].on = FALSE]
    BY DEF OffFails, cycleOnly, history, counters
<1>2. ~Viewing /\ ~Renewing
    BY <1>0 DEF AloneOK
<1>3. Marked(n) /\ row'[n].reason = "disable_pending"
    <2>1. row' = [row EXCEPT ![n].reason = "disable_pending", ![n].active = TRUE]
        BY DEF OffFails
    <2>2. PICK s \in Reasons, b \in BOOLEAN : s = "disable_pending" /\ b = TRUE
        BY DEF Reasons
    <2> QED
        BY <1>0, <2>1, <2>2, RowNoted DEF ShapeOK
<1>4. n \in servers /\ Alive(n) => InStep(n)
    BY <1>2, ForgetsNothing DEF OffFails
<1>5. ShapeOK' /\ RowsFit' /\ DisabledIsOff'
    BY <1>1, <1>2, <1>3, <1>4, OffRest
<1>6. /\ DOMAIN e' = CycleFields /\ e'.pc = "off" /\ e'.todo \subseteq e.todo
      /\ e'.map = e.map /\ e'.snap = e.snap
    BY <1>0 DEF OffFails, CycleOK, CycleFields
<1>7. CycleOK'
    BY <1>0, <1>1, <1>6 DEF CycleOK, CyclePCs, Eras
<1> QED
    BY <1>1, <1>2, <1>5, <1>7, CycleRest

LEMMA OffNoteKeeps ==
    ASSUME Sound, OffNote, upset' = {}
    PROVE  Sound'
<1>0. AloneOK /\ CycleOK /\ ShapeOK /\ Cycling /\ e.pc = "offNote"
    <2>1. e.pc = "offNote"
        BY DEF OffNote
    <2> QED
        BY <2>1, AtWork DEF Sound
<1>1. UNCHANGED <<svc, panel, used, seen, zeroed, corrected, servers, view, r, renewals>>
    BY DEF OffNote, cycleOnly, history, counters
<1>2. ~Viewing /\ ~Renewing
    BY <1>0 DEF AloneOK
<1>3. PICK n \in Nodes : n = e.n /\ ~panel[n].on
    BY <1>0 DEF CycleOK
<1>4. Marked(n) /\ row'[n].reason = "verified"
    <2>1. row' = [row EXCEPT ![n].reason = "verified", ![n].active = FALSE]
        BY <1>3 DEF OffNote
    <2>2. PICK s \in Reasons, b \in BOOLEAN : s = "verified" /\ b = FALSE
        BY DEF Reasons
    <2> QED
        BY <1>0, <2>1, <2>2, RowNoted DEF ShapeOK
<1>5. n \in servers /\ Alive(n) => InStep(n)
    BY <1>2, <1>3, ForgetsNothing DEF OffNote
<1>6. ShapeOK' /\ RowsFit' /\ DisabledIsOff'
    BY <1>1, <1>2, <1>3, <1>4, <1>5, OffRest
<1>7. /\ DOMAIN e' = CycleFields /\ e'.pc = "off" /\ e'.todo \subseteq e.todo
      /\ e'.map = e.map /\ e'.snap = e.snap
    BY <1>0 DEF OffNote, CycleOK, CycleFields
<1>8. CycleOK'
    BY <1>0, <1>1, <1>7 DEF CycleOK, CyclePCs, Eras
<1> QED
    BY <1>1, <1>2, <1>6, <1>8, CycleRest

\* AdminBot loses the cycle and the refresh.
LEMMA CrashKeeps ==
    ASSUME Sound, Crash
    PROVE  Sound'
<1>0. ShapeOK /\ AloneOK /\ RowsFit /\ CycleOK /\ ViewOK /\ RenewalOK /\ DisabledIsOff
    BY DEF Sound
<1>1. /\ UNCHANGED <<svc, row, panel, used, seen, zeroed, corrected, servers, r, renewals>>
      /\ e' = NoCycle /\ view' = NoView
    BY DEF Crash, history
<1>2. ~Renewing
    BY <1>0 DEF Crash, AloneOK
<1>3. ShapeOK' /\ RowsFit' /\ DisabledIsOff'
    BY <1>1, <1>2, BooksRest
<1>4. CycleOK' /\ AloneOK' /\ RenewalOK'
    BY <1>1, <1>2 DEF CycleOK, AloneOK, RenewalOK, Cycling, Viewing, Renewing
<1>5. ViewOK'
    BY <1>1 DEF ViewOK, NoView
<1> QED
    BY <1>3, <1>4, <1>5 DEF Sound

-----------------------------------------------------------------------------
(* The refresh.                                                            *)

LEMMA RefreshReadKeeps ==
    ASSUME Sound, NEW S, RefreshRead(S), upset = {}, upset' = {}
    PROVE  Sound'
<1>0. ShapeOK /\ RowsFit /\ DisabledIsOff
    BY DEF Sound
<1>1. ~Cycling /\ ~Renewing
    BY DEF RefreshRead, Meet
<1>2. UNCHANGED <<svc, row, panel, used, seen, zeroed, corrected, servers, e, r, renewals>>
    BY DEF RefreshRead, history
<1>3. ShapeOK' /\ RowsFit' /\ DisabledIsOff'
    BY <1>1, <1>2, BooksRest
<1>4. S \subseteq Nodes /\ DOMAIN view' = S /\ \A n \in S : view'[n] = Reading(n)
    BY <1>0 DEF RefreshRead, Targets, ShapeOK
<1>5. AloneOK' /\ CycleOK' /\ RenewalOK'
    BY <1>1, <1>2 DEF AloneOK, CycleOK, RenewalOK, Cycling, Renewing
<1>6. ASSUME NEW n \in S
      PROVE  /\ view'[n] \in ReadingRec /\ view'[n].plan \in Eras'
             /\ Alive(n)' /\ view'[n].plan = svc'.end => Sampled(n, view[n])'
    <2>1. n \in Nodes
        BY <1>4
    <2>2. PICK g \in ReadingRec :
            /\ g = view'[n]
            /\ g.raw = panel[n].raw /\ g.plan = panel[n].plan /\ g.used = used[n]
        BY <1>0, <1>4, <2>1 DEF Reading, ReadingRec, ShapeOK, PanelRec
    <2>3. Alive(n) /\ g.plan = svc.end => InStep(n)
        <3>1. r.pc # "nodes" /\ Era = svc.end
            BY <1>1 DEF Era, Renewing, NoRenewal
        <3> QED
            BY <1>0, <2>1, <2>2, <3>1 DEF RowsFit, Missed
    <2>4. InStep(n) => Sampled(n, g)
        BY <1>0, <2>1, <2>2 DEF Sampled, InStep, Fits, Booked, ShapeOK, PanelRec
    <2>5. Sampled(n, g) => Sampled(n, g)'
        BY <1>2 DEF Sampled, InStep, Fits, Booked
    <2>6. Sampled(n, view[n])' <=> Sampled(n, g)'
        BY <2>2
    <2> QED
        BY <1>0, <1>2, <2>1, <2>2, <2>3, <2>4, <2>5, <2>6 DEF Alive, Eras, ShapeOK
<1>7. ViewOK'
    BY <1>4, <1>6 DEF ViewOK
<1> QED
    BY <1>3, <1>5, <1>7 DEF Sound

LEMMA RefreshWriteKeeps ==
    ASSUME Sound, RefreshWrite, upset = {}, upset' = {}
    PROVE  Sound'
<1>0. ShapeOK /\ AloneOK /\ ViewOK
    BY DEF Sound
<1>1. /\ UNCHANGED <<panel, used, corrected, servers, e, r, renewals>>
      /\ Viewing /\ view' = NoView /\ Sample(view, row)
    BY DEF RefreshWrite, viewOnly, Viewed, counters
<1>2. ~Cycling /\ ~Renewing
    BY <1>0, <1>1 DEF AloneOK
<1>3. PICK a \in DOMAIN view :
        /\ DOMAIN svc' = {"usage", "limit", "end", "active"} /\ svc'.end = view[a].plan
    BY DEF RefreshWrite, Shown
<1>4. ~Unnoticed(view) /\ \A n \in DOMAIN view : view[n].plan = svc.end
    BY DEF RefreshWrite, Viewed
<1>5. \A n \in DOMAIN view : view[n] \in ReadingRec /\ (Alive(n) => Sampled(n, view[n]))
    BY <1>0, <1>4 DEF ViewOK
<1>6. DOMAIN svc' = DOMAIN svc /\ svc'.end = svc.end /\ DOMAIN view \subseteq Nodes
    BY <1>0, <1>3, <1>4 DEF ShapeOK, ViewOK
<1>7. ShapeOK' /\ RowsFit' /\ DisabledIsOff'
    BY <1>1, <1>2, <1>4, <1>5, <1>6, SampleRest
<1>8. AloneOK' /\ CycleOK' /\ RenewalOK'
    BY <1>1, <1>2 DEF AloneOK, CycleOK, RenewalOK, Cycling, Viewing, Renewing
<1>9. ViewOK'
    BY <1>1 DEF ViewOK, NoView
<1> QED
    BY <1>7, <1>8, <1>9 DEF Sound

\* What is noted of a node is taken back, not what it counts.
LEMMA RepairedCounts ==
    ASSUME NEW x \in Rows, NEW b \in BOOLEAN, x.state # "gone"
    PROVE  /\ Repaired(x, b) \in Rows /\ Repaired(x, b).state = "live" /\ Repaired(x, b).reason = ""
           /\ Repaired(x, b).eff = x.eff /\ Repaired(x, b).raw = x.raw /\ Repaired(x, b).off = x.off
<1>1. Repaired(x, b) = [x EXCEPT !.state = "live", !.reason = "", !.active = b]
    BY DEF Repaired
<1>2. /\ [x EXCEPT !.state = "live", !.reason = "", !.active = b] \in Rows
      /\ [x EXCEPT !.state = "live", !.reason = "", !.active = b].state = "live"
      /\ [x EXCEPT !.state = "live", !.reason = "", !.active = b].reason = ""
      /\ [x EXCEPT !.state = "live", !.reason = "", !.active = b].eff = x.eff
      /\ [x EXCEPT !.state = "live", !.reason = "", !.active = b].raw = x.raw
      /\ [x EXCEPT !.state = "live", !.reason = "", !.active = b].off = x.off
    BY DEF Rows, RowStates, Reasons
<1> QED
    BY <1>1, <1>2

\* What a repair writes, node by node.
LEMMA RepairRows ==
    ASSUME RepairWrite, DOMAIN view \subseteq Nodes
    PROVE  /\ row' = [n \in Nodes |-> row'[n]] /\ seen' = [n \in Nodes |-> seen'[n]]
           /\ \A n \in Nodes :
                  IF n \in DOMAIN view /\ Alive(n)
                  THEN /\ row'[n] = Repaired(Recorded(row[n], view[n].raw), view[n].on)
                       /\ seen'[n] = view[n].used /\ n \notin zeroed'
                  ELSE /\ row'[n] = row[n] /\ seen'[n] = seen[n]
                       /\ n \in zeroed' <=> n \in zeroed
<1> DEFINE known == {n \in DOMAIN view : row[n].state # "gone"}
           sampled == [n \in Nodes |-> IF n \in known THEN Recorded(row[n], view[n].raw) ELSE row[n]]
<1>1. /\ row' = [n \in Nodes |-> IF n \in known THEN Repaired(sampled[n], view[n].on) ELSE sampled[n]]
      /\ seen' = [n \in Nodes |-> IF n \in known THEN view[n].used ELSE seen[n]]
      /\ zeroed' = zeroed \ known
    BY DEF RepairWrite
<1>2. \A n \in Nodes : n \in known <=> n \in DOMAIN view /\ Alive(n)
    BY DEF Alive
<1> HIDE DEF known
<1> QED
    BY <1>1, <1>2

LEMMA RepairWriteKeeps ==
    ASSUME Sound, RepairWrite, upset = {}, upset' = {}
    PROVE  Sound'
<1>0. ShapeOK /\ AloneOK /\ ViewOK /\ RowsFit /\ DisabledIsOff
    BY DEF Sound
<1>1. /\ UNCHANGED <<panel, used, corrected, servers, e, r, renewals>>
      /\ Viewing /\ view' = NoView /\ Primary \in DOMAIN view
    BY DEF RepairWrite, viewOnly, Viewed, counters
<1>2. ~Cycling /\ ~Renewing
    BY <1>0, <1>1 DEF AloneOK
<1>3. DOMAIN svc' = {"usage", "limit", "end", "active"} /\ svc'.end = view[Primary].plan
    BY DEF RepairWrite, Shown
<1>4. ~Unnoticed(view) /\ \A n \in DOMAIN view : view[n].plan = svc.end
    BY DEF RepairWrite, Viewed
<1>5. DOMAIN svc' = DOMAIN svc /\ svc'.end = svc.end /\ DOMAIN view \subseteq Nodes
    BY <1>0, <1>1, <1>3, <1>4 DEF ShapeOK, ViewOK
<1>6. /\ row' = [n \in Nodes |-> row'[n]] /\ seen' = [n \in Nodes |-> seen'[n]]
      /\ \A n \in Nodes :
             IF n \in DOMAIN view /\ Alive(n)
             THEN /\ row'[n] = Repaired(Recorded(row[n], view[n].raw), view[n].on)
                  /\ seen'[n] = view[n].used /\ n \notin zeroed'
             ELSE /\ row'[n] = row[n] /\ seen'[n] = seen[n]
                  /\ n \in zeroed' <=> n \in zeroed
    BY <1>5, RepairRows
<1>7. ASSUME NEW n \in DOMAIN view, Alive(n)
      PROVE  /\ row'[n] \in Rows /\ seen'[n] \in Nat
             /\ row'[n].state = "live" /\ row'[n].reason = "" /\ InStep(n)'
    <2>1. PICK g \in ReadingRec, x \in Rows, b \in BOOLEAN :
              g = view[n] /\ x = row[n] /\ b = view[n].on /\ Sampled(n, g)
        BY <1>0, <1>4, <1>5, <1>7 DEF ViewOK, ShapeOK, ReadingRec
    <2>2. ~(n \in zeroed /\ x.raw > 0 /\ 10 * g.raw > 6 * x.raw)
        BY <1>4, <2>1 DEF Unnoticed
    <2>3. PICK raw \in Nat : raw = g.raw
        BY DEF ReadingRec
    <2>4. PICK y \in Rows : y = Recorded(x, raw) /\ y.state = x.state
        BY <1>0, <1>5, <2>1, <2>2, <2>3, RecordedTyped
    <2>5. /\ Repaired(y, b) \in Rows /\ Repaired(y, b).state = "live" /\ Repaired(y, b).reason = ""
          /\ Repaired(y, b).eff = y.eff /\ Repaired(y, b).raw = y.raw /\ Repaired(y, b).off = y.off
        BY <1>7, <2>1, <2>4, RepairedCounts DEF Alive
    <2>6. row'[n] = Repaired(y, b) /\ seen'[n] = g.used /\ n \notin zeroed' /\ n \in Nodes
        BY <1>5, <1>6, <1>7, <2>1, <2>3, <2>4
    <2>7. seen'[n] \in Nat /\ InStep(n)'
        BY <1>0, <1>1, <2>1, <2>2, <2>3, <2>4, <2>5, <2>6, SampledInStep
    <2> QED
        BY <2>5, <2>6, <2>7
<1>8. ASSUME NEW n \in Nodes, ~(n \in DOMAIN view /\ Alive(n))
      PROVE  /\ row'[n] = row[n] /\ row'[n] \in Rows /\ seen'[n] \in Nat
             /\ InStep(n) => InStep(n)'
             /\ Missed(n) => Missed(n)'
    <2>1. row'[n] = row[n] /\ seen'[n] = seen[n] /\ (n \in zeroed' <=> n \in zeroed)
        BY <1>6, <1>8
    <2>2. Era' = Era
        BY <1>1, <1>2, <1>5 DEF Era, Renewing, NoRenewal
    <2> QED
        BY <1>0, <1>1, <2>1, <2>2 DEF ShapeOK, InStep, Fits, Booked, Missed
<1>9. ShapeOK'
    <2>1. \A n \in Nodes : row'[n] \in Rows /\ seen'[n] \in Nat
        BY <1>7, <1>8
    <2>2. row' \in [Nodes -> Rows] /\ seen' \in [Nodes -> Nat]
        BY <1>6, <2>1
    <2> QED
        BY <1>0, <1>1, <1>5, <2>2 DEF ShapeOK, Eras
<1>10. RowsFit'
    <2>1. SUFFICES ASSUME NEW n \in Nodes, Alive(n)', ~InStep(n)' PROVE Missed(n)'
        BY DEF RowsFit
    <2>2. ~(n \in DOMAIN view /\ Alive(n))
        BY <1>7, <2>1
    <2>3. Alive(n) /\ ~InStep(n)
        BY <1>8, <2>1, <2>2 DEF Alive
    <2>4. Missed(n)
        BY <1>0, <1>2, <2>3 DEF RowsFit, Renewing, NoRenewal
    <2> QED
        BY <1>8, <2>2, <2>4
<1>11. DisabledIsOff'
    <2>1. SUFFICES ASSUME NEW n \in Nodes, row'[n].state = "live", row'[n].reason = "verified"
                   PROVE  ~panel'[n].on /\ r'.pc # "enable"
        BY DEF DisabledIsOff, LiveRows
    <2>2. ~(n \in DOMAIN view /\ Alive(n))
        BY <1>7, <2>1
    <2>3. row'[n] = row[n]
        BY <1>8, <2>2
    <2> QED
        BY <1>0, <1>1, <2>1, <2>3 DEF DisabledIsOff, LiveRows
<1>12. AloneOK' /\ CycleOK' /\ RenewalOK'
    BY <1>1, <1>2 DEF AloneOK, CycleOK, RenewalOK, Cycling, Viewing, Renewing
<1>13. ViewOK'
    BY <1>1 DEF ViewOK, NoView
<1> QED
    BY <1>9, <1>10, <1>11, <1>12, <1>13 DEF Sound

\* Rows that hold nothing are forgotten.
LEMMA ClearFrozenKeeps ==
    ASSUME Sound, ClearFrozen, upset = {}, upset' = {}
    PROVE  Sound'
<1>0. ShapeOK /\ AloneOK /\ RowsFit /\ ViewOK /\ RenewalOK /\ DisabledIsOff
    BY DEF Sound
<1>1. /\ UNCHANGED <<panel, servers, e, view, r, renewals, used, seen, zeroed, corrected>>
      /\ ~Cycling
    BY DEF ClearFrozen, counters, history
<1>2. DOMAIN svc' = DOMAIN svc /\ svc'.end = svc.end
    BY <1>0 DEF ClearFrozen, ShapeOK
<1>3. PICK held \in SUBSET Nodes :
          row' = [n \in Nodes |-> IF n \in held THEN [row[n] EXCEPT !.state = "gone"] ELSE row[n]]
    BY DEF ClearFrozen
<1>4. ASSUME NEW n \in Nodes
      PROVE  row'[n] \in Rows /\ (row'[n] = row[n] \/ row'[n].state = "gone")
    <2>1. PICK x \in Rows : x = row[n]
        BY <1>0 DEF ShapeOK
    <2>2. [x EXCEPT !.state = "gone"] \in Rows /\ [x EXCEPT !.state = "gone"].state = "gone"
        BY DEF Rows, RowStates
    <2> QED
        BY <1>3, <2>1, <2>2
<1>5. ShapeOK'
    <2>1. row' \in [Nodes -> Rows]
        BY <1>3, <1>4
    <2> QED
        BY <1>0, <1>1, <1>2, <2>1 DEF ShapeOK, Eras
<1>6. ASSUME NEW n \in Nodes, Alive(n)'
      PROVE  /\ Alive(n) /\ row'[n] = row[n]
             /\ InStep(n) => InStep(n)'
             /\ Missed(n) => Missed(n)'
    <2>1. row'[n] = row[n]
        BY <1>4, <1>6 DEF Alive
    <2>2. Era' = Era
        BY <1>1, <1>2 DEF Era
    <2> QED
        BY <1>1, <1>6, <2>1, <2>2 DEF Alive, InStep, Fits, Booked, Missed
<1>7. RowsFit'
    BY <1>0, <1>1, <1>6 DEF RowsFit
<1>8. AloneOK' /\ CycleOK'
    BY <1>0, <1>1 DEF AloneOK, CycleOK, Cycling, Viewing, Renewing
<1>9. ViewOK'
    <2>1. ASSUME NEW n \in DOMAIN view, Alive(n)', view[n].plan = svc.end
          PROVE  Sampled(n, view[n])'
        <3>1. n \in Nodes
            BY <1>0 DEF ViewOK
        <3>2. Alive(n) /\ row'[n] = row[n] /\ (InStep(n) => InStep(n)')
            BY <1>6, <2>1, <3>1
        <3>3. Sampled(n, view[n])
            BY <1>0, <2>1, <3>2 DEF ViewOK
        <3> QED
            BY <1>1, <3>2, <3>3 DEF Sampled, Fits, Booked
    <2> QED
        BY <1>0, <1>1, <1>2, <2>1 DEF ViewOK, Eras
<1>10. RenewalOK'
    <2>1. \A n \in servers : n \in Nodes
        BY <1>0 DEF ShapeOK
    <2>2. \A n \in servers : Alive(n)' => Alive(n)
        BY <1>6, <2>1
    <2>3. \A n \in Nodes : Counted(n) => Counted(n)'
        BY <1>1 DEF Counted
    <2> QED
        BY <1>0, <1>1, <1>2, <2>2, <2>3 DEF RenewalOK, Renewing, Eras
<1>11. DisabledIsOff'
    <2>1. SUFFICES ASSUME NEW n \in Nodes, row'[n].state = "live", row'[n].reason = "verified"
                   PROVE  ~panel'[n].on /\ r'.pc # "enable"
        BY DEF DisabledIsOff, LiveRows
    <2>2. row'[n] = row[n]
        BY <1>6, <2>1 DEF Alive
    <2> QED
        BY <1>0, <1>1, <2>1, <2>2 DEF DisabledIsOff, LiveRows
<1> QED
    BY <1>5, <1>7, <1>8, <1>9, <1>10, <1>11 DEF Sound

-----------------------------------------------------------------------------
(* The renewal: nothing else is under way.                                 *)

LEMMA RenewalRest ==
    ASSUME ~Cycling, ~Viewing, UNCHANGED <<e, view>>,
           ShapeOK', RowsFit', RenewalOK', DisabledIsOff'
    PROVE  Sound'
<1>1. AloneOK' /\ CycleOK'
    BY DEF AloneOK, CycleOK, Cycling, Viewing, Renewing
<1>2. ViewOK'
    BY DEF ViewOK, Viewing, NoView
<1> QED
    BY <1>1, <1>2 DEF Sound

LEMMA AtRenewal ==
    ASSUME Sound, r.pc # "idle"
    PROVE  Renewing /\ ~Cycling /\ ~Viewing
BY DEF Sound, AloneOK, Renewing, NoRenewal

LEMMA RenewStartKeeps ==
    ASSUME Sound, RenewStart, upset = {}, upset' = {}
    PROVE  Sound'
<1>0. ShapeOK /\ RowsFit /\ DisabledIsOff
    BY DEF Sound
<1>1. ~Cycling /\ ~Viewing /\ r = NoRenewal
    BY DEF RenewStart, Meet, Renewing
<1>2. UNCHANGED <<row, panel, used, seen, zeroed, corrected, servers, e, view>> /\ renewals' = renewals + 1
    BY DEF RenewStart, renewOnly, history
<1>3. /\ DOMAIN svc' = DOMAIN svc /\ svc'.end = renewals + 1
      /\ DOMAIN r' = RenewalFields /\ r'.pc = "primary" /\ r'.period = renewals + 1 /\ r'.old = svc
      /\ r'.all = Targets /\ r'.todo = Targets \ {Primary}
    BY <1>0 DEF RenewStart, RenewalFields, ShapeOK
<1>4. renewals \in Nat /\ Eras \subseteq Eras' /\ renewals + 1 \in Eras' /\ renewals + 1 \notin Eras
    BY <1>0, <1>2 DEF Eras, ShapeOK
<1>5. ShapeOK'
    BY <1>0, <1>2, <1>3, <1>4 DEF ShapeOK
<1>6. RowsFit'
    <2>1. Era' = Era
        BY <1>1, <1>3 DEF Era, NoRenewal
    <2> QED
        BY <1>0, <1>1, <1>2, <2>1 DEF RowsFit, NoRenewal, Alive, InStep, Fits, Booked, Missed
<1>7. RenewalOK'
    BY <1>0, <1>2, <1>3, <1>4 DEF RenewalOK, ShapeOK, RenewPCs, Targets, Alive
<1>8. DisabledIsOff'
    BY <1>0, <1>2, <1>3 DEF DisabledIsOff, LiveRows
<1> QED
    BY <1>1, <1>2, <1>5, <1>6, <1>7, <1>8, RenewalRest

LEMMA PatchedRest ==
    ASSUME ShapeOK, NEW n \in Nodes, Patched(n), Job \in Nat
    PROVE  /\ panel' \in [Nodes -> PanelRec] /\ used' \in [Nodes -> Nat]
           /\ seen' \in [Nodes -> Nat] /\ corrected' \in [Nodes -> Nat]
           /\ panel'[n].raw = 0 /\ panel'[n].plan = Job /\ panel'[n].on = panel[n].on
           /\ used'[n] = 0 /\ seen'[n] = 0 /\ corrected'[n] = 0
           /\ \A m \in Nodes \ {n} : panel'[m] = panel[m] /\ used'[m] = used[m] /\ seen'[m] = seen[m] /\ corrected'[m] = corrected[m]
<1>1. PICK x \in PanelRec, job \in Nat : x = panel[n] /\ job = Job
    BY DEF ShapeOK
<1>2. /\ [x EXCEPT !.raw = 0, !.plan = job] \in PanelRec
      /\ [x EXCEPT !.raw = 0, !.plan = job].raw = 0
      /\ [x EXCEPT !.raw = 0, !.plan = job].plan = job
      /\ [x EXCEPT !.raw = 0, !.plan = job].on = x.on
    BY DEF PanelRec
<1> QED
    BY <1>1, <1>2 DEF Patched, Renewed, ShapeOK

LEMMA RenewPrimaryKeeps ==
    ASSUME Sound, RenewPrimary
    PROVE  Sound'
<1>0. ShapeOK /\ RenewalOK /\ DisabledIsOff /\ Renewing /\ ~Cycling /\ ~Viewing /\ r.pc = "primary"
    BY AtRenewal DEF Sound, RenewPrimary
<1>1. UNCHANGED <<svc, row, servers, e, view, renewals>> /\ Patched(Primary)
    BY DEF RenewPrimary, renewOnly
<1>2. /\ DOMAIN r' = RenewalFields /\ r'.pc = "nodes" /\ r'.period = r.period
      /\ r'.todo = r.todo /\ r'.failed = r.failed /\ r'.all = r.all
    BY <1>0 DEF RenewPrimary, Step, RenewalOK, RenewalFields
<1>3. Primary \in Nodes /\ Job = r.period /\ Job \in Nat /\ Job \in Eras
    <2>1. Primary \in Nodes
        BY UsageAssumption
    <2>2. Job = renewals /\ renewals \in Nat /\ Job = r.period
        BY <1>0 DEF RenewalOK, ShapeOK, Job
    <2> QED
        BY <2>1, <2>2 DEF Eras
<1>4. /\ panel' \in [Nodes -> PanelRec] /\ used' \in [Nodes -> Nat]
      /\ seen' \in [Nodes -> Nat] /\ corrected' \in [Nodes -> Nat]
      /\ panel'[Primary].raw = 0 /\ panel'[Primary].plan = Job /\ panel'[Primary].on = panel[Primary].on
      /\ used'[Primary] = 0 /\ seen'[Primary] = 0 /\ corrected'[Primary] = 0
      /\ \A m \in Nodes \ {Primary} :
             panel'[m] = panel[m] /\ used'[m] = used[m] /\ seen'[m] = seen[m] /\ corrected'[m] = corrected[m]
    BY <1>0, <1>1, <1>3, PatchedRest
<1>5. ShapeOK'
    BY <1>0, <1>1, <1>3, <1>4 DEF ShapeOK, Eras
<1>6. RowsFit'
    BY <1>2 DEF RowsFit
<1>7. RenewalOK'
    <2>1. \A m \in Nodes : panel'[m].plan = r.period => Counted(m)'
        BY <1>0, <1>4 DEF RenewalOK, Counted
    <2> QED
        BY <1>0, <1>1, <1>2, <1>3, <1>4, <2>1 DEF RenewalOK, RenewPCs, ShapeOK, Alive
<1>8. DisabledIsOff'
    BY <1>0, <1>1, <1>2, <1>4 DEF DisabledIsOff, LiveRows
<1> QED
    BY <1>0, <1>1, <1>5, <1>6, <1>7, <1>8, RenewalRest

LEMMA RenewPrimaryFailsKeeps ==
    ASSUME Sound, RenewPrimaryFails, upset' = {}
    PROVE  Sound'
<1>0. /\ ShapeOK /\ RowsFit /\ RenewalOK /\ DisabledIsOff
      /\ Renewing /\ ~Cycling /\ ~Viewing /\ r.pc = "primary"
    BY AtRenewal DEF Sound, RenewPrimaryFails
<1>1. /\ UNCHANGED <<row, panel, used, seen, zeroed, corrected, servers, e, view, renewals>>
      /\ svc' = r.old /\ r' = NoRenewal
    BY DEF RenewPrimaryFails, renewOnly, history
<1>2. ShapeOK'
    BY <1>0, <1>1 DEF ShapeOK, RenewalOK, Eras
<1>3. RowsFit'
    <2>1. Era' = Era
        BY <1>0, <1>1 DEF Era, NoRenewal
    <2> QED
        BY <1>0, <1>1, <2>1 DEF RowsFit, Alive, InStep, Fits, Booked, Missed
<1>4. RenewalOK' /\ DisabledIsOff'
    BY <1>0, <1>1 DEF RenewalOK, Renewing, DisabledIsOff, LiveRows, NoRenewal
<1> QED
    BY <1>0, <1>1, <1>2, <1>3, <1>4, RenewalRest

LEMMA RenewNodesKeep ==
    ASSUME Sound, NEW n \in Nodes, RenewNode(n) \/ RenewNodeFails(n)
    PROVE  Sound'
<1>0. ShapeOK /\ RenewalOK /\ DisabledIsOff /\ Renewing /\ ~Cycling /\ ~Viewing /\ r.pc = "nodes"
    BY AtRenewal DEF Sound, RenewNode, RenewNodeFails
<1>1. UNCHANGED <<svc, row, servers, e, view, renewals>>
    BY DEF RenewNode, RenewNodeFails, renewOnly
<1>2. /\ DOMAIN r' = RenewalFields /\ r'.pc = "nodes" /\ r'.period = r.period
      /\ r'.todo = r.todo \ {n} /\ r.failed \subseteq r'.failed /\ r'.all = r.all
      /\ n \in r'.failed \/ Patched(n)
    <2>1. CASE RenewNode(n)
        BY <1>0, <2>1 DEF RenewNode, RenewalOK, RenewalFields
    <2>2. CASE RenewNodeFails(n)
        <3>1. r' = [r EXCEPT !.todo = @ \ {n}, !.failed = @ \cup {n}]
            BY <2>2 DEF RenewNodeFails
        <3> QED
            BY <1>0, <3>1 DEF RenewalOK, RenewalFields
    <2> QED
        BY <2>1, <2>2
<1>3. Job = r.period /\ Job \in Nat /\ Job \in Eras
    <2>1. Job = renewals /\ renewals \in Nat /\ Job = r.period
        BY <1>0 DEF RenewalOK, ShapeOK, Job
    <2> QED
        BY <2>1 DEF Eras
<1>4. /\ panel' \in [Nodes -> PanelRec] /\ used' \in [Nodes -> Nat]
      /\ seen' \in [Nodes -> Nat] /\ corrected' \in [Nodes -> Nat]
      /\ \/ UNCHANGED <<panel, used, seen, corrected>>
         \/ panel'[n].raw = 0 /\ panel'[n].plan = Job /\ used'[n] = 0 /\ seen'[n] = 0 /\ corrected'[n] = 0
      /\ panel'[n].on = panel[n].on
      /\ \A m \in Nodes \ {n} : panel'[m] = panel[m] /\ used'[m] = used[m] /\ seen'[m] = seen[m] /\ corrected'[m] = corrected[m]
    <2>1. CASE Patched(n)
        BY <1>0, <1>3, <2>1, PatchedRest
    <2>2. CASE UNCHANGED <<panel, history>>
        BY <1>0, <2>2 DEF history, ShapeOK
    <2> QED
        BY <2>1, <2>2 DEF RenewNode, RenewNodeFails
<1>5. ShapeOK'
    BY <1>0, <1>1, <1>3, <1>4 DEF ShapeOK, Eras
<1>6. RowsFit'
    BY <1>2 DEF RowsFit
<1>7. RenewalOK'
    <2>1. \A m \in Nodes : panel'[m].plan = r.period => Counted(m)'
        BY <1>0, <1>4 DEF RenewalOK, Counted
    <2>2. \A m \in servers :
              Alive(m)' => m \in r'.todo \cup r'.failed \/ panel'[m].plan = r.period
        <3>1. SUFFICES ASSUME NEW m \in servers, Alive(m)'
                       PROVE  m \in r'.todo \cup r'.failed \/ panel'[m].plan = r.period
            OBVIOUS
        <3>2. m \in Nodes /\ (m \in r.todo \cup r.failed \/ panel[m].plan = r.period)
            BY <1>0, <1>1, <3>1 DEF RenewalOK, ShapeOK, Alive
        <3>3. CASE m = n
            <4>1. Patched(n) => panel'[n].plan = r.period
                BY <1>0, <1>3, PatchedRest
            <4> QED
                BY <1>2, <3>3, <4>1
        <3>4. CASE m # n
            BY <1>2, <1>4, <3>2, <3>4
        <3> QED
            BY <3>3, <3>4
    <2> QED
        BY <1>0, <1>1, <1>2, <2>1, <2>2 DEF RenewalOK, RenewPCs
<1>8. DisabledIsOff'
    BY <1>0, <1>1, <1>2, <1>4 DEF DisabledIsOff, LiveRows
<1> QED
    BY <1>0, <1>1, <1>5, <1>6, <1>7, <1>8, RenewalRest

\* The rows begin again: a node that was renewed is in step, one that was not has
\* a renewal pending or has no server.
LEMMA RenewResetKeeps ==
    ASSUME Sound, RenewReset
    PROVE  Sound'
<1>0. /\ ShapeOK /\ RenewalOK /\ DisabledIsOff
      /\ Renewing /\ ~Cycling /\ ~Viewing /\ r.pc = "nodes" /\ r.todo = {}
    BY AtRenewal DEF Sound, RenewReset
<1>1. UNCHANGED <<svc, panel, zeroed, servers, e, view, renewals>>
    BY DEF RenewReset, renewOnly
<1>2. /\ DOMAIN r' = RenewalFields /\ r'.pc = "enable" /\ r'.period = r.period
      /\ r'.todo = r.all /\ r'.all = r.all
    BY <1>0 DEF RenewReset, RenewalOK, RenewalFields
<1>3. Job = r.period /\ svc.end = r.period /\ r.todo = {}
    BY <1>0 DEF RenewalOK, Job
<1>4. ASSUME NEW n \in Nodes
      PROVE  /\ AfterRenewal(n) \in Rows
             /\ AfterRenewal(n).state # "gone" =>
                    /\ row[n].state = "live" /\ AfterRenewal(n).reason # "verified"
                    /\ AfterRenewal(n).eff = 0 /\ AfterRenewal(n).raw = 0 /\ AfterRenewal(n).off = 0
                    /\ n \in r.failed => AfterRenewal(n).reason = "renew_pending"
    <2>1. PICK x \in Rows : x = row[n]
        BY <1>0 DEF ShapeOK
    <2>2. CASE x.state # "live"
        <3>1. /\ [x EXCEPT !.state = "gone"] \in Rows /\ [x EXCEPT !.state = "gone"].state = "gone"
            BY DEF Rows, RowStates
        <3>2. AfterRenewal(n) = [x EXCEPT !.state = "gone"]
            BY <2>1, <2>2 DEF AfterRenewal
        <3> QED
            BY <3>1, <3>2
    <2>3. CASE x.state = "live" /\ n \in r.failed
        <3>1. AfterRenewal(n) = [FreshRow EXCEPT !.reason = "renew_pending", !.active = FALSE]
            BY <2>1, <2>3 DEF AfterRenewal
        <3>2. PICK z : z = [state |-> "live", eff |-> 0, raw |-> 0, off |-> 0,
                            reason |-> "renew_pending", active |-> FALSE]
            OBVIOUS
        <3>3. z \in Rows /\ z.reason = "renew_pending" /\ z.eff = 0 /\ z.raw = 0 /\ z.off = 0
            BY <3>2 DEF Rows, RowStates, Reasons
        <3>4. AfterRenewal(n) = z
            BY <3>1, <3>2 DEF FreshRow
        <3> QED
            BY <2>1, <2>3, <3>3, <3>4
    <2>4. CASE x.state = "live" /\ n \notin r.failed
        <3>1. AfterRenewal(n) = FreshRow
            BY <2>1, <2>4 DEF AfterRenewal
        <3>2. PICK z : z = [state |-> "live", eff |-> 0, raw |-> 0, off |-> 0,
                            reason |-> "", active |-> TRUE]
            OBVIOUS
        <3>3. z \in Rows /\ z.reason = "" /\ z.eff = 0 /\ z.raw = 0 /\ z.off = 0
            BY <3>2 DEF Rows, RowStates, Reasons
        <3>4. AfterRenewal(n) = z
            BY <3>1, <3>2 DEF FreshRow
        <3> QED
            BY <2>1, <2>4, <3>3, <3>4
    <2> QED
        BY <2>2, <2>3, <2>4
<1>5. \A n \in Nodes : /\ row'[n] = AfterRenewal(n) /\ seen'[n] = 0
                       /\ used'[n] = IF panel[n].plan = Job THEN used[n] ELSE 0
                       /\ corrected'[n] = IF panel[n].plan = Job THEN corrected[n] ELSE 0
    BY DEF RenewReset
<1>6. ShapeOK'
    <2>1. /\ row' = [n \in Nodes |-> AfterRenewal(n)] /\ seen' = [n \in Nodes |-> 0]
          /\ used' = [n \in Nodes |-> IF panel[n].plan = Job THEN used[n] ELSE 0]
          /\ corrected' = [n \in Nodes |-> IF panel[n].plan = Job THEN corrected[n] ELSE 0]
        BY DEF RenewReset
    <2>2. row' \in [Nodes -> Rows]
        BY <1>4, <2>1
    <2>3. seen' \in [Nodes -> Nat] /\ used' \in [Nodes -> Nat] /\ corrected' \in [Nodes -> Nat]
        BY <1>0, <2>1 DEF ShapeOK
    <2> QED
        BY <1>0, <1>1, <2>2, <2>3 DEF ShapeOK, Eras
<1>7. RowsFit'
    <2>1. SUFFICES ASSUME NEW n \in Nodes, Alive(n)' PROVE InStep(n)' \/ Missed(n)'
        BY DEF RowsFit
    <2>2. /\ row[n].state = "live" /\ row'[n].eff = 0 /\ row'[n].raw = 0 /\ row'[n].off = 0
          /\ n \in r.failed => row'[n].reason = "renew_pending"
        BY <1>4, <1>5, <2>1 DEF Alive
    <2>3. CASE panel[n].plan = r.period
        <3>1. PICK p \in Nat, u \in Nat, c \in Nat :
                  /\ p = panel[n].raw /\ u = used'[n] /\ c = corrected'[n]
                  /\ u - c <= p /\ p <= u
            BY <1>0, <1>3, <1>5, <2>3 DEF RenewalOK, Counted, ShapeOK, PanelRec
        <3> QED
            BY <1>1, <1>5, <2>2, <3>1 DEF InStep, Fits, Booked, ResetDetected
    <2>4. CASE panel[n].plan # r.period
        <3>1. Era' = r.period
            BY <1>1, <1>2, <1>3 DEF Era
        <3>2. n \in servers => n \in r.failed
            BY <1>0, <1>3, <2>2, <2>4 DEF RenewalOK, Alive
        <3> QED
            BY <1>1, <1>5, <2>2, <2>4, <3>1, <3>2 DEF Missed
    <2> QED
        BY <2>3, <2>4
<1>8. RenewalOK'
    BY <1>0, <1>1, <1>2 DEF RenewalOK, RenewPCs
<1>9. DisabledIsOff'
    BY <1>4, <1>5 DEF DisabledIsOff, LiveRows
<1> QED
    BY <1>0, <1>1, <1>6, <1>7, <1>8, <1>9, RenewalRest

LEMMA RenewEnablesKeep ==
    ASSUME Sound, NEW n \in Nodes, RenewEnable(n) \/ RenewEnableFails(n)
    PROVE  Sound'
<1>0. /\ ShapeOK /\ RowsFit /\ RenewalOK /\ DisabledIsOff
      /\ Renewing /\ ~Cycling /\ ~Viewing /\ r.pc = "enable"
    BY AtRenewal DEF Sound, RenewEnable, RenewEnableFails
<1>1. /\ UNCHANGED <<svc, row, used, seen, zeroed, corrected, servers, e, view, renewals>>
      /\ panel' = panel \/ panel' = [panel EXCEPT ![n].on = TRUE]
    BY DEF RenewEnable, RenewEnableFails, renewOnly, history
<1>2. /\ DOMAIN r' = RenewalFields /\ r'.pc = "enable" /\ r'.period = r.period
      /\ r'.todo = r.todo \ {n} /\ r'.all = r.all
    BY <1>0 DEF RenewEnable, RenewEnableFails, RenewalOK, RenewalFields
<1>3. /\ panel' \in [Nodes -> PanelRec]
      /\ \A m \in Nodes : panel'[m].raw = panel[m].raw /\ panel'[m].plan = panel[m].plan
    <2>1. PICK x \in PanelRec : x = panel[n]
        BY <1>0 DEF ShapeOK
    <2>2. /\ [x EXCEPT !.on = TRUE] \in PanelRec
          /\ [x EXCEPT !.on = TRUE].raw = x.raw /\ [x EXCEPT !.on = TRUE].plan = x.plan
        BY DEF PanelRec
    <2> QED
        BY <1>0, <1>1, <2>1, <2>2 DEF ShapeOK
<1>4. ShapeOK'
    BY <1>0, <1>1, <1>3 DEF ShapeOK, Eras
<1>5. RowsFit'
    <2>1. Era' = Era
        BY <1>0, <1>1, <1>2 DEF Era
    <2> QED
        BY <1>0, <1>1, <1>3, <2>1 DEF RowsFit, Alive, InStep, Fits, Booked, Missed
<1>6. RenewalOK'
    BY <1>0, <1>1, <1>2 DEF RenewalOK, RenewPCs
<1>7. DisabledIsOff'
    BY <1>0, <1>1 DEF DisabledIsOff, LiveRows
<1> QED
    BY <1>0, <1>1, <1>4, <1>5, <1>6, <1>7, RenewalRest

LEMMA RenewEndKeeps ==
    ASSUME Sound, RenewEnd
    PROVE  Sound'
<1>0. /\ ShapeOK /\ RowsFit /\ DisabledIsOff
      /\ ~Cycling /\ ~Viewing /\ r.pc = "enable"
    BY AtRenewal DEF Sound, RenewEnd
<1>1. /\ UNCHANGED <<row, panel, used, seen, zeroed, corrected, servers, e, view, renewals>>
      /\ r' = NoRenewal /\ DOMAIN svc' = DOMAIN svc /\ svc'.end = svc.end
    BY <1>0 DEF RenewEnd, renewOnly, history, ShapeOK
<1>2. ShapeOK'
    BY <1>0, <1>1 DEF ShapeOK, Eras
<1>3. RowsFit'
    <2>1. Era' = Era
        BY <1>0, <1>1 DEF Era, NoRenewal
    <2> QED
        BY <1>0, <1>1, <2>1 DEF RowsFit, Alive, InStep, Fits, Booked, Missed
<1>4. RenewalOK' /\ DisabledIsOff'
    BY <1>0, <1>1 DEF RenewalOK, Renewing, DisabledIsOff, LiveRows, NoRenewal
<1> QED
    BY <1>0, <1>1, <1>2, <1>3, <1>4, RenewalRest

-----------------------------------------------------------------------------
(* The theorems.                                                           *)

LEMMA InitOK ==
    ASSUME Init
    PROVE  Sound
<1> USE DEF Init
<1>1. e = NoCycle /\ view = NoView /\ r = NoRenewal
    OBVIOUS
<1>2. \A n \in Nodes : /\ row[n] = FreshRow /\ panel[n] = [raw |-> 0, plan |-> 0, on |-> TRUE]
                       /\ used[n] = 0 /\ seen[n] = 0 /\ corrected[n] = 0 /\ n \notin zeroed
    OBVIOUS
<1>3. FreshRow \in Rows /\ [raw |-> 0, plan |-> 0, on |-> TRUE] \in PanelRec
    BY DEF FreshRow, Rows, RowStates, Reasons, PanelRec
<1>4. ShapeOK
    BY <1>3 DEF ShapeOK, Eras
<1>5. AloneOK /\ CycleOK /\ RenewalOK
    BY <1>1 DEF AloneOK, CycleOK, RenewalOK, Cycling, Viewing, Renewing
<1>6. RowsFit
    <2>1. \A n \in Nodes : row[n].eff = 0 /\ row[n].raw = 0 /\ row[n].off = 0 /\ panel[n].raw = 0
        BY <1>2 DEF FreshRow
    <2>2. \A n \in Nodes : InStep(n)
        BY <1>2, <2>1 DEF InStep, Fits, Booked, ResetDetected
    <2> QED
        BY <2>2 DEF RowsFit
<1>7. ViewOK
    BY <1>1 DEF ViewOK, NoView
<1>8. DisabledIsOff
    BY <1>2 DEF DisabledIsOff, LiveRows, FreshRow
<1> QED
    BY <1>4, <1>5, <1>6, <1>7, <1>8 DEF Sound

\* What has disturbed the books is not forgotten.
LEMMA UpsetGrows ==
    ASSUME Next
    PROVE  upset \subseteq upset'
<1>1. CASE PanelStep
    BY <1>1 DEF PanelStep, Use, CounterReset, CounterCorrected
<1>2. CASE (\E p \in Periods : EndPasses(p)) \/ (\E n \in Nodes : RemoveServer(n))
    BY <1>2 DEF EndPasses, RemoveServer
<1>3. CASE CycleStart \/ CycleRead \/ Crash
    BY <1>3 DEF CycleStart, CycleRead, Crash, Meet
<1>4. CASE CycleStep
    BY <1>4 DEF CycleStep, VisitStep, VisitDeleted, VisitRemoved, VisitAnswers, VisitFails, Off, OffFails,
                Thaw, ThawFails, ThawAnswers, Record, Note, CloseUnconfirmed, CloseInOrder, CloseUsedUp,
                OffNote, OffEnd, Forgets
<1>5. CASE (\E S \in SUBSET Nodes : RefreshRead(S)) \/ RefreshWrite \/ RepairWrite \/ ClearFrozen
    BY <1>5 DEF RefreshRead, RefreshWrite, RepairWrite, Viewed, ClearFrozen, Meet
<1>6. CASE RenewStart \/ RenewDies
    BY <1>6 DEF RenewStart, RenewDies, Meet
<1>7. CASE RenewStep
    BY <1>7 DEF RenewStep, RenewPrimary, RenewPrimaryFails, RenewReset, RenewEnd, RenewNode,
                RenewNodeFails, RenewEnable, RenewEnableFails
<1> QED
    BY <1>1, <1>2, <1>3, <1>4, <1>5, <1>6, <1>7 DEF Next

LEMMA NextKeepsSound ==
    ASSUME Sound, Next, upset = {}, upset' = {}
    PROVE  Sound'
<1>1. CASE PanelStep
    BY <1>1, UseKeeps, CounterResetKeeps, CounterCorrectedKeeps DEF PanelStep
<1>2. CASE (\E p \in Periods : EndPasses(p)) \/ (\E n \in Nodes : RemoveServer(n))
    BY <1>2, EndPassesKeeps, RemoveServerKeeps
<1>3. CASE CycleStart \/ CycleRead \/ Crash
    BY <1>3, CycleStartKeeps, CycleReadKeeps, CrashKeeps
<1>4. CASE CycleStep
    <2>1. ASSUME NEW n \in Nodes, VisitStep(n) \/ Off(n) \/ OffFails(n)
          PROVE  Sound'
        BY <2>1, VisitDeletedKeeps, VisitRemovedKeeps, VisitAnswersKeeps, VisitFailsKeeps, OffKeeps,
           OffFailsKeeps DEF VisitStep
    <2>2. CASE Thaw \/ ThawFails \/ ThawAnswers \/ Record \/ Note
        BY <2>2, ThawKeeps, ThawFailsKeeps, ThawAnswersKeeps, RecordKeeps, NoteKeeps
    <2>3. CASE CloseUnconfirmed \/ CloseInOrder \/ CloseUsedUp \/ OffNote \/ OffEnd
        BY <2>3, ClosesKeep, CloseUsedUpKeeps, OffNoteKeeps
    <2> QED
        BY <1>4, <2>1, <2>2, <2>3 DEF CycleStep
<1>5. CASE (\E S \in SUBSET Nodes : RefreshRead(S)) \/ RefreshWrite \/ RepairWrite \/ ClearFrozen
    BY <1>5, RefreshReadKeeps, RefreshWriteKeeps, RepairWriteKeeps, ClearFrozenKeeps
<1>6. CASE RenewStart \/ RenewDies
    BY <1>6, RenewStartKeeps DEF RenewDies
<1>7. CASE RenewStep
    <2>1. CASE RenewPrimary \/ RenewPrimaryFails \/ RenewReset \/ RenewEnd
        BY <2>1, RenewPrimaryKeeps, RenewPrimaryFailsKeeps, RenewResetKeeps, RenewEndKeeps
    <2>2. CASE \E n \in Nodes : RenewNode(n) \/ RenewNodeFails(n) \/ RenewEnable(n) \/ RenewEnableFails(n)
        BY <2>2, RenewNodesKeep, RenewEnablesKeep
    <2> QED
        BY <1>7, <2>1, <2>2 DEF RenewStep
<1> QED
    BY <1>1, <1>2, <1>3, <1>4, <1>5, <1>6, <1>7 DEF Next

\* The invariant holds in every state.
THEOREM UsageInOrder == Spec => []InOrder
<1>1. Init => InOrder
    BY InitOK DEF InOrder
<1>2. InOrder /\ [Next]_vars => InOrder'
    <2>1. SUFFICES ASSUME InOrder, [Next]_vars, upset' = {} PROVE Sound'
        BY DEF InOrder
    <2>2. CASE Next
        <3>1. upset = {}
            BY <2>1, <2>2, UpsetGrows
        <3> QED
            BY <2>1, <2>2, <3>1, NextKeepsSound DEF InOrder
    <2>3. CASE UNCHANGED vars
        <3>1. UNCHANGED <<svc, row, panel, servers, e, view, r, renewals, used, seen, zeroed, corrected, upset>>
            BY <2>3 DEF vars, counters, history
        <3>2. Sound
            BY <2>1, <3>1 DEF InOrder
        <3>3. ShapeOK' /\ AloneOK' /\ RowsFit' /\ DisabledIsOff'
            BY <3>1, <3>2 DEF Sound, ShapeOK, Eras, AloneOK, Cycling, Viewing, Renewing, RowsFit, Alive,
                              InStep, Fits, Booked, Missed, Era, DisabledIsOff, LiveRows
        <3>4. CycleOK' /\ ViewOK' /\ RenewalOK'
            BY <3>1, <3>2 DEF Sound, CycleOK, ViewOK, RenewalOK, Counted, Cycling, Renewing, Eras, Alive, Sampled,
                              InStep, Fits, Booked
        <3> QED
            BY <3>3, <3>4 DEF Sound
    <2> QED
        BY <2>1, <2>2, <2>3
<1> QED
    BY <1>1, <1>2, PTL DEF Spec

\* Whatever the panels, the cycles, the refreshes and the renewals of a service
\* do, and in whatever order, a node is charged for the traffic of the present
\* period only, and for all of it that a sample has shown but for what the panel
\* has taken back, as long as none of the causes named in upset has come up.
THEOREM UsageChargedIsUsed == Spec => []ChargedIsUsed
<1>1. InOrder => ChargedIsUsed
    <2>1. SUFFICES ASSUME Sound, ~Renewing, NEW n \in Nodes, Alive(n)
                   PROVE  seen[n] - corrected[n] <= row[n].eff /\ row[n].eff <= used[n]
        BY DEF InOrder, ChargedIsUsed, Quiet, Alive
    <2>2. ShapeOK /\ (InStep(n) \/ Missed(n))
        BY <2>1 DEF Sound, RowsFit, Renewing, NoRenewal
    <2>3. /\ row[n].eff \in Nat /\ row[n].raw \in Nat /\ row[n].off \in Nat
          /\ seen[n] \in Nat /\ corrected[n] \in Nat /\ used[n] \in Nat /\ panel[n].raw \in Nat
        BY <2>2 DEF ShapeOK, Rows, PanelRec
    <2>4. CASE Missed(n)
        BY <2>3, <2>4 DEF Missed
    <2>5. CASE InStep(n)
        BY <2>3, <2>5 DEF InStep, Fits, Booked
    <2> QED
        BY <2>2, <2>4, <2>5
<1> QED
    BY <1>1, UsageInOrder, PTL

\* The user of a service that is used up or over is never enabled on a panel
\* that no cycle will look at: a node is noted as disabled only when it is.
THEOREM UsageEndedIsWatched == Spec => []EndedIsWatched
<1>1. InOrder => EndedIsWatched
    <2>1. SUFFICES ASSUME Sound, Over, NEW n \in LiveRows, panel[n].on PROVE Listed
        BY DEF InOrder, EndedIsWatched, Quiet
    <2>2. row[n].reason # "verified"
        BY <2>1 DEF Sound, DisabledIsOff
    <2> QED
        BY <2>1, <2>2 DEF Listed
<1> QED
    BY <1>1, UsageInOrder, PTL

-----------------------------------------------------------------------------
(* The sum of a function over a finite set.  What the fold computes is     *)
(* unfolded into a function g on the subsets of the set, and its facts are *)
(* proved by induction on their size: the least number for which one fails *)
(* does not exist.                                                         *)

\* A set of numbers has a least one.
LEMMA Least ==
    ASSUME NEW T, T \subseteq Nat, T # {}
    PROVE  \E n \in T : \A m \in T : n <= m
<1>1. PICK R : R = OpToRel(<, Nat)
    OBVIOUS
<1>2. IsWellFoundedOn(R, Nat)
    BY <1>1, NatLessThanWellFounded
<1>3. PICK n \in T : \A m \in T : <<m, n>> \notin R
    BY <1>2, WFMin
<1>4. \A m \in T : ~(m < n)
    BY <1>1, <1>3 DEF OpToRel
<1> QED
    BY <1>4

\* Induction on the size of the subsets of a finite set.
LEMMA SmallerFirst ==
    ASSUME NEW S, IsFiniteSet(S), NEW X,
           \A s \in SUBSET S : (\A t \in SUBSET s : t # s => t \in X) => s \in X
    PROVE  \A s \in SUBSET S : s \in X
<1> DEFINE T == {Cardinality(s) : s \in (SUBSET S) \ X}
<1>1. SUFFICES ASSUME \E s \in SUBSET S : s \notin X PROVE FALSE
    OBVIOUS
<1>2. \A s \in SUBSET S : IsFiniteSet(s) /\ Cardinality(s) \in Nat
    BY FS_Subset, FS_CardinalityType
<1>3. T \subseteq Nat
    BY <1>2
<1> T # {}
    BY <1>1
<1>4. PICK n \in T : \A m \in T : n <= m
    BY <1>3, Least
<1>5. PICK s \in (SUBSET S) \ X : Cardinality(s) = n
    BY <1>4
<1>6. ASSUME NEW t \in SUBSET s, t # s, t \notin X
      PROVE  FALSE
    <2>1. Cardinality(t) < n
        BY <1>2, <1>5, <1>6, FS_Subset, FS_CardinalityType
    <2>2. Cardinality(t) \in T
        BY <1>6
    <2>3. n <= Cardinality(t)
        BY <1>4, <2>2
    <2>4. n \in Nat /\ Cardinality(t) \in Nat
        BY <1>2, <1>3, <1>4
    <2> QED
        BY <2>1, <2>3, <2>4
<1>7. s \in X
    BY <1>6
<1> QED
    BY <1>5, <1>7

Pick(s) == CHOOSE x \in s : TRUE
Body(f, g, s) == IF s = {} THEN 0 ELSE f[Pick(s)] + g[s \ {Pick(s)}]

\* g is the fold, on every subset of S.
Folds(f, S, g) == g = [s \in SUBSET S |-> Body(f, g, s)]

\* g is the fold on the subsets of at most n elements.
FoldsUpTo(f, S, n, g) == \A s \in SUBSET S : Cardinality(s) <= n => g[s] = Body(f, g, s)

LEMMA FoldsFurther ==
    ASSUME NEW S, IsFiniteSet(S), NEW f, NEW n \in Nat, NEW g, FoldsUpTo(f, S, n, g)
    PROVE  \E h : FoldsUpTo(f, S, n + 1, h)
<1>1. PICK h : h = [s \in SUBSET S |-> Body(f, g, s)]
    OBVIOUS
<1>2. ASSUME NEW s \in SUBSET S, Cardinality(s) <= n + 1
      PROVE  h[s] = Body(f, h, s)
    <2>1. CASE s = {}
        BY <1>1, <2>1 DEF Body
    <2>2. CASE s # {}
        <3>1. PICK x : x = Pick(s)
            OBVIOUS
        <3>2. x \in s
            BY <2>2, <3>1 DEF Pick
        <3>3. s \ {x} \in SUBSET S /\ Cardinality(s \ {x}) <= n
            BY <1>2, <3>2, FS_Subset, FS_RemoveElement, FS_CardinalityType
        <3>4. h[s \ {x}] = g[s \ {x}]
            BY <1>1, <3>3 DEF FoldsUpTo
        <3> QED
            BY <1>1, <2>2, <3>1, <3>4 DEF Body
    <2> QED
        BY <2>1, <2>2
<1> QED
    BY <1>2 DEF FoldsUpTo

LEMMA FoldExists ==
    ASSUME NEW S, IsFiniteSet(S), NEW f
    PROVE  \E g : Folds(f, S, g)
<1> DEFINE T == {n \in Nat : ~ \E g : FoldsUpTo(f, S, n, g)}
<1>1. T = {}
    <2>1. SUFFICES ASSUME T # {} PROVE FALSE
        OBVIOUS
    <2>2. PICK n \in T : \A m \in T : n <= m
        BY <2>1, Least
    <2>3. n # 0
        <3>1. PICK g : g = [s \in SUBSET S |-> 0]
            OBVIOUS
        <3>2. ASSUME NEW s \in SUBSET S, Cardinality(s) <= 0
              PROVE  s = {}
            BY <3>2, FS_Subset, FS_CardinalityType, FS_EmptySet
        <3>3. FoldsUpTo(f, S, 0, g)
            BY <3>1, <3>2 DEF FoldsUpTo, Body
        <3> QED
            BY <2>2, <3>3
    <2>4. n - 1 \in Nat /\ n - 1 \notin T
        BY <2>2, <2>3
    <2>5. PICK g : FoldsUpTo(f, S, n - 1, g)
        BY <2>4
    <2>6. \E h : FoldsUpTo(f, S, (n - 1) + 1, h)
        BY <2>4, <2>5, FoldsFurther
    <2>7. (n - 1) + 1 = n
        BY <2>2
    <2> QED
        BY <2>2, <2>6, <2>7
<1>2. Cardinality(S) \in Nat
    BY FS_CardinalityType
<1>3. PICK g : FoldsUpTo(f, S, Cardinality(S), g)
    BY <1>1, <1>2
<1>4. \A s \in SUBSET S : Cardinality(s) <= Cardinality(S)
    BY FS_Subset
<1>5. \A s \in SUBSET S : g[s] = Body(f, g, s)
    BY <1>3, <1>4 DEF FoldsUpTo
<1>6. PICK h : h = [s \in SUBSET S |-> g[s]]
    OBVIOUS
<1>7. ASSUME NEW s \in SUBSET S
      PROVE  g[s] = Body(f, h, s)
    <2>1. CASE s = {}
        BY <1>5, <2>1 DEF Body
    <2>2. CASE s # {}
        BY <1>5, <1>6, <2>2 DEF Body
    <2> QED
        BY <2>1, <2>2
<1> QED
    BY <1>6, <1>7 DEF Folds

\* g adds f up over every subset of S, whichever element is taken first.
SumsUp(f, S, g) ==
    \A s \in SUBSET S :
        /\ g[s] \in Nat
        /\ s = {} => g[s] = 0
        /\ \A x \in s : g[s] = f[x] + g[s \ {x}]

LEMMA FoldsSumUp ==
    ASSUME NEW S, IsFiniteSet(S), NEW f, \A x \in S : f[x] \in Nat, NEW g, Folds(f, S, g)
    PROVE  SumsUp(f, S, g)
<1> DEFINE X == {s \in SUBSET S : /\ g[s] \in Nat
                                  /\ s = {} => g[s] = 0
                                  /\ \A x \in s : g[s] = f[x] + g[s \ {x}]}
<1>1. \A s \in SUBSET S : g[s] = Body(f, g, s)
    BY DEF Folds
<1>2. ASSUME NEW s \in SUBSET S, \A t \in SUBSET s : t # s => t \in X
      PROVE  s \in X
    <2>1. CASE s = {}
        BY <1>1, <2>1 DEF Body
    <2>2. CASE s # {}
        <3>1. PICK y : y = Pick(s)
            OBVIOUS
        <3>2. y \in s
            BY <2>2, <3>1 DEF Pick
        <3>3. g[s] = f[y] + g[s \ {y}]
            BY <1>1, <2>2, <3>1 DEF Body
        <3>4. ASSUME NEW x \in s
              PROVE  s \ {x} \in X
            <4>1. s \ {x} \in SUBSET s /\ s \ {x} # s
                OBVIOUS
            <4> QED
                BY <1>2, <4>1
        <3>5. f[y] \in Nat /\ g[s \ {y}] \in Nat
            BY <3>2, <3>4
        <3>6. ASSUME NEW x \in s, x # y
              PROVE  g[s] = f[x] + g[s \ {x}]
            <4>1. s \ {x} \in X /\ s \ {y} \in X
                BY <3>2, <3>4
            <4>2. y \in s \ {x} /\ x \in s \ {y}
                BY <3>2, <3>6
            <4>3. g[s \ {y}] = f[x] + g[(s \ {y}) \ {x}]
                BY <4>1, <4>2
            <4>4. g[s \ {x}] = f[y] + g[(s \ {x}) \ {y}]
                BY <4>1, <4>2
            <4>5. (s \ {x}) \ {y} = (s \ {y}) \ {x}
                OBVIOUS
            <4>6. (s \ {x}) \ {y} \in X
                <5>1. (s \ {x}) \ {y} \in SUBSET s /\ (s \ {x}) \ {y} # s
                    BY <3>6
                <5> QED
                    BY <1>2, <5>1
            <4>7. f[x] \in Nat /\ f[y] \in Nat /\ g[(s \ {x}) \ {y}] \in Nat
                BY <3>2, <4>6
            <4>8. PICK u : u = g[(s \ {x}) \ {y}]
                OBVIOUS
            <4>9. g[s \ {y}] = f[x] + u /\ g[s \ {x}] = f[y] + u /\ u \in Nat
                BY <4>3, <4>4, <4>5, <4>7, <4>8
            <4> HIDE DEF X
            <4> QED
                BY <3>3, <4>7, <4>9
        <3>7. g[s] \in Nat
            BY <3>3, <3>5
        <3>8. \A x \in s : g[s] = f[x] + g[s \ {x}]
            BY <3>3, <3>6
        <3> QED
            BY <2>2, <3>7, <3>8
    <2> QED
        BY <2>1, <2>2
<1> HIDE DEF X
<1>3. \A s \in SUBSET S : s \in X
    BY <1>2, SmallerFirst
<1> QED
    BY <1>3 DEF X, SumsUp

\* A larger set and larger terms do not make a smaller sum.
LEMMA SumsGrow ==
    ASSUME NEW T, IsFiniteSet(T), NEW S \in SUBSET T, NEW f, NEW g, NEW h, NEW k,
           SumsUp(f, S, g), SumsUp(h, T, k),
           \A x \in T : h[x] \in Nat, \A x \in S : f[x] \in Nat /\ f[x] <= h[x]
    PROVE  g[S] <= k[T]
<1> DEFINE X == {s \in SUBSET T : g[s \cap S] <= k[s]}
<1>1. ASSUME NEW s \in SUBSET T, \A t \in SUBSET s : t # s => t \in X
      PROVE  s \in X
    <2>1. CASE s = {}
        <3>1. s \cap S = {} /\ {} \in SUBSET S /\ {} \in SUBSET T
            BY <2>1
        <3>2. g[s \cap S] = 0 /\ k[s] = 0
            BY <2>1, <3>1 DEF SumsUp
        <3> QED
            BY <3>2
    <2>2. ASSUME NEW x \in s
          PROVE  s \in X
        <3>1. s \ {x} \in X
            BY <1>1, s \ {x} \in SUBSET s, s \ {x} # s
        <3>2. g[(s \ {x}) \cap S] <= k[s \ {x}]
            BY <3>1
        <3>3. k[s] = h[x] + k[s \ {x}] /\ k[s \ {x}] \in Nat /\ h[x] \in Nat
            BY s \ {x} \in SUBSET T DEF SumsUp
        <3>4. CASE x \in S
            <4>1. x \in s \cap S /\ s \cap S \in SUBSET S /\ (s \cap S) \ {x} \in SUBSET S
                BY <3>4
            <4>2. g[s \cap S] = f[x] + g[(s \cap S) \ {x}] /\ g[(s \cap S) \ {x}] \in Nat
                BY <4>1 DEF SumsUp
            <4>3. (s \cap S) \ {x} = (s \ {x}) \cap S
                OBVIOUS
            <4>4. f[x] \in Nat /\ f[x] <= h[x]
                BY <3>4
            <4>5. g[s \cap S] <= k[s]
                <5>1. PICK u, v : u = g[(s \ {x}) \cap S] /\ v = k[s \ {x}]
                    OBVIOUS
                <5>2. u \in Nat /\ v \in Nat /\ u <= v /\ g[s \cap S] = f[x] + u /\ k[s] = h[x] + v
                    BY <3>2, <3>3, <4>2, <4>3, <5>1
                <5> HIDE DEF X
                <5> QED
                    BY <3>3, <4>4, <5>2
            <4> QED
                BY <4>5
        <3>5. CASE x \notin S
            <4>1. (s \ {x}) \cap S = s \cap S /\ s \cap S \in SUBSET S
                BY <3>5
            <4>2. g[s \cap S] \in Nat
                BY <4>1 DEF SumsUp
            <4>3. g[s \cap S] <= k[s]
                <5>1. PICK u, v : u = g[s \cap S] /\ v = k[s \ {x}]
                    OBVIOUS
                <5>2. u \in Nat /\ v \in Nat /\ u <= v /\ k[s] = h[x] + v
                    BY <3>2, <3>3, <4>1, <4>2, <5>1
                <5> HIDE DEF X
                <5> QED
                    BY <3>3, <5>1, <5>2
            <4> QED
                BY <4>3
        <3> QED
            BY <3>4, <3>5
    <2> QED
        BY <2>1, <2>2
<1> HIDE DEF X
<1>2. T \in X
    BY <1>1, SmallerFirst
<1>3. T \cap S = S
    OBVIOUS
<1> QED
    BY <1>2, <1>3 DEF X

LEMMA TotalFolds ==
    ASSUME NEW S, IsFiniteSet(S), NEW f, DOMAIN f = S
    PROVE  \E g : Folds(f, S, g) /\ Total(f) = g[S]
<1>1. Total(f) = (CHOOSE g : g = [s \in SUBSET S |->
                     IF s = {} THEN 0
                     ELSE f[CHOOSE x \in s : TRUE] + g[s \ {CHOOSE x \in s : TRUE}]])[S]
    BY DEF Total, MapThenSumSet, MapThenFoldSet
<1>2. PICK h : h = CHOOSE g : g = [s \in SUBSET S |->
                     IF s = {} THEN 0
                     ELSE f[CHOOSE x \in s : TRUE] + g[s \ {CHOOSE x \in s : TRUE}]]
    OBVIOUS
<1>3. \E g : g = [s \in SUBSET S |->
                     IF s = {} THEN 0
                     ELSE f[CHOOSE x \in s : TRUE] + g[s \ {CHOOSE x \in s : TRUE}]]
    <2>1. PICK g : Folds(f, S, g)
        BY FoldExists
    <2>2. g = [s \in SUBSET S |->
                 IF s = {} THEN 0
                 ELSE f[CHOOSE x \in s : TRUE] + g[s \ {CHOOSE x \in s : TRUE}]]
        BY <2>1 DEF Folds, Body, Pick
    <2> QED
        BY <2>2
<1>4. h = [s \in SUBSET S |->
              IF s = {} THEN 0
              ELSE f[CHOOSE x \in s : TRUE] + h[s \ {CHOOSE x \in s : TRUE}]]
    BY <1>2, <1>3
<1>5. Folds(f, S, h)
    BY <1>4 DEF Folds, Body, Pick
<1> QED
    BY <1>1, <1>2, <1>5

LEMMA TotalSumsUp ==
    ASSUME NEW S, IsFiniteSet(S), NEW f, DOMAIN f = S, \A x \in S : f[x] \in Nat
    PROVE  \E g : SumsUp(f, S, g) /\ Total(f) = g[S]
BY TotalFolds, FoldsSumUp

LEMMA TotalIsNat ==
    ASSUME NEW S, IsFiniteSet(S), NEW f, DOMAIN f = S, \A x \in S : f[x] \in Nat
    PROVE  Total(f) \in Nat
<1>1. PICK g : SumsUp(f, S, g) /\ Total(f) = g[S]
    BY TotalSumsUp
<1> QED
    BY <1>1 DEF SumsUp

LEMMA TotalGrows ==
    ASSUME NEW T, IsFiniteSet(T), NEW S \in SUBSET T, NEW f, NEW h, DOMAIN f = S, DOMAIN h = T,
           \A x \in T : h[x] \in Nat, \A x \in S : f[x] \in Nat /\ f[x] <= h[x]
    PROVE  Total(f) <= Total(h)
<1>1. IsFiniteSet(S)
    BY FS_Subset
<1>2. PICK g : SumsUp(f, S, g) /\ Total(f) = g[S]
    BY <1>1, TotalSumsUp
<1>3. PICK k : SumsUp(h, T, k) /\ Total(h) = k[T]
    BY TotalSumsUp
<1> QED
    BY <1>2, <1>3, SumsGrow

\* One term taken out.
LEMMA TotalTakes ==
    ASSUME NEW T, IsFiniteSet(T), NEW x \in T, NEW h, NEW f, DOMAIN h = T, DOMAIN f = T \ {x},
           \A y \in T : h[y] \in Nat, \A y \in T \ {x} : f[y] = h[y]
    PROVE  Total(h) = h[x] + Total(f)
<1> DEFINE S == T \ {x}
<1>1. IsFiniteSet(S) /\ S \in SUBSET T /\ S \in SUBSET S
    BY FS_Subset
<1>2. \A y \in S : h[y] \in Nat /\ f[y] \in Nat /\ f[y] = h[y] /\ f[y] <= h[y] /\ h[y] <= f[y]
    OBVIOUS
<1>3. PICK g : SumsUp(f, S, g) /\ Total(f) = g[S]
    BY <1>1, <1>2, TotalSumsUp
<1>4. PICK k : SumsUp(h, T, k) /\ Total(h) = k[T]
    BY TotalSumsUp
<1>5. SumsUp(h, S, k)
    BY <1>1, <1>4 DEF SumsUp
<1>6. g[S] <= k[S]
    BY <1>1, <1>2, <1>3, <1>5, SumsGrow
<1>7. k[S] <= g[S]
    BY <1>1, <1>2, <1>3, <1>5, SumsGrow
<1>8. k[T] = h[x] + k[S] /\ k[S] \in Nat
    BY <1>1, <1>4 DEF SumsUp
<1>9. g[S] \in Nat
    BY <1>1, <1>3 DEF SumsUp
<1> QED
    BY <1>3, <1>4, <1>6, <1>7, <1>8, <1>9

\* Terms that are zero may be left out.
LEMMA TotalLeaves ==
    ASSUME NEW T, IsFiniteSet(T), NEW S \in SUBSET T, NEW f, NEW h, DOMAIN f = S, DOMAIN h = T,
           \A x \in T : h[x] \in Nat, \A x \in S : f[x] = h[x], \A x \in T \ S : h[x] = 0
    PROVE  Total(h) = Total(f)
<1>1. IsFiniteSet(S) /\ S \in SUBSET S
    BY FS_Subset
<1>2. \A y \in S : h[y] \in Nat /\ f[y] \in Nat /\ f[y] <= h[y] /\ h[y] <= f[y]
    OBVIOUS
<1>3. PICK g : SumsUp(f, S, g) /\ Total(f) = g[S]
    BY <1>1, <1>2, TotalSumsUp
<1>4. PICK k : SumsUp(h, T, k) /\ Total(h) = k[T]
    BY TotalSumsUp
<1>5. SumsUp(h, S, k)
    BY <1>1, <1>4 DEF SumsUp
<1>6. g[S] <= k[S] /\ k[S] <= g[S]
    BY <1>1, <1>2, <1>3, <1>5, SumsGrow
<1>7. g[S] \in Nat /\ k[S] \in Nat
    BY <1>1, <1>3, <1>5 DEF SumsUp
<1> DEFINE X == {s \in SUBSET T : k[s] = k[s \cap S]}
<1>8. ASSUME NEW s \in SUBSET T, \A t \in SUBSET s : t # s => t \in X
      PROVE  s \in X
    <2>1. CASE s \subseteq S
        <3>1. s \cap S = s
            BY <2>1
        <3> QED
            BY <3>1
    <2>2. ASSUME NEW x \in s \ S
          PROVE  s \in X
        <3>1. s \ {x} \in X
            BY <1>8, s \ {x} \in SUBSET s, s \ {x} # s
        <3>2. (s \ {x}) \cap S = s \cap S
            OBVIOUS
        <3>3. k[s] = h[x] + k[s \ {x}] /\ k[s \ {x}] \in Nat /\ h[x] = 0
            BY <1>4, s \ {x} \in SUBSET T DEF SumsUp
        <3>4. k[s] = k[s \ {x}]
            BY <3>3
        <3> QED
            BY <3>1, <3>2, <3>4
    <2> QED
        BY <2>1, <2>2
<1> HIDE DEF X
<1>9. T \in X
    BY <1>8, SmallerFirst
<1>10. k[T] = k[S]
    <2>1. T \cap S = S
        OBVIOUS
    <2> QED
        BY <1>9, <2>1 DEF X
<1> QED
    BY <1>3, <1>4, <1>6, <1>7, <1>10

-----------------------------------------------------------------------------
(***************************************************************************)
(* The types, whatever overlaps or has upset the books.                    *)
(***************************************************************************)
Panels == [raw : Nat, plan : Periods, on : BOOLEAN]
CycleRec == [pc : CyclePCs \ {"idle"}, snap : Services, map : [Nodes -> Rows],
             n : Nodes \cup {None}, got : Readings, todo : SUBSET Nodes, total : Nat,
             live : BOOLEAN, ended : BOOLEAN]
RenewalRec == [pc : RenewPCs \ {"idle"}, period : Periods, old : Services, all : SUBSET Nodes,
               todo : SUBSET Nodes, failed : SUBSET Nodes, on : BOOLEAN]

BooksTyped == svc \in Services /\ row \in [Nodes -> Rows]
PanelsTyped ==
    /\ panel \in [Nodes -> Panels] /\ past \in SUBSET Periods /\ servers \in SUBSET Nodes
    /\ used \in [Nodes -> Nat] /\ seen \in [Nodes -> Nat] /\ corrected \in [Nodes -> Nat]
    /\ zeroed \in SUBSET Nodes
\* The node a cycle is busy with is one.
CycleTyped ==
    Cycling => /\ e \in CycleRec
               /\ e.pc \in {"thaw", "again", "record", "note", "offNote"} => e.n \in Nodes
ViewTyped == DOMAIN view \subseteq Nodes /\ \A n \in DOMAIN view : view[n] \in Readings
RenewalTyped == Renewing => r \in RenewalRec
FrozenTyped == frozen \in SUBSET Nodes /\ asked \in SUBSET Nodes
CountersTyped ==
    /\ renewals \in 0..MaxRenewals /\ uses \in 0..MaxUse /\ resets \in 0..MaxResets
    /\ refreshes \in 0..MaxRefreshes /\ crashes \in 0..MaxCrashes
    /\ upset \in SUBSET Causes

Typing ==
    /\ BooksTyped /\ PanelsTyped /\ CycleTyped /\ ViewTyped /\ RenewalTyped /\ CountersTyped

LEMMA TypingIsTypeOK == Typing /\ FrozenTyped => TypeOK
<1>1. ASSUME CycleTyped, Cycling
      PROVE  /\ e.pc \in CyclePCs \ {"idle"} /\ e.snap \in Services /\ e.map \in [Nodes -> Rows]
             /\ e.todo \in SUBSET Nodes /\ e.n \in Nodes \cup {None} /\ e.got \in Readings
             /\ e.total \in Nat /\ e.live \in BOOLEAN /\ e.ended \in BOOLEAN
    BY <1>1 DEF CycleTyped, CycleRec
<1>2. ASSUME RenewalTyped, Renewing
      PROVE  /\ r.pc \in RenewPCs \ {"idle"} /\ r.period \in Periods /\ r.old \in Services
             /\ {r.all, r.todo, r.failed} \subseteq SUBSET Nodes /\ r.on \in BOOLEAN
    BY <1>2 DEF RenewalTyped, RenewalRec
<1> QED
    BY <1>1, <1>2, Zenon
    DEF Typing, FrozenTyped, TypeOK, BooksTyped, PanelsTyped, ViewTyped, CountersTyped, Panels

LEMMA InitTyped == Init => Typing /\ FrozenTyped
<1> SUFFICES ASSUME Init PROVE Typing /\ FrozenTyped
    OBVIOUS
<1>0. renewals = 0 /\ 0 \in Periods
    BY UsageAssumption DEF Init, Periods
<1>1. svc \in Services
    BY <1>0 DEF Init, Services
<1>2. FreshRow \in Rows
    BY DEF FreshRow, Rows, RowStates, Reasons
<1>3. [raw |-> 0, plan |-> 0, on |-> TRUE] \in Panels
    BY <1>0 DEF Panels
<1>4. CountersTyped
    BY UsageAssumption DEF Init, CountersTyped
<1> QED
    BY <1>1, <1>2, <1>3, <1>4
    DEF Init, Typing, FrozenTyped, BooksTyped, PanelsTyped, CycleTyped, ViewTyped, RenewalTyped, Cycling,
        Renewing, NoView

\* What an action has by where the cycle or the renewal is.
LEMMA CycleAt ==
    ASSUME Typing, e.pc # "idle"
    PROVE  /\ Cycling /\ e \in CycleRec
           /\ e.pc \in {"thaw", "again", "record", "note", "offNote"} => e.n \in Nodes
BY DEF Typing, CycleTyped, Cycling, NoCycle

LEMMA RenewalAt ==
    ASSUME Typing, r.pc # "idle"
    PROVE  Renewing /\ r \in RenewalRec
BY DEF Typing, RenewalTyped, Renewing, NoRenewal

LEMMA SampleTyped ==
    ASSUME BooksTyped, PanelsTyped, NEW g, DOMAIN g \subseteq Nodes,
           \A n \in DOMAIN g : g[n] \in Readings, Sample(g, row)
    PROVE  row' \in [Nodes -> Rows] /\ seen' \in [Nodes -> Nat] /\ zeroed' \in SUBSET Nodes
<1>1. \A n \in DOMAIN g : g[n].raw \in Nat /\ g[n].used \in Nat
    BY DEF Readings
<1>2. \A n \in DOMAIN g : Recorded(row[n], g[n].raw) \in Rows
    BY <1>1, RecordedTyped DEF BooksTyped
<1> QED
    BY <1>1, <1>2 DEF Sample, BooksTyped, PanelsTyped

LEMMA ReadingTyped ==
    ASSUME PanelsTyped, NEW n \in Nodes
    PROVE  Reading(n) \in Readings
BY DEF PanelsTyped, Panels, Reading, Readings

\* The steps of a cycle on its own record.
LEMMA CycleMoves ==
    ASSUME e \in CycleRec, NEW pc \in CyclePCs \ {"idle"}, Goto(pc)
    PROVE  e' \in CycleRec /\ e'.pc = pc /\ e'.n = e.n
<1>1. PICK x \in CycleRec : x = e
    OBVIOUS
<1>2. /\ [x EXCEPT !.pc = pc] \in CycleRec
      /\ [x EXCEPT !.pc = pc].pc = pc /\ [x EXCEPT !.pc = pc].n = x.n
    BY DEF CycleRec
<1> QED
    BY <1>1, <1>2 DEF Goto

LEMMA CycleAdds ==
    ASSUME e \in CycleRec, NEW n, NEW x \in Nat, Adds(n, x)
    PROVE  e' \in CycleRec /\ e'.pc = "visit"
<1>1. PICK y \in CycleRec : y = e
    OBVIOUS
<1>2. y.todo \ {n} \in SUBSET Nodes /\ y.total + x \in Nat
    BY DEF CycleRec
<1>4. PICK todo \in SUBSET Nodes, total \in Nat : todo = y.todo \ {n} /\ total = y.total + x
    BY <1>2
<1>3. /\ [y EXCEPT !.pc = "visit", !.todo = todo, !.total = total] \in CycleRec
      /\ [y EXCEPT !.pc = "visit", !.todo = todo, !.total = total].pc = "visit"
    BY DEF CycleRec, CyclePCs
<1> QED
    BY <1>1, <1>3, <1>4 DEF Adds

\* The panels are patched, switched and counted.
LEMMA RenewedTyped ==
    ASSUME PanelsTyped, NEW n \in Nodes, NEW plan \in Periods, Renewed(n, plan)
    PROVE  panel' \in [Nodes -> Panels]
<1>1. PICK x \in Panels : x = panel[n]
    BY DEF PanelsTyped
<1>2. [x EXCEPT !.raw = 0, !.plan = plan] \in Panels
    BY DEF Panels
<1> QED
    BY <1>1, <1>2 DEF Renewed, PanelsTyped

LEMMA SwitchedTyped ==
    ASSUME PanelsTyped, NEW n \in Nodes, NEW b \in BOOLEAN, panel' = [panel EXCEPT ![n].on = b]
    PROVE  panel' \in [Nodes -> Panels]
<1>1. PICK x \in Panels : x = panel[n]
    BY DEF PanelsTyped
<1>2. [x EXCEPT !.on = b] \in Panels
    BY DEF Panels
<1> QED
    BY <1>1, <1>2 DEF PanelsTyped

LEMMA CountedTyped ==
    ASSUME PanelsTyped, NEW n \in Nodes, NEW raw \in Nat, panel' = [panel EXCEPT ![n].raw = raw]
    PROVE  panel' \in [Nodes -> Panels]
<1>1. PICK x \in Panels : x = panel[n]
    BY DEF PanelsTyped
<1>2. [x EXCEPT !.raw = raw] \in Panels
    BY DEF Panels
<1> QED
    BY <1>1, <1>2 DEF PanelsTyped

LEMMA ZeroTyped ==
    ASSUME PanelsTyped, NEW n \in Nodes, Zero(n)
    PROVE  used' \in [Nodes -> Nat] /\ zeroed' \in SUBSET Nodes
BY DEF Zero, PanelsTyped

LEMMA PatchedTyped ==
    ASSUME PanelsTyped, NEW n \in Nodes, Job \in Periods, Patched(n)
    PROVE  /\ panel' \in [Nodes -> Panels]
           /\ used' \in [Nodes -> Nat] /\ seen' \in [Nodes -> Nat] /\ corrected' \in [Nodes -> Nat]
           /\ zeroed' \in SUBSET Nodes
<1>1. panel' \in [Nodes -> Panels]
    BY RenewedTyped DEF Patched
<1> QED
    BY <1>1 DEF Patched, PanelsTyped

\* The books of the service.
LEMMA BookedTyped ==
    ASSUME svc \in Services, NEW usage \in Nat, NEW limit \in Periods, NEW end \in Periods,
           NEW b \in BOOLEAN
    PROVE  /\ [svc EXCEPT !.usage = usage] \in Services
           /\ [svc EXCEPT !.active = b] \in Services
           /\ [svc EXCEPT !.usage = usage, !.limit = limit, !.active = b] \in Services
           /\ [svc EXCEPT !.usage = usage, !.limit = limit, !.end = end] \in Services
           /\ [usage |-> usage, limit |-> limit, end |-> end, active |-> b] \in Services
<1>1. PICK x \in Services : x = svc
    OBVIOUS
<1>2. /\ [x EXCEPT !.usage = usage] \in Services
      /\ [x EXCEPT !.active = b] \in Services
      /\ [x EXCEPT !.usage = usage, !.limit = limit, !.active = b] \in Services
      /\ [x EXCEPT !.usage = usage, !.limit = limit, !.end = end] \in Services
      /\ [usage |-> usage, limit |-> limit, end |-> end, active |-> b] \in Services
    BY DEF Services
<1> QED
    BY <1>1, <1>2

-----------------------------------------------------------------------------
(* One lemma for every kind of step.                                       *)

LEMMA PanelStepTyped ==
    ASSUME Typing, \/ \E n \in Nodes : Use(n) \/ CounterReset(n)
                   \/ \E n \in Nodes, back \in Corrections : CounterCorrected(n, back)
                   \/ \E p \in Periods : EndPasses(p)
    PROVE  Typing'
<1>0. BooksTyped /\ PanelsTyped /\ CycleTyped /\ ViewTyped /\ RenewalTyped /\ CountersTyped
    BY DEF Typing
<1>1. UNCHANGED booksOnly /\ UNCHANGED <<servers, seen, renewals, refreshes, crashes>>
    BY DEF Use, CounterReset, CounterCorrected, EndPasses, counters, history, booksOnly
<1>2. BooksTyped' /\ CycleTyped' /\ ViewTyped' /\ RenewalTyped'
    BY <1>0, <1>1
    DEF BooksTyped, CycleTyped, ViewTyped, RenewalTyped, booksOnly, Cycling, Renewing
<1>3. PanelsTyped'
    <2>1. ASSUME NEW n \in Nodes, Use(n)
          PROVE  PanelsTyped'
        <3>1. PICK raw \in Nat : raw = panel[n].raw + Burst
            BY <1>0, UsageAssumption DEF PanelsTyped, Panels
        <3>2. panel' = [panel EXCEPT ![n].raw = raw]
            BY <2>1, <3>1 DEF Use
        <3>3. panel' \in [Nodes -> Panels]
            BY <1>0, <3>2, CountedTyped
        <3>4. UNCHANGED <<past, zeroed, corrected>> /\ used' \in [Nodes -> Nat]
            BY <1>0, <2>1, UsageAssumption DEF Use, PanelsTyped
        <3> QED
            BY <1>0, <1>1, <3>3, <3>4 DEF PanelsTyped
    <2>2. ASSUME NEW n \in Nodes, CounterReset(n)
          PROVE  PanelsTyped'
        <3>1. panel' \in [Nodes -> Panels]
            BY <1>0, <2>2, CountedTyped DEF CounterReset
        <3>2. UNCHANGED <<past, corrected>> /\ used' \in [Nodes -> Nat] /\ zeroed' \in SUBSET Nodes
            BY <1>0, <2>2, ZeroTyped DEF CounterReset
        <3> QED
            BY <1>0, <1>1, <3>1, <3>2 DEF PanelsTyped
    <2>3. ASSUME NEW p \in Periods, EndPasses(p)
          PROVE  PanelsTyped'
        <3>1. UNCHANGED <<panel, used, zeroed, corrected>> /\ past' = past \cup {p}
            BY <2>3 DEF EndPasses, history
        <3> QED
            BY <1>0, <1>1, <3>1 DEF PanelsTyped
    <2>4. ASSUME NEW n \in Nodes, NEW back \in Corrections, CounterCorrected(n, back)
          PROVE  PanelsTyped'
        <3>1. PICK raw \in Nat : raw = panel[n].raw - back /\ back \in Nat
            BY <1>0, <2>4, UsageAssumption DEF CounterCorrected, PanelsTyped, Panels
        <3>2. panel' = [panel EXCEPT ![n].raw = raw]
            BY <2>4, <3>1 DEF CounterCorrected
        <3>3. panel' \in [Nodes -> Panels]
            BY <1>0, <3>2, CountedTyped
        <3>4. UNCHANGED <<past, used, zeroed>> /\ corrected' \in [Nodes -> Nat]
            BY <1>0, <2>4, <3>1 DEF CounterCorrected, PanelsTyped
        <3> QED
            BY <1>0, <1>1, <3>3, <3>4 DEF PanelsTyped
    <2> QED
        BY <2>1, <2>2, <2>3, <2>4
<1>4. CountersTyped'
    BY <1>0, UsageAssumption
    DEF CountersTyped, Use, CounterReset, CounterCorrected, EndPasses, counters, Causes, booksOnly
<1> QED
    BY <1>2, <1>3, <1>4 DEF Typing

LEMMA RemoveServerTyped ==
    ASSUME Typing, NEW n \in Nodes, RemoveServer(n)
    PROVE  Typing'
<1>0. BooksTyped /\ PanelsTyped /\ CycleTyped /\ ViewTyped /\ RenewalTyped /\ CountersTyped
    BY DEF Typing
<1>1. row' \in [Nodes -> Rows]
    BY <1>0, RowFlagged DEF RemoveServer, BooksTyped, Marked
<1>2. BooksTyped' /\ PanelsTyped'
    BY <1>0, <1>1 DEF RemoveServer, BooksTyped, PanelsTyped, history
<1>3. CycleTyped' /\ ViewTyped' /\ RenewalTyped' /\ CountersTyped'
    BY <1>0
    DEF RemoveServer, CycleTyped, ViewTyped, RenewalTyped, CountersTyped, Cycling, Renewing, counters
<1> QED
    BY <1>2, <1>3 DEF Typing

\* A cycle leaves the panels' side alone but for what it says of it.
LEMMA CycleSideTyped ==
    ASSUME Typing, UNCHANGED <<r, cycleOnly, corrected>>, BooksTyped',
           panel' \in [Nodes -> Panels], used' \in [Nodes -> Nat], seen' \in [Nodes -> Nat],
           zeroed' \in SUBSET Nodes, upset' \in SUBSET Causes, CycleTyped'
    PROVE  Typing'
BY DEF Typing, cycleOnly, PanelsTyped, ViewTyped, RenewalTyped, CountersTyped, counters, Renewing

\* A step of a cycle that touches no panel.
LEMMA CycleQuietTyped ==
    ASSUME Typing, UNCHANGED <<panel, r, cycleOnly, history>>, BooksTyped', upset' \in SUBSET Causes,
           CycleTyped'
    PROVE  Typing'
<1>1. PanelsTyped
    BY DEF Typing
<1> QED
    BY <1>1, CycleSideTyped DEF PanelsTyped, history

LEMMA CycleStartTyped ==
    ASSUME Typing, CycleStart
    PROVE  Typing'
<1>1. Nothing \in Readings
    BY UsageAssumption DEF Nothing, Readings, Periods
<1>2. PICK x : x = [pc |-> "read", snap |-> svc, map |-> row, n |-> None, got |-> Nothing,
                    todo |-> {}, total |-> 0, live |-> FALSE, ended |-> FALSE]
    OBVIOUS
<1>3. x \in CycleRec /\ x.pc = "read"
    BY <1>1, <1>2 DEF Typing, BooksTyped, CycleRec, CyclePCs
<1>4. e' = x
    BY <1>2 DEF CycleStart
<1>5. CycleTyped'
    BY <1>3, <1>4 DEF CycleTyped
<1>6. BooksTyped' /\ upset' \in SUBSET Causes
    BY DEF CycleStart, Meet, Typing, BooksTyped, CountersTyped, Causes
<1> QED
    BY <1>5, <1>6, CycleQuietTyped DEF CycleStart

LEMMA CycleReadTyped ==
    ASSUME Typing, CycleRead
    PROVE  Typing'
<1>0. BooksTyped /\ upset \in SUBSET Causes /\ e.pc = "read"
    BY DEF CycleRead, Typing, CountersTyped
<1>1. PICK y \in CycleRec : y = e
    BY <1>0, CycleAt
<1>2. PICK todo \in SUBSET Nodes : todo = {n \in Nodes : row[n].state # "gone"}
    OBVIOUS
<1>3. e' = [y EXCEPT !.pc = "visit", !.map = row, !.todo = todo]
    BY <1>1, <1>2 DEF CycleRead
<1>4. /\ [y EXCEPT !.pc = "visit", !.map = row, !.todo = todo] \in CycleRec
      /\ [y EXCEPT !.pc = "visit", !.map = row, !.todo = todo].pc = "visit"
    BY <1>0 DEF BooksTyped, CycleRec, CyclePCs
<1>5. CycleTyped'
    BY <1>3, <1>4 DEF CycleTyped
<1>6. BooksTyped' /\ upset' \in SUBSET Causes
    BY <1>0 DEF CycleRead, BooksTyped
<1> QED
    BY <1>5, <1>6, CycleQuietTyped DEF CycleRead

LEMMA VisitTyped ==
    ASSUME Typing, NEW n \in Nodes, VisitStep(n)
    PROVE  Typing'
<1>0. e.pc = "visit" /\ BooksTyped /\ PanelsTyped /\ upset \in SUBSET Causes
    BY DEF VisitStep, VisitDeleted, VisitRemoved, VisitAnswers, VisitFails, Typing, CountersTyped
<1>1. e \in CycleRec
    BY <1>0, CycleAt
<1>2. PICK x \in Rows : x = e.map[n]
    BY <1>1 DEF CycleRec
<1>3. x.eff \in Nat /\ x.active \in BOOLEAN
    BY DEF Rows
<1>4. UNCHANGED <<svc, panel, r, cycleOnly, history, upset>>
    BY DEF VisitStep, VisitDeleted, VisitRemoved, VisitAnswers, VisitFails
<1>5. row' \in [Nodes -> Rows]
    <2>1. CASE VisitDeleted(n) \/ VisitAnswers(n)
        BY <1>0, <2>1 DEF VisitDeleted, VisitAnswers, BooksTyped
    <2>2. CASE VisitRemoved(n)
        BY <1>0, <2>2, RowFlagged DEF VisitRemoved, BooksTyped, Marked
    <2>3. CASE VisitFails(n)
        <3>1. PICK reason \in Reasons, b \in BOOLEAN :
                  row' = [row EXCEPT ![n].reason = reason, ![n].active = b]
            BY <1>2, <1>3, <2>3 DEF VisitFails, Reasons
        <3> QED
            BY <1>0, <3>1, RowNoted DEF BooksTyped, Marked
    <2> QED
        BY <2>1, <2>2, <2>3 DEF VisitStep
<1>6. CycleTyped'
    <2>1. CASE VisitAnswers(n)
        <3>1. PICK y \in CycleRec, g \in Readings, pc \in {"thaw", "record"} :
                  y = e /\ e' = [y EXCEPT !.n = n, !.got = g, !.pc = pc]
            BY <1>0, <1>1, <2>1, ReadingTyped DEF VisitAnswers
        <3>2. /\ [y EXCEPT !.n = n, !.got = g, !.pc = pc] \in CycleRec
              /\ [y EXCEPT !.n = n, !.got = g, !.pc = pc].n = n
            BY DEF CycleRec, CyclePCs
        <3> QED
            BY <3>1, <3>2 DEF CycleTyped
    <2>2. CASE Adds(n, x.eff)
        BY <1>1, <1>3, <2>2, CycleAdds DEF CycleTyped
    <2> QED
        BY <1>2, <2>1, <2>2 DEF VisitStep, VisitDeleted, VisitRemoved, VisitFails
<1> QED
    BY <1>0, <1>4, <1>5, <1>6, CycleQuietTyped DEF BooksTyped

LEMMA ThawStepsTyped ==
    ASSUME Typing, Thaw \/ ThawFails \/ ThawAnswers
    PROVE  Typing'
<1>0. e.pc \in {"thaw", "again"} /\ BooksTyped /\ PanelsTyped /\ upset \in SUBSET Causes
    BY DEF Thaw, ThawFails, ThawAnswers, Typing, CountersTyped
<1>1. e \in CycleRec
    BY <1>0, CycleAt
<1>2. PICK n \in Nodes : n = e.n
    BY <1>0, CycleAt
<1>3. PICK end \in Periods : end = e.snap.end
    BY <1>1 DEF CycleRec, Services
<1>4. UNCHANGED <<svc, r, cycleOnly, upset, seen, corrected>>
    BY DEF Thaw, ThawFails, ThawAnswers, history
<1>5. BooksTyped'
    <2>1. CASE Thaw \/ ThawAnswers
        BY <1>0, <1>4, <2>1 DEF Thaw, ThawAnswers, BooksTyped
    <2>2. CASE ThawFails
        BY <1>0, <1>2, <1>4, <2>2, RowNoted DEF ThawFails, Reasons, BooksTyped, Marked
    <2> QED
        BY <2>1, <2>2
<1>6. panel' \in [Nodes -> Panels] /\ used' \in [Nodes -> Nat] /\ zeroed' \in SUBSET Nodes
    <2>1. CASE UNCHANGED <<panel, used, zeroed>>
        BY <1>0, <2>1 DEF PanelsTyped
    <2>2. CASE Renewed(n, end) /\ Zero(n)
        BY <1>0, <2>2, RenewedTyped, ZeroTyped
    <2> QED
        BY <1>2, <1>3, <2>1, <2>2 DEF Thaw, ThawFails, ThawAnswers, history
<1>7. CycleTyped'
    <2>1. CASE Thaw
        BY <1>1, <1>2, <2>1, CycleMoves DEF Thaw, CycleTyped, CyclePCs
    <2>2. CASE ThawFails
        <3>1. PICK x \in Rows : x = e.map[n]
            BY <1>1 DEF CycleRec
        <3>2. x.eff \in Nat
            BY DEF Rows
        <3> QED
            BY <1>1, <1>2, <2>2, <3>1, <3>2, CycleAdds DEF ThawFails, CycleTyped
    <2>3. CASE ThawAnswers
        <3>1. PICK y \in CycleRec, g \in Readings : y = e /\ e' = [y EXCEPT !.pc = "record", !.got = g]
            BY <1>0, <1>1, <1>2, <2>3, ReadingTyped DEF ThawAnswers
        <3>2. /\ [y EXCEPT !.pc = "record", !.got = g] \in CycleRec
              /\ [y EXCEPT !.pc = "record", !.got = g].n = y.n
            BY DEF CycleRec, CyclePCs
        <3> QED
            BY <1>2, <3>1, <3>2 DEF CycleTyped
    <2> QED
        BY <2>1, <2>2, <2>3
<1>8. seen' \in [Nodes -> Nat]
    BY <1>0, <1>4 DEF PanelsTyped
<1> QED
    BY <1>0, <1>4, <1>5, <1>6, <1>7, <1>8, CycleSideTyped

LEMMA RecordTyped ==
    ASSUME Typing, Record
    PROVE  Typing'
<1>0. e.pc = "record" /\ BooksTyped /\ PanelsTyped /\ upset \in SUBSET Causes
    BY DEF Record, Typing, CountersTyped
<1>1. e \in CycleRec
    BY <1>0, CycleAt
<1>2. PICK n \in Nodes, got \in Readings : n = e.n /\ got = e.got
    BY <1>0, <1>1, CycleAt DEF CycleRec
<1>3. PICK g : g = [m \in {n} |-> got]
    OBVIOUS
<1>4. DOMAIN g \subseteq Nodes /\ \A m \in DOMAIN g : g[m] \in Readings
    BY <1>3
<1>5. Sample(g, row) /\ UNCHANGED <<svc, panel, r, cycleOnly, used, corrected>> /\ upset' \in SUBSET Causes
    BY <1>0, <1>2, <1>3 DEF Record, Causes
<1>6. row' \in [Nodes -> Rows] /\ seen' \in [Nodes -> Nat] /\ zeroed' \in SUBSET Nodes
    BY <1>0, <1>4, <1>5, SampleTyped
<1>7. CycleTyped'
    <2>0. PICK nil \in Readings : nil = Nothing
        <3>1. Nothing \in Readings
            BY UsageAssumption DEF Nothing, Readings, Periods
        <3> QED
            BY <3>1
    <2>1. PICK y \in CycleRec, b \in BOOLEAN, v \in Nat :
              /\ y = e
              /\ e' = [y EXCEPT !.pc = "note", !.got = nil, !.live = TRUE, !.ended = b, !.total = @ + v]
        <3>1. PICK b \in BOOLEAN : b = (e.ended \/ e.got.plan \in past)
            OBVIOUS
        <3>2. PICK z \in Rows : z = row'[n]
            BY <1>6
        <3>3. z.eff \in Nat /\ got.raw \in Nat
            BY DEF Rows, Readings
        <3>4. PICK v \in Nat : v = IF row[e.n].state = "gone" THEN e.got.raw ELSE row'[e.n].eff
            BY <1>2, <3>2, <3>3
        <3>5. e' = [e EXCEPT !.pc = "note", !.got = nil, !.live = TRUE, !.ended = b, !.total = @ + v]
            BY <2>0, <3>1, <3>4 DEF Record
        <3> QED
            BY <1>1, <3>5
    <2>2. y.total + v \in Nat
        BY DEF CycleRec
    <2>3. PICK total \in Nat : total = y.total + v
        BY <2>2
    <2>4. /\ [y EXCEPT !.pc = "note", !.got = nil, !.live = TRUE, !.ended = b, !.total = total] \in CycleRec
          /\ [y EXCEPT !.pc = "note", !.got = nil, !.live = TRUE, !.ended = b, !.total = total].n = y.n
        BY DEF CycleRec, CyclePCs
    <2> QED
        BY <1>2, <2>1, <2>3, <2>4 DEF CycleTyped
<1>8. BooksTyped' /\ panel' \in [Nodes -> Panels] /\ used' \in [Nodes -> Nat]
    BY <1>0, <1>5, <1>6 DEF BooksTyped, PanelsTyped
<1> QED
    BY <1>5, <1>6, <1>7, <1>8, CycleSideTyped

LEMMA NoteTyped ==
    ASSUME Typing, Note \/ OffNote
    PROVE  Typing'
<1>0. e.pc \in {"note", "offNote"} /\ BooksTyped /\ upset \in SUBSET Causes
    BY DEF Note, OffNote, Typing, CountersTyped
<1>1. e \in CycleRec
    BY <1>0, CycleAt
<1>2. PICK n \in Nodes : n = e.n
    BY <1>0, CycleAt
<1>3. UNCHANGED <<svc, panel, r, cycleOnly, history>> /\ upset' \in SUBSET Causes
    BY <1>0 DEF Note, OffNote, Forgets, Causes
<1>4. row' \in [Nodes -> Rows]
    BY <1>0, <1>2, RowFlagged, RowNoted DEF Note, OffNote, Reasons, BooksTyped, Marked
<1>5. CycleTyped'
    <2>1. PICK y \in CycleRec, pc \in {"visit", "off"} :
              y = e /\ e' = [y EXCEPT !.pc = pc, !.n = None, !.todo = @ \ {n}]
        BY <1>1, <1>2 DEF Note, OffNote
    <2>2. y.todo \ {n} \in SUBSET Nodes
        BY DEF CycleRec
    <2>3. PICK todo \in SUBSET Nodes : todo = y.todo \ {n}
        BY <2>2
    <2>4. /\ [y EXCEPT !.pc = pc, !.n = None, !.todo = todo] \in CycleRec
          /\ [y EXCEPT !.pc = pc, !.n = None, !.todo = todo].pc = pc
        BY DEF CycleRec, CyclePCs
    <2> QED
        BY <2>1, <2>3, <2>4 DEF CycleTyped
<1> QED
    BY <1>0, <1>3, <1>4, <1>5, CycleQuietTyped DEF BooksTyped

LEMMA CloseTyped ==
    ASSUME Typing, CloseUnconfirmed \/ CloseInOrder \/ OffEnd
    PROVE  Typing'
<1>0. e.pc \in {"visit", "off"} /\ BooksTyped /\ upset \in SUBSET Causes
    BY DEF CloseUnconfirmed, CloseInOrder, OffEnd, Typing, CountersTyped
<1>1. e \in CycleRec
    BY <1>0, CycleAt
<1>2. PICK snap \in Services, total \in Nat : snap = e.snap /\ total = e.total
    BY <1>1 DEF CycleRec
<1>3. snap.usage \in Nat /\ snap.limit \in Periods
    BY DEF Services
<1>4. Max({total, snap.usage}) \in Nat
    BY <1>3, MaxOfTwo
<1>5. svc' \in Services
    <2>1. svc \in Services
        BY <1>0 DEF BooksTyped
    <2>2. CASE CloseUnconfirmed
        <3>1. PICK usage \in Nat : usage = Max({total, snap.usage})
            BY <1>4
        <3>2. svc' = [svc EXCEPT !.usage = usage]
            BY <1>2, <2>2, <3>1 DEF CloseUnconfirmed
        <3> QED
            BY <1>3, <2>1, <3>2, BookedTyped
    <2>3. CASE CloseInOrder \/ OffEnd
        <3>1. PICK limit \in Periods, b \in BOOLEAN :
                  svc' = [svc EXCEPT !.usage = total, !.limit = limit, !.active = b]
            BY <1>2, <1>3, <2>3 DEF CloseInOrder, OffEnd, Books
        <3> QED
            BY <2>1, <3>1, BookedTyped
    <2> QED
        BY <2>2, <2>3
<1>6. /\ UNCHANGED <<row, panel, r, cycleOnly, history, upset>> /\ e' = NoCycle
    BY DEF CloseUnconfirmed, CloseInOrder, OffEnd
<1> QED
    BY <1>0, <1>5, <1>6, CycleQuietTyped DEF BooksTyped, CycleTyped, Cycling

LEMMA OffStepsTyped ==
    ASSUME Typing, CloseUsedUp \/ \E n \in Nodes : Off(n) \/ OffFails(n)
    PROVE  Typing'
<1>0. /\ e.pc \in {"visit", "off"} /\ BooksTyped /\ PanelsTyped
      /\ upset \in SUBSET Causes /\ upset' \in SUBSET Causes
    BY DEF CloseUsedUp, Off, OffFails, Typing, CountersTyped, Forgets, Causes
<1>1. PICK y \in CycleRec : y = e
    BY <1>0, CycleAt
<1>2. UNCHANGED <<svc, r, cycleOnly, history>>
    BY DEF CloseUsedUp, Off, OffFails
<1>3. CASE CloseUsedUp
    <2>1. PICK todo \in SUBSET Nodes : todo = {n \in Nodes : e.map[n].state = "live"}
        OBVIOUS
    <2>2. e' = [y EXCEPT !.pc = "off", !.todo = todo]
        BY <1>1, <1>3, <2>1 DEF CloseUsedUp
    <2>3. /\ [y EXCEPT !.pc = "off", !.todo = todo] \in CycleRec
          /\ [y EXCEPT !.pc = "off", !.todo = todo].pc = "off"
        BY DEF CycleRec, CyclePCs
    <2> QED
        BY <1>0, <1>3, <2>2, <2>3, CycleQuietTyped DEF CloseUsedUp, BooksTyped, CycleTyped
<1>4. ASSUME NEW n \in Nodes, Off(n)
      PROVE  Typing'
    <2>1. panel' \in [Nodes -> Panels]
        BY <1>0, <1>4, SwitchedTyped DEF Off
    <2>2. e' = [y EXCEPT !.pc = "offNote", !.n = n]
        BY <1>1, <1>4 DEF Off
    <2>3. /\ [y EXCEPT !.pc = "offNote", !.n = n] \in CycleRec
          /\ [y EXCEPT !.pc = "offNote", !.n = n].n = n
        BY DEF CycleRec, CyclePCs
    <2>4. CycleTyped' /\ BooksTyped'
        BY <1>0, <1>4, <2>2, <2>3 DEF Off, CycleTyped, BooksTyped
    <2>5. used' \in [Nodes -> Nat] /\ seen' \in [Nodes -> Nat] /\ zeroed' \in SUBSET Nodes
        BY <1>0, <1>2 DEF PanelsTyped, history
    <2> QED
        BY <1>0, <1>2, <2>1, <2>4, <2>5, CycleSideTyped DEF history
<1>5. ASSUME NEW n \in Nodes, OffFails(n)
      PROVE  Typing'
    <2>1. panel' \in [Nodes -> Panels]
        BY <1>0, <1>5, SwitchedTyped DEF OffFails, PanelsTyped
    <2>2. PICK todo : todo = y.todo \ {n}
        OBVIOUS
    <2>3. todo \in SUBSET Nodes
        BY <2>2 DEF CycleRec
    <2>4. e' = [y EXCEPT !.todo = todo]
        BY <1>1, <1>5, <2>2 DEF OffFails
    <2>5. /\ [y EXCEPT !.todo = todo] \in CycleRec
          /\ [y EXCEPT !.todo = todo].pc = y.pc
        BY <2>3 DEF CycleRec, CyclePCs
    <2>6. CycleTyped'
        BY <1>1, <1>5, <2>4, <2>5 DEF OffFails, CycleTyped
    <2>7. BooksTyped'
        BY <1>0, <1>5, RowNoted DEF OffFails, Reasons, BooksTyped, Marked
    <2>8. used' \in [Nodes -> Nat] /\ seen' \in [Nodes -> Nat] /\ zeroed' \in SUBSET Nodes
        BY <1>0, <1>2 DEF PanelsTyped, history
    <2> QED
        BY <1>0, <1>2, <2>1, <2>6, <2>7, <2>8, CycleSideTyped DEF history
<1> QED
    BY <1>3, <1>4, <1>5

LEMMA CrashTyped ==
    ASSUME Typing, Crash
    PROVE  Typing'
<1>1. /\ UNCHANGED <<svc, row, panel, past, servers, r, renewals, uses, resets, refreshes, used,
                     seen, zeroed, corrected, upset>>
      /\ e' = NoCycle /\ view' = NoView /\ crashes < MaxCrashes /\ crashes' = crashes + 1
    BY DEF Crash, history
<1>2. CycleTyped' /\ ViewTyped'
    BY <1>1 DEF CycleTyped, ViewTyped, Cycling, NoView
<1>3. CountersTyped'
    BY <1>1, UsageAssumption DEF Typing, CountersTyped
<1> QED
    BY <1>1, <1>2, <1>3 DEF Typing, BooksTyped, PanelsTyped, RenewalTyped, Renewing

LEMMA RefreshReadTyped ==
    ASSUME Typing, NEW S \in SUBSET Nodes, RefreshRead(S)
    PROVE  Typing'
<1>1. /\ UNCHANGED <<svc, row, panel, past, servers, e, r, renewals, uses, resets, crashes, used,
                     seen, zeroed, corrected>>
      /\ view' = [n \in S |-> Reading(n)] /\ refreshes < MaxRefreshes /\ refreshes' = refreshes + 1
    BY DEF RefreshRead, history
<1>2. ViewTyped'
    BY <1>1, ReadingTyped DEF Typing, ViewTyped
<1>3. upset' \in SUBSET Causes
    BY DEF RefreshRead, Meet, Typing, CountersTyped, Causes
<1>4. CountersTyped'
    BY <1>1, <1>3, UsageAssumption DEF Typing, CountersTyped
<1> QED
    BY <1>1, <1>2, <1>4
    DEF Typing, BooksTyped, PanelsTyped, CycleTyped, Cycling, RenewalTyped, Renewing

LEMMA ShownTyped ==
    ASSUME Typing, NEW a \in DOMAIN view, NEW rows \in [Nodes -> Rows], Shown(a, rows)
    PROVE  svc' \in Services
<1>0. BooksTyped /\ ViewTyped /\ DOMAIN view \subseteq Nodes
    BY DEF Typing, ViewTyped
<1>1. PICK h : h = [n \in DOMAIN view |-> rows[n].eff]
    OBVIOUS
<1>2. \A n \in DOMAIN view : h[n] \in Nat
    BY <1>0, <1>1 DEF Rows
<1>3. IsFiniteSet(DOMAIN view)
    BY <1>0, UsageAssumption, FS_Subset
<1>4. Total(h) \in Nat
    BY <1>1, <1>2, <1>3, TotalIsNat
<1>5. PICK active \in {view[a].on, svc.active} :
          svc' = [usage |-> IF DOMAIN view = asked THEN Total(h) ELSE svc.usage,
                  limit |-> view[a].plan, end |-> view[a].plan, active |-> active]
    BY <1>1 DEF Shown
<1>6. PICK plan \in Periods : plan = view[a].plan
    BY <1>0 DEF ViewTyped, Readings
<1>7. PICK usage \in Nat : usage = IF DOMAIN view = asked THEN Total(h) ELSE svc.usage
    BY <1>0, <1>4 DEF BooksTyped, Services
<1>8. active \in BOOLEAN
    BY <1>0, <1>5 DEF BooksTyped, ViewTyped, Readings, Services
<1>9. svc' = [usage |-> usage, limit |-> plan, end |-> plan, active |-> active]
    BY <1>5, <1>6, <1>7
<1> QED
    BY <1>0, <1>8, <1>9, BookedTyped DEF BooksTyped

\* What is read has been written, and the cause, if any, is a known one.
LEMMA ViewedTyped ==
    ASSUME Typing, Viewed, UNCHANGED viewOnly, BooksTyped', seen' \in [Nodes -> Nat],
           zeroed' \in SUBSET Nodes
    PROVE  Typing'
<1>1. ViewTyped'
    BY DEF Viewed, ViewTyped, NoView
<1>2. upset' \in SUBSET Causes
    BY DEF Viewed, Typing, CountersTyped, Causes
<1> QED
    BY <1>1, <1>2
    DEF Typing, viewOnly, PanelsTyped, CycleTyped, Cycling, RenewalTyped, Renewing, CountersTyped,
        counters

LEMMA RefreshWriteTyped ==
    ASSUME Typing, RefreshWrite
    PROVE  Typing'
<1>0. BooksTyped /\ PanelsTyped /\ ViewTyped /\ DOMAIN view \subseteq Nodes
    BY DEF Typing, ViewTyped
<1>1. Sample(view, row) /\ Viewed /\ UNCHANGED viewOnly
    BY DEF RefreshWrite
<1>2. row' \in [Nodes -> Rows] /\ seen' \in [Nodes -> Nat] /\ zeroed' \in SUBSET Nodes
    BY <1>0, <1>1, SampleTyped DEF ViewTyped
<1>3. svc' \in Services
    BY <1>2, ShownTyped DEF RefreshWrite
<1> QED
    BY <1>1, <1>2, <1>3, ViewedTyped DEF BooksTyped

LEMMA RepairWriteTyped ==
    ASSUME Typing, RepairWrite
    PROVE  Typing'
<1>0. BooksTyped /\ PanelsTyped /\ ViewTyped /\ DOMAIN view \subseteq Nodes
    BY DEF Typing, ViewTyped
<1>1. Viewed /\ UNCHANGED viewOnly /\ Primary \in DOMAIN view
    BY DEF RepairWrite
<1> DEFINE known == {n \in DOMAIN view : row[n].state # "gone"}
           sampled == [n \in Nodes |-> IF n \in known THEN Recorded(row[n], view[n].raw) ELSE row[n]]
<1>2. sampled \in [Nodes -> Rows]
    <2>1. \A n \in DOMAIN view : view[n].raw \in Nat
        BY <1>0 DEF ViewTyped, Readings
    <2>2. \A n \in DOMAIN view : Recorded(row[n], view[n].raw) \in Rows
        BY <1>0, <2>1, RecordedTyped DEF BooksTyped
    <2> QED
        BY <1>0, <2>2 DEF BooksTyped
<1>3. svc' \in Services
    <2>1. Shown(Primary, sampled)
        BY DEF RepairWrite
    <2> HIDE DEF sampled
    <2> QED
        BY <1>1, <1>2, <2>1, ShownTyped
<1>4. PICK rows \in [Nodes -> Rows] :
        /\ rows = sampled
        /\ row' = [n \in Nodes |-> IF n \in known THEN Repaired(rows[n], view[n].on) ELSE rows[n]]
    BY <1>2 DEF RepairWrite
<1>5. \A n \in known : Repaired(rows[n], view[n].on) \in Rows
    <2>1. SUFFICES ASSUME NEW n \in known PROVE Repaired(rows[n], view[n].on) \in Rows
        OBVIOUS
    <2>2. PICK x \in Rows, b \in BOOLEAN : x = rows[n] /\ b = view[n].on
        BY <1>0 DEF ViewTyped, Readings
    <2> QED
        BY <2>2, RepairedCounts DEF Repaired
<1>6. row' \in [Nodes -> Rows]
    BY <1>4, <1>5
<1>7. seen' \in [Nodes -> Nat] /\ zeroed' \in SUBSET Nodes
    <2>1. \A n \in DOMAIN view : view[n].used \in Nat
        BY <1>0 DEF ViewTyped, Readings
    <2> QED
        BY <1>0, <2>1 DEF RepairWrite, PanelsTyped
<1> QED
    BY <1>1, <1>3, <1>6, <1>7, ViewedTyped DEF BooksTyped

LEMMA ClearFrozenTyped ==
    ASSUME Typing, ClearFrozen
    PROVE  Typing'
<1>0. BooksTyped
    BY DEF Typing
<1>1. PICK held \in SUBSET Nodes :
          /\ row' = [n \in Nodes |-> IF n \in held THEN [row[n] EXCEPT !.state = "gone"] ELSE row[n]]
          /\ svc' = [svc EXCEPT !.usage = Max({0, @ - Total([n \in held |-> row[n].eff])})]
    BY DEF ClearFrozen
<1>2. row' \in [Nodes -> Rows]
    <2>1. ASSUME NEW n \in Nodes
          PROVE  [row[n] EXCEPT !.state = "gone"] \in Rows
        <3>1. PICK x \in Rows : x = row[n]
            BY <1>0 DEF BooksTyped
        <3>2. [x EXCEPT !.state = "gone"] \in Rows
            BY DEF Rows, RowStates
        <3> QED
            BY <3>1, <3>2
    <2> QED
        BY <1>0, <1>1, <2>1 DEF BooksTyped
<1>3. svc' \in Services
    <2>1. PICK h : h = [n \in held |-> row[n].eff]
        OBVIOUS
    <2>2. IsFiniteSet(held) /\ \A n \in held : h[n] \in Nat
        BY <1>0, <2>1, UsageAssumption, FS_Subset DEF BooksTyped, Rows
    <2>3. PICK t \in Nat : t = Total(h)
        BY <2>1, <2>2, TotalIsNat
    <2>4. PICK u \in Nat : u = svc.usage
        BY <1>0 DEF BooksTyped, Services
    <2>5. PICK usage \in Nat : usage = Max({0, u - t})
        BY MaxOfTwo
    <2>6. svc' = [svc EXCEPT !.usage = usage]
        BY <1>1, <2>1, <2>3, <2>4, <2>5
    <2>7. 0 \in Periods /\ TRUE \in BOOLEAN
        BY UsageAssumption DEF Periods
    <2> QED
        BY <1>0, <2>6, <2>7, BookedTyped DEF BooksTyped
<1>4. /\ UNCHANGED <<panel, past, servers, e, view, r, counters, history>>
      /\ upset' \in SUBSET Causes
    BY DEF ClearFrozen, Typing, CountersTyped, Causes
<1> QED
    BY <1>2, <1>3, <1>4
    DEF Typing, BooksTyped, PanelsTyped, CycleTyped, Cycling, ViewTyped, RenewalTyped, Renewing,
        CountersTyped, counters, history

\* A renewal leaves the cycle and the refresh alone.
LEMMA RenewalSideTyped ==
    ASSUME Typing, UNCHANGED renewOnly, BooksTyped', renewals' \in 0..MaxRenewals,
           panel' \in [Nodes -> Panels], used' \in [Nodes -> Nat], seen' \in [Nodes -> Nat],
           corrected' \in [Nodes -> Nat], zeroed' \in SUBSET Nodes, upset' \in SUBSET Causes, RenewalTyped'
    PROVE  Typing'
BY DEF Typing, renewOnly, PanelsTyped, ViewTyped, CycleTyped, CountersTyped, Cycling

LEMMA RenewStartTyped ==
    ASSUME Typing, RenewStart
    PROVE  Typing'
<1>0. BooksTyped /\ PanelsTyped /\ UNCHANGED <<row, panel, renewOnly, history>>
    BY DEF RenewStart, Typing
<1>1. PICK p \in Periods : p = renewals + 1
    BY UsageAssumption DEF RenewStart, Typing, CountersTyped, Periods
<1>2. svc' \in Services
    <2>1. svc' = [svc EXCEPT !.usage = 0, !.limit = p, !.end = p]
        BY <1>1 DEF RenewStart
    <2> QED
        BY <1>0, <2>1, BookedTyped DEF BooksTyped
<1>3. RenewalTyped'
    <2>1. PICK all \in SUBSET Nodes, todo \in SUBSET Nodes : all = Targets /\ todo = Targets \ {Primary}
        BY <1>0 DEF Targets, PanelsTyped
    <2>2. r' = [pc |-> "primary", period |-> p, old |-> svc, all |-> all, todo |-> todo,
                failed |-> {}, on |-> FALSE]
        BY <1>1, <2>1 DEF RenewStart
    <2> QED
        BY <1>0, <2>2 DEF RenewalTyped, RenewalRec, RenewPCs, BooksTyped
<1>4. renewals' \in 0..MaxRenewals /\ upset' \in SUBSET Causes
    BY UsageAssumption DEF RenewStart, Meet, Typing, CountersTyped, Causes
<1> QED
    BY <1>0, <1>2, <1>3, <1>4, RenewalSideTyped DEF BooksTyped, PanelsTyped, history

LEMMA PrimaryTyped ==
    ASSUME Typing, RenewPrimary \/ RenewPrimaryFails
    PROVE  Typing'
<1>0. /\ r.pc = "primary" /\ BooksTyped /\ PanelsTyped /\ Primary \in Nodes
      /\ upset \in SUBSET Causes /\ renewals \in 0..MaxRenewals
    BY UsageAssumption DEF RenewPrimary, RenewPrimaryFails, Typing, CountersTyped
<1>1. PICK y \in RenewalRec : y = r
    BY <1>0, RenewalAt
<1>2. Job \in Periods /\ y.old \in Services
    BY <1>1 DEF Job, RenewalRec
<1>3. UNCHANGED <<row, renewOnly, renewals>>
    BY DEF RenewPrimary, RenewPrimaryFails
<1>4. /\ panel' \in [Nodes -> Panels]
      /\ used' \in [Nodes -> Nat] /\ seen' \in [Nodes -> Nat] /\ corrected' \in [Nodes -> Nat]
      /\ zeroed' \in SUBSET Nodes
    <2>1. CASE Patched(Primary)
        BY <1>0, <1>2, <2>1, PatchedTyped
    <2>2. CASE UNCHANGED <<panel, history>>
        BY <1>0, <2>2 DEF PanelsTyped, history
    <2> QED
        BY <2>1, <2>2 DEF RenewPrimary, RenewPrimaryFails
<1>5. svc' \in Services /\ upset' \in SUBSET Causes
    BY <1>0, <1>1, <1>2 DEF RenewPrimary, RenewPrimaryFails, BooksTyped, Causes
<1>6. RenewalTyped'
    <2>1. CASE RenewPrimary
        <3>1. r' = [y EXCEPT !.pc = "nodes"]
            BY <1>1, <2>1 DEF RenewPrimary, Step
        <3>2. [y EXCEPT !.pc = "nodes"] \in RenewalRec
            BY DEF RenewalRec, RenewPCs
        <3> QED
            BY <3>1, <3>2 DEF RenewalTyped
    <2>2. CASE RenewPrimaryFails
        BY <2>2 DEF RenewPrimaryFails, RenewalTyped, Renewing
    <2> QED
        BY <2>1, <2>2
<1> QED
    BY <1>0, <1>3, <1>4, <1>5, <1>6, RenewalSideTyped DEF BooksTyped

LEMMA NodesTyped ==
    ASSUME Typing, \E n \in Nodes : RenewNode(n) \/ RenewNodeFails(n)
    PROVE  Typing'
<1>0. /\ r.pc = "nodes" /\ BooksTyped /\ PanelsTyped
      /\ upset \in SUBSET Causes /\ renewals \in 0..MaxRenewals
    BY DEF RenewNode, RenewNodeFails, Typing, CountersTyped
<1>1. PICK y \in RenewalRec : y = r
    BY <1>0, RenewalAt
<1>2. Job \in Periods
    BY <1>1 DEF Job, RenewalRec
<1>3. PICK n \in Nodes : RenewNode(n) \/ RenewNodeFails(n)
    OBVIOUS
<1>4. UNCHANGED <<svc, row, renewOnly, renewals, upset>>
    BY <1>3 DEF RenewNode, RenewNodeFails
<1>5. /\ panel' \in [Nodes -> Panels]
      /\ used' \in [Nodes -> Nat] /\ seen' \in [Nodes -> Nat] /\ corrected' \in [Nodes -> Nat]
      /\ zeroed' \in SUBSET Nodes
    <2>1. CASE Patched(n)
        BY <1>0, <1>2, <2>1, PatchedTyped
    <2>2. CASE UNCHANGED <<panel, history>>
        BY <1>0, <2>2 DEF PanelsTyped, history
    <2> QED
        BY <1>3, <2>1, <2>2 DEF RenewNode, RenewNodeFails
<1>6. RenewalTyped'
    <2>1. y.todo \ {n} \in SUBSET Nodes /\ y.failed \cup {n} \in SUBSET Nodes /\ y.failed \in SUBSET Nodes
        BY DEF RenewalRec
    <2>2. PICK todo \in SUBSET Nodes, failed \in SUBSET Nodes :
              r' = [y EXCEPT !.todo = todo, !.failed = failed]
        <3>1. CASE RenewNode(n)
            <4>1. r' = [y EXCEPT !.todo = y.todo \ {n}, !.failed = y.failed]
                BY <1>1, <3>1 DEF RenewNode, RenewalRec
            <4> QED
                BY <2>1, <4>1
        <3>2. CASE RenewNodeFails(n)
            <4>1. r' = [y EXCEPT !.todo = y.todo \ {n}, !.failed = y.failed \cup {n}]
                BY <1>1, <3>2 DEF RenewNodeFails
            <4> QED
                BY <2>1, <4>1
        <3> QED
            BY <1>3, <3>1, <3>2
    <2>3. [y EXCEPT !.todo = todo, !.failed = failed] \in RenewalRec
        BY DEF RenewalRec
    <2> QED
        BY <2>2, <2>3 DEF RenewalTyped
<1> QED
    BY <1>0, <1>4, <1>5, <1>6, RenewalSideTyped DEF BooksTyped

LEMMA ResetTyped ==
    ASSUME Typing, RenewReset
    PROVE  Typing'
<1>0. /\ r.pc = "nodes" /\ BooksTyped /\ PanelsTyped
      /\ upset \in SUBSET Causes /\ renewals \in 0..MaxRenewals
    BY DEF RenewReset, Typing, CountersTyped
<1>1. PICK y \in RenewalRec : y = r
    BY <1>0, RenewalAt
<1>2. UNCHANGED <<svc, panel, renewOnly, renewals, zeroed, upset>>
    BY DEF RenewReset
<1>3. ASSUME NEW n \in Nodes
      PROVE  AfterRenewal(n) \in Rows
    <2>1. PICK x \in Rows : x = row[n]
        BY <1>0 DEF BooksTyped
    <2>2. [x EXCEPT !.state = "gone"] \in Rows
        BY DEF Rows, RowStates
    <2>3. PICK f \in Rows : f = FreshRow
        BY DEF FreshRow, Rows, RowStates, Reasons
    <2>4. [f EXCEPT !.reason = "renew_pending", !.active = FALSE] \in Rows
        BY DEF Rows, Reasons
    <2> QED
        BY <2>1, <2>2, <2>3, <2>4 DEF AfterRenewal
<1>4. /\ row' \in [Nodes -> Rows] /\ seen' \in [Nodes -> Nat]
      /\ used' \in [Nodes -> Nat] /\ corrected' \in [Nodes -> Nat]
    BY <1>0, <1>3 DEF RenewReset, PanelsTyped
<1>5. RenewalTyped'
    <2>1. r' = [y EXCEPT !.pc = "enable", !.todo = y.all]
        BY <1>1 DEF RenewReset
    <2>2. [y EXCEPT !.pc = "enable", !.todo = y.all] \in RenewalRec
        BY DEF RenewalRec, RenewPCs
    <2> QED
        BY <2>1, <2>2 DEF RenewalTyped
<1> QED
    BY <1>0, <1>2, <1>4, <1>5, RenewalSideTyped DEF BooksTyped, PanelsTyped

LEMMA EnablesTyped ==
    ASSUME Typing, \E n \in Nodes : RenewEnable(n) \/ RenewEnableFails(n)
    PROVE  Typing'
<1>0. /\ r.pc = "enable" /\ BooksTyped /\ PanelsTyped
      /\ upset \in SUBSET Causes /\ renewals \in 0..MaxRenewals
    BY DEF RenewEnable, RenewEnableFails, Typing, CountersTyped
<1>1. PICK y \in RenewalRec : y = r
    BY <1>0, RenewalAt
<1>2. PICK n \in Nodes : RenewEnable(n) \/ RenewEnableFails(n)
    OBVIOUS
<1>3. UNCHANGED <<svc, row, renewOnly, renewals, history, upset>>
    BY <1>2 DEF RenewEnable, RenewEnableFails
<1>4. panel' \in [Nodes -> Panels]
    BY <1>0, <1>2, SwitchedTyped DEF RenewEnable, RenewEnableFails, PanelsTyped
<1>5. RenewalTyped'
    <2>1. y.todo \ {n} \in SUBSET Nodes /\ y.on \in BOOLEAN
        BY DEF RenewalRec
    <2>2. PICK todo \in SUBSET Nodes, b \in BOOLEAN : r' = [y EXCEPT !.todo = todo, !.on = b]
        <3>1. CASE RenewEnable(n)
            <4>1. PICK b \in BOOLEAN : b = (r.on \/ n = Primary)
                OBVIOUS
            <4>2. r' = [y EXCEPT !.todo = y.todo \ {n}, !.on = b]
                BY <1>1, <3>1, <4>1 DEF RenewEnable
            <4> QED
                BY <2>1, <4>2
        <3>2. CASE RenewEnableFails(n)
            <4>1. r' = [y EXCEPT !.todo = y.todo \ {n}, !.on = y.on]
                BY <1>1, <3>2 DEF RenewEnableFails, RenewalRec
            <4> QED
                BY <2>1, <4>1
        <3> QED
            BY <1>2, <3>1, <3>2
    <2>3. [y EXCEPT !.todo = todo, !.on = b] \in RenewalRec
        BY DEF RenewalRec
    <2> QED
        BY <2>2, <2>3 DEF RenewalTyped
<1>6. /\ used' \in [Nodes -> Nat] /\ seen' \in [Nodes -> Nat] /\ corrected' \in [Nodes -> Nat]
      /\ zeroed' \in SUBSET Nodes
    BY <1>0, <1>3 DEF PanelsTyped, history
<1> QED
    BY <1>0, <1>3, <1>4, <1>5, <1>6, RenewalSideTyped DEF BooksTyped

LEMMA EndsTyped ==
    ASSUME Typing, RenewEnd \/ RenewDies
    PROVE  Typing'
<1>0. BooksTyped /\ PanelsTyped /\ upset \in SUBSET Causes /\ renewals \in 0..MaxRenewals
    BY DEF Typing, CountersTyped
<1>1. CASE RenewEnd
    <2>1. PICK y \in RenewalRec : y = r
        BY <1>1, RenewalAt DEF RenewEnd
    <2>2. PICK b \in BOOLEAN : b = r.on
        BY <2>1 DEF RenewalRec
    <2>3. svc' \in Services
        BY <1>0, <1>1, <2>2, BookedTyped, UsageAssumption DEF RenewEnd, BooksTyped, Services
    <2>4. UNCHANGED <<row, panel, renewOnly, renewals, history, upset>> /\ RenewalTyped'
        BY <1>1 DEF RenewEnd, RenewalTyped, Renewing
    <2> QED
        BY <1>0, <2>3, <2>4, RenewalSideTyped DEF BooksTyped, PanelsTyped, history
<1>2. CASE RenewDies
    <2>1. /\ UNCHANGED <<svc, row, panel, past, servers, e, view, renewals, uses, resets, refreshes,
                         used, seen, zeroed, corrected>>
          /\ r' = NoRenewal /\ crashes < MaxCrashes /\ crashes' = crashes + 1
          /\ upset' = upset \cup {"died"}
        BY <1>2 DEF RenewDies, history
    <2>2. CountersTyped'
        BY <2>1, UsageAssumption DEF Typing, CountersTyped, Causes
    <2> QED
        BY <2>1, <2>2
        DEF Typing, BooksTyped, PanelsTyped, CycleTyped, Cycling, ViewTyped, RenewalTyped, Renewing
<1> QED
    BY <1>1, <1>2

LEMMA NextTyped == Typing /\ [Next]_vars => Typing'
<1>1. ASSUME Typing, UNCHANGED vars PROVE Typing'
    BY <1>1
    DEF vars, counters, history, Typing, BooksTyped, PanelsTyped, CycleTyped, Cycling, ViewTyped,
        RenewalTyped, Renewing, CountersTyped
<1> QED
    BY <1>1, PanelStepTyped, RemoveServerTyped, CycleStartTyped, CycleReadTyped, VisitTyped, ThawStepsTyped,
       RecordTyped, NoteTyped, CloseTyped, OffStepsTyped, CrashTyped, RefreshReadTyped,
       RefreshWriteTyped, RepairWriteTyped, ClearFrozenTyped, RenewStartTyped, PrimaryTyped, NodesTyped, ResetTyped, EnablesTyped,
       EndsTyped
    DEF Next, PanelStep, CycleStep, RenewStep

\* The rows that are frozen and the panels a view has asked.
LEMMA NextFrozen == Typing /\ FrozenTyped /\ [Next]_vars => FrozenTyped'
<1> SUFFICES ASSUME Typing, FrozenTyped, [Next]_vars PROVE FrozenTyped'
    OBVIOUS
<1>0. frozen \in SUBSET Nodes /\ asked \in SUBSET Nodes /\ Targets \in SUBSET Nodes
    BY DEF FrozenTyped, Typing, PanelsTyped, Targets
<1>1. CASE UNCHANGED vars
    BY <1>0, <1>1 DEF vars, FrozenTyped
<1>2. CASE PanelStep \/ \E p \in Periods : EndPasses(p)
    BY <1>0, <1>2 DEF PanelStep, Use, CounterReset, CounterCorrected, EndPasses, booksOnly, FrozenTyped
<1>3. ASSUME NEW n \in Nodes, RemoveServer(n) \/ VisitStep(n) \/ Off(n) \/ OffFails(n)
      PROVE  FrozenTyped'
    <2>1. asked' = asked
        BY <1>3 DEF RemoveServer, VisitStep, VisitDeleted, VisitRemoved, VisitAnswers, VisitFails, Off,
                    OffFails, cycleOnly
    <2>2. frozen' \in {frozen, frozen \cup {n}, frozen \ {n}}
        BY <1>3 DEF RemoveServer, VisitStep, VisitDeleted, VisitRemoved, VisitAnswers, VisitFails, Off,
                    OffFails, Held
    <2> QED
        BY <1>0, <2>1, <2>2 DEF FrozenTyped
<1>4. CASE ThawFails \/ Note
    <2>1. asked' = asked
        BY <1>4 DEF ThawFails, Note, cycleOnly
    <2>2. e.n \in Nodes
        BY <1>4, CycleAt DEF ThawFails, Note
    <2>3. frozen' \in {frozen \cup {e.n}, frozen \ {e.n}}
        BY <1>4 DEF ThawFails, Note, Held
    <2> QED
        BY <1>0, <2>1, <2>2, <2>3 DEF FrozenTyped
<1>5. CASE \/ CycleStart \/ CycleRead \/ Thaw \/ ThawAnswers \/ Record \/ CloseUnconfirmed
           \/ CloseInOrder \/ CloseUsedUp \/ OffNote \/ OffEnd
    BY <1>0, <1>5
    DEF CycleStart, CycleRead, Thaw, ThawAnswers, Record, CloseUnconfirmed, CloseInOrder, CloseUsedUp,
        OffNote, OffEnd, cycleOnly, FrozenTyped
<1>6. CASE Crash \/ (\E S \in SUBSET Nodes : RefreshRead(S)) \/ RefreshWrite \/ RepairWrite \/ ClearFrozen
    BY <1>0, <1>6 DEF Crash, RefreshRead, RefreshWrite, RepairWrite, Viewed, ClearFrozen, FrozenTyped
<1>7. CASE RenewReset
    <2>1. r.failed \subseteq Nodes
        BY <1>7, RenewalAt DEF RenewReset, RenewalRec
    <2> QED
        BY <1>0, <1>7, <2>1 DEF RenewReset, renewOnly, FrozenTyped
<1>8. CASE \/ RenewStart \/ RenewPrimary \/ RenewPrimaryFails \/ RenewEnd \/ RenewDies
           \/ \E n \in Nodes : RenewNode(n) \/ RenewNodeFails(n) \/ RenewEnable(n) \/ RenewEnableFails(n)
    BY <1>0, <1>8
    DEF RenewStart, RenewPrimary, RenewPrimaryFails, RenewEnd, RenewDies, RenewNode, RenewNodeFails,
        RenewEnable, RenewEnableFails, renewOnly, FrozenTyped
<1> QED
    BY <1>1, <1>2, <1>3, <1>4, <1>5, <1>6, <1>7, <1>8 DEF Next, CycleStep, RenewStep

LEMMA SpecTyped == Spec => []Typing
BY InitTyped, NextTyped, PTL DEF Spec

LEMMA SpecFrozen == Spec => []FrozenTyped
<1>1. Init => FrozenTyped
    BY InitTyped
<1> QED
    BY <1>1, NextFrozen, SpecTyped, PTL DEF Spec

\* Whatever overlaps, crashes or is lost, the tables hold what they are meant
\* to hold, and usage and counters are never negative.
THEOREM UsageTypeCorrect == Spec => []TypeOK
BY SpecTyped, SpecFrozen, TypingIsTypeOK, PTL

-----------------------------------------------------------------------------
(***************************************************************************)
(* Disabled for cause.  A cycle decides by a total of its own, added up    *)
(* from rows as they were at its start and samples as they come, and by    *)
(* what the panels say of the end; the property speaks of the rows and the *)
(* books as they are.  So the total must not exceed what the rows already  *)
(* asked are charged, whatever is noted in them meanwhile, and a panel     *)
(* that counts for an older period must not be asked for its end.          *)
(***************************************************************************)
Living == {n \in Nodes : Alive(n)}
Charged(rows, S) == Total([m \in S |-> rows[m].eff])
Charge(S) == Charged(row, S)

\* The books b are over or used up.
CauseIn(b) == b.end \in past \/ Charge(Living) >= Quota[b.limit]

\* Quota and end are those of one period.
OnePeriod == svc.limit = svc.end /\ (r.pc = "primary" => r.old.limit = r.old.end)

\* A panel that counts for another period is one that is known to.
PlansKnown ==
    r.pc # "nodes" =>
        \A n \in servers : Alive(n) => panel[n].plan = Era \/ row[n].reason = "renew_pending"

\* The books a verified row was disabled by: those of the last period, as long
\* as the renewal may still be taken back.
Disabling == \E n \in LiveRows : row[n].reason = "verified"
VerifiedForCause ==
    r.pc \in {"idle", "primary"} /\ Disabling => CauseIn(IF r.pc = "primary" THEN r.old ELSE svc)

\* The nodes whose usage the cycle has added up.
Asked == Living \ (IF e.pc = "note" THEN e.todo \ {e.n} ELSE e.todo)

CycleFounded ==
    Cycling =>
        /\ e.snap.limit = svc.limit /\ e.snap.end = svc.end
        /\ \A n \in Nodes : e.map[n].eff <= row[n].eff
        /\ e.pc \notin {"off", "offNote"} =>
               /\ e.todo \subseteq Living
               /\ \A n \in e.todo \cap servers :
                      panel[n].plan = svc.end \/ e.map[n].reason = "renew_pending"
               /\ e.pc \in {"thaw", "again", "record", "note"} => e.n \in e.todo
               /\ e.pc \in {"again", "record", "note"} => panel[e.n].plan = svc.end
               /\ e.pc = "record" => e.got.plan = svc.end
               /\ e.ended => svc.end \in past
               /\ e.total <= Charge(Asked)
        /\ e.pc = "read" => e.total = 0
        /\ e.pc \in {"off", "offNote"} => CauseIn(svc)

\* A refresh or a repair has seen the periods the panels still count for.
ViewFounded == \A n \in DOMAIN view : n \in Nodes /\ view[n].plan = panel[n].plan

Founded == OnePeriod /\ PlansKnown /\ VerifiedForCause /\ CycleFounded

LEMMA LivingIsFinite == Living \in SUBSET Nodes /\ \A S \in SUBSET Nodes : IsFiniteSet(S)
BY UsageAssumption, FS_Subset DEF Living

LEMMA ChargeIsNat ==
    ASSUME row \in [Nodes -> Rows], NEW S \in SUBSET Nodes
    PROVE  Charge(S) \in Nat
<1>1. PICK f : f = [m \in S |-> row[m].eff]
    OBVIOUS
<1>2. \A m \in S : f[m] \in Nat
    BY <1>1 DEF Rows
<1> QED
    BY <1>1, <1>2, LivingIsFinite, TotalIsNat DEF Charge, Charged

LEMMA ChargeTakes ==
    ASSUME NEW rows, rows \in [Nodes -> Rows], NEW S \in SUBSET Nodes, NEW n \in S
    PROVE  Charged(rows, S) = rows[n].eff + Charged(rows, S \ {n})
<1>1. PICK h, f : h = [m \in S |-> rows[m].eff] /\ f = [m \in S \ {n} |-> rows[m].eff]
    OBVIOUS
<1>2. /\ \A m \in S : h[m] \in Nat
      /\ \A m \in S \ {n} : f[m] = h[m]
      /\ h[n] = rows[n].eff
    BY <1>1 DEF Rows
<1>3. /\ DOMAIN h = S /\ DOMAIN f = S \ {n} /\ IsFiniteSet(S) /\ n \in S
      /\ \A m \in S : h[m] \in Nat
      /\ \A m \in S \ {n} : f[m] = h[m]
    BY <1>1, <1>2, LivingIsFinite
<1>4. Total(h) = h[n] + Total(f)
    BY ONLY <1>3, TotalTakes, SMT
<1> QED
    BY <1>1, <1>2, <1>4 DEF Charged

\* Rows that do not count less are not charged less.
EffsGrow == \A n \in Nodes : row[n].eff <= row'[n].eff

LEMMA ChargeGrows ==
    ASSUME row \in [Nodes -> Rows], row' \in [Nodes -> Rows], EffsGrow,
           NEW T \in SUBSET Nodes, NEW S \in SUBSET T
    PROVE  Charge(S) \in Nat /\ Charge(T)' \in Nat /\ Charge(S) <= Charge(T)'
<1>1. PICK f, h : f = [m \in S |-> row[m].eff] /\ h = [m \in T |-> row'[m].eff]
    OBVIOUS
<1>2. /\ \A m \in T : h[m] \in Nat
      /\ \A m \in S : f[m] \in Nat /\ f[m] <= h[m]
    BY <1>1 DEF Rows, EffsGrow
<1>3. Total(f) <= Total(h)
    BY <1>1, <1>2, LivingIsFinite, TotalGrows
<1>4. Total(f) \in Nat /\ Total(h) \in Nat
    BY <1>1, <1>2, LivingIsFinite, TotalIsNat
<1> QED
    BY <1>1, <1>3, <1>4 DEF Charge, Charged

\* A node asked adds what its row is charged, or less.
LEMMA ChargeAdds ==
    ASSUME row \in [Nodes -> Rows], row' \in [Nodes -> Rows], EffsGrow,
           NEW S \in SUBSET Nodes, NEW n \in Nodes \ S, NEW t \in Nat, t <= Charge(S),
           NEW x \in Nat, x <= row'[n].eff
    PROVE  t + x <= Charge(S \cup {n})'
<1>1. PICK T \in SUBSET Nodes : T = S \cup {n}
    OBVIOUS
<1>2. T \ {n} = S /\ n \in T
    BY <1>1
<1>3. PICK rows \in [Nodes -> Rows] : rows = row'
    OBVIOUS
<1>4. Charge(T)' = rows[n].eff + Charge(S)'
    <2>1. Charged(rows, T) = rows[n].eff + Charged(rows, T \ {n})
        BY <1>2, ChargeTakes
    <2> QED
        BY <1>2, <1>3, <2>1 DEF Charge
<1>5. Charge(S) \in Nat /\ Charge(S)' \in Nat /\ Charge(S) <= Charge(S)'
    BY S \in SUBSET S, ChargeGrows
<1>6. rows[n].eff \in Nat
    BY DEF Rows
<1>7. t + x <= Charge(T)'
    BY <1>3, <1>4, <1>5, <1>6
<1> QED
    BY <1>1, <1>7 DEF Charge

\* Rows that are charged nothing may be forgotten.
LEMMA ChargeLeaves ==
    ASSUME row \in [Nodes -> Rows], NEW T \in SUBSET Nodes, NEW S \in SUBSET T,
           \A n \in S : row'[n] = row[n], \A n \in T \ S : row[n].eff = 0
    PROVE  Charge(T) = Charge(S)'
<1>1. PICK h, f : h = [m \in T |-> row[m].eff] /\ f = [m \in S |-> row'[m].eff]
    OBVIOUS
<1>2. /\ \A m \in T : h[m] \in Nat
      /\ \A m \in S : f[m] = h[m]
      /\ \A m \in T \ S : h[m] = 0
    BY <1>1 DEF Rows
<1>3. Total(h) = Total(f)
    BY <1>1, <1>2, LivingIsFinite, TotalLeaves
<1> QED
    BY <1>1, <1>3 DEF Charge, Charged

\* A cause remains.
LEMMA CauseLasts ==
    ASSUME row \in [Nodes -> Rows], row' \in [Nodes -> Rows], EffsGrow, Living' = Living,
           past \subseteq past', NEW b \in Services, NEW c, c.end = b.end, c.limit = b.limit,
           CauseIn(b)
    PROVE  CauseIn(c)'
<1>1. PICK S \in SUBSET Nodes : S = Living
    BY LivingIsFinite
<1>2. Charge(S) \in Nat /\ Charge(S)' \in Nat /\ Charge(S) <= Charge(S)'
    BY S \in SUBSET S, ChargeGrows
<1>3. Quota[b.limit] \in Nat
    BY UsageAssumption DEF Services
<1>4. Charge(Living) = Charge(S) /\ Charge(Living)' = Charge(S)'
    BY <1>1 DEF Charge
<1> QED
    BY <1>2, <1>3, <1>4 DEF CauseIn

\* What a step that leaves renewal and period alone has to say of the rows.
LEMMA PeriodRest ==
    ASSUME Typing, Typing', Founded, UNCHANGED r, svc'.end = svc.end, svc'.limit = svc.limit,
           EffsGrow, Living' = Living, past \subseteq past',
           Disabling' => Disabling \/ (r.pc = "idle" /\ CauseIn(svc))
    PROVE  OnePeriod' /\ VerifiedForCause'
<1>0. row \in [Nodes -> Rows] /\ row' \in [Nodes -> Rows] /\ svc \in Services
    BY DEF Typing, BooksTyped
<1>1. OnePeriod'
    BY DEF Founded, OnePeriod
<1>2. ASSUME r.pc = "primary", Disabling'
      PROVE  CauseIn(r.old)'
    <2>1. PICK b \in Services : b = r.old
        BY <1>2, RenewalAt DEF RenewalRec
    <2>2. CauseIn(b)
        BY <1>2, <2>1 DEF Founded, VerifiedForCause
    <2>3. CauseIn(b)'
        BY <1>0, <2>2, CauseLasts
    <2> QED
        BY <2>1, <2>3 DEF CauseIn
<1>3. ASSUME r.pc = "idle", Disabling'
      PROVE  CauseIn(svc)'
    <2>1. PICK b, c : b \in Services /\ b = svc /\ c = svc'
        BY <1>0
    <2>2. CauseIn(b)
        BY <1>3, <2>1 DEF Founded, VerifiedForCause
    <2>3. CauseIn(c)'
        BY <1>0, <2>1, <2>2, CauseLasts
    <2> QED
        BY <2>1, <2>3 DEF CauseIn
<1>4. VerifiedForCause'
    BY <1>2, <1>3 DEF VerifiedForCause
<1> QED
    BY <1>1, <1>4

\* Of the panels it has to say whether the one it is about counts for the period.
LEMMA PlansRest ==
    ASSUME PlansKnown, UNCHANGED r, svc'.end = svc.end, Living' = Living, servers' \subseteq servers,
           servers \subseteq Nodes, NEW n,
           \A m \in servers' \ {n} :
               panel'[m].plan = panel[m].plan /\ row'[m].reason = row[m].reason,
           n \in servers' /\ Alive(n) => panel'[n].plan = Era \/ row'[n].reason = "renew_pending"
    PROVE  PlansKnown'
<1>1. Era' = Era
    BY DEF Era
<1>2. \A m \in servers' : Alive(m)' <=> Alive(m)
    BY DEF Living
<1> QED
    BY <1>1, <1>2 DEF PlansKnown

-----------------------------------------------------------------------------
(* The panels, the calendar and the servers.                               *)

LEMMA CycleWaits ==
    ASSUME Typing, Typing', CycleFounded, UNCHANGED e, svc' = svc, EffsGrow, Living' = Living,
           servers' \subseteq servers, past \subseteq past',
           \A m \in Nodes : panel'[m].plan = panel[m].plan
    PROVE  CycleFounded'
<1>0. /\ row \in [Nodes -> Rows] /\ row' \in [Nodes -> Rows] /\ svc \in Services
      /\ servers \subseteq Nodes
    BY DEF Typing, BooksTyped, PanelsTyped
<1>1. ASSUME Cycling
      PROVE  /\ \A n \in Nodes : e.map[n].eff \in Nat
             /\ e.total \in Nat /\ e.todo \subseteq Nodes
             /\ e.pc \in {"again", "record", "note"} => e.n \in Nodes
    BY <1>1 DEF Typing, CycleTyped, CycleRec, Rows
<1>2. ASSUME NEW n \in Nodes, Cycling
      PROVE  e.map[n].eff <= row'[n].eff
    <2>1. e.map[n].eff <= row[n].eff /\ row[n].eff <= row'[n].eff
        BY <1>2 DEF CycleFounded, EffsGrow
    <2>2. row[n].eff \in Nat /\ row'[n].eff \in Nat
        BY <1>0 DEF Rows
    <2> QED
        BY <1>1, <1>2, <2>1, <2>2
<1>3. ASSUME Cycling, e.total <= Charge(Asked)
      PROVE  e.total <= Charge(Asked)'
    <2>1. PICK S \in SUBSET Nodes : S = Asked /\ S = Asked'
        BY DEF Asked, Living
    <2>2. Charge(S) \in Nat /\ Charge(S)' \in Nat /\ Charge(S) <= Charge(S)'
        BY <1>0, S \in SUBSET S, ChargeGrows
    <2>3. e.total <= Charge(S)
        BY <1>3, <2>1
    <2>5. e.total <= Charge(S)'
        BY <1>1, <1>3, <2>2, <2>3
    <2> QED
        BY <2>1, <2>5 DEF Charge
<1>4. CauseIn(svc) => CauseIn(svc)'
    <2>1. PICK b \in Services : b = svc /\ b = svc'
        BY <1>0
    <2>2. CauseIn(b) => CauseIn(b)'
        BY <1>0, CauseLasts
    <2> QED
        BY <2>1, <2>2 DEF CauseIn
<1> QED
    BY <1>0, <1>1, <1>2, <1>3, <1>4 DEF CycleFounded, Cycling

\* Notes in a row leave what is charged as it is.
LEMMA MarkedGrows ==
    ASSUME row \in [Nodes -> Rows], NEW n, Marked(n)
    PROVE  EffsGrow /\ Living' = Living
<1>1. \A m \in Nodes : row[m].eff \in Nat
    BY DEF Rows
<1> QED
    BY <1>1 DEF Marked, EffsGrow, Living, Alive

LEMMA RowsKept ==
    ASSUME row \in [Nodes -> Rows], UNCHANGED row
    PROVE  EffsGrow /\ Living' = Living /\ (Disabling' <=> Disabling)
<1>1. \A m \in Nodes : row[m].eff \in Nat
    BY DEF Rows
<1> QED
    BY <1>1 DEF EffsGrow, Living, Alive, Disabling, LiveRows

LEMMA SampleGrows ==
    ASSUME row \in [Nodes -> Rows], NEW g, Sample(g, row),
           \A n \in DOMAIN g : g[n] \in Readings
    PROVE  /\ EffsGrow /\ Living' = Living /\ (Disabling' <=> Disabling)
           /\ \A m \in Nodes : row'[m].state = row[m].state /\ row'[m].reason = row[m].reason
<1>1. ASSUME NEW m \in Nodes
      PROVE  /\ row[m].eff <= row'[m].eff
             /\ row'[m].state = row[m].state /\ row'[m].reason = row[m].reason
    <2>1. PICK x \in Rows : x = row[m]
        OBVIOUS
    <2>2. x.eff \in Nat
        BY DEF Rows
    <2>3. CASE m \in DOMAIN g /\ row[m].state # "gone"
        <3>1. PICK raw \in Nat : raw = g[m].raw
            BY <2>3 DEF Readings
        <3>2. row'[m] = Recorded(x, raw)
            BY <2>1, <2>3, <3>1 DEF Sample
        <3> QED
            BY <2>1, <3>2, RecordedTyped
    <2>4. CASE ~(m \in DOMAIN g /\ row[m].state # "gone")
        BY <2>1, <2>2, <2>4 DEF Sample
    <2> QED
        BY <2>3, <2>4
<1> QED
    BY <1>1 DEF EffsGrow, Living, Alive, Disabling, LiveRows

LEMMA CountersOnly ==
    ASSUME Typing, PanelStep
    PROVE  \A m \in Nodes : panel'[m].plan = panel[m].plan
<1>0. panel \in [Nodes -> Panels]
    BY DEF Typing, PanelsTyped
<1>1. PICK n \in Nodes : \E x : panel' = [panel EXCEPT ![n].raw = x]
    <2>1. PICK n \in Nodes : Use(n) \/ CounterReset(n) \/ \E back \in Corrections : CounterCorrected(n, back)
        BY DEF PanelStep
    <2>2. \E x : panel' = [panel EXCEPT ![n].raw = x]
        <3>1. CASE Use(n)
            BY <1>0, <3>1 DEF Use
        <3>2. CASE CounterReset(n)
            BY <3>2 DEF CounterReset
        <3>3. CASE \E back \in Corrections : CounterCorrected(n, back)
            BY <3>3 DEF CounterCorrected
        <3> QED
            BY <2>1, <3>1, <3>2, <3>3
    <2> QED
        BY <2>2
<1>2. PICK x : panel' = [panel EXCEPT ![n].raw = x]
    BY <1>1
<1>3. PICK y \in Panels : y = panel[n]
    BY <1>0
<1>4. [y EXCEPT !.raw = x].plan = y.plan
    BY DEF Panels
<1> QED
    BY <1>0, <1>2, <1>3, <1>4

LEMMA PanelStepFounded ==
    ASSUME Typing, Typing', Founded, PanelStep \/ \E p \in Periods : EndPasses(p)
    PROVE  Founded'
<1>0. row \in [Nodes -> Rows] /\ panel \in [Nodes -> Panels]
    BY DEF Typing, BooksTyped, PanelsTyped
<1>1. UNCHANGED <<svc, row, servers, e, view, r>> /\ past \subseteq past'
    BY DEF PanelStep, Use, CounterReset, CounterCorrected, EndPasses, booksOnly
<1>2. \A m \in Nodes : panel'[m].plan = panel[m].plan
    BY CountersOnly DEF EndPasses
<1>3. EffsGrow /\ Living' = Living /\ (Disabling' <=> Disabling)
    BY <1>0, <1>1, RowsKept
<1>4. OnePeriod' /\ VerifiedForCause'
    BY <1>1, <1>3, PeriodRest
<1>5. PlansKnown'
    BY <1>1, <1>2 DEF Founded, PlansKnown, Era, Alive, Typing, PanelsTyped
<1>6. CycleFounded'
    BY <1>1, <1>2, <1>3, CycleWaits DEF Founded
<1> QED
    BY <1>4, <1>5, <1>6 DEF Founded

LEMMA RemoveServerFounded ==
    ASSUME Typing, Typing', Founded, NEW n \in Nodes, RemoveServer(n)
    PROVE  Founded'
<1>0. row \in [Nodes -> Rows] /\ servers \subseteq Nodes
    BY DEF Typing, BooksTyped, PanelsTyped
<1>1. UNCHANGED <<svc, panel, past, e, view, r>> /\ servers' = servers \ {n}
    BY DEF RemoveServer
<1>2. Marked(n) /\ row'[n].reason = ""
    <2>1. PICK s \in {"live", "deleted"}, b \in BOOLEAN : s = "deleted" /\ b = FALSE
        OBVIOUS
    <2>2. row' = [row EXCEPT ![n].state = IF @ = "gone" THEN @ ELSE s,
                             ![n].reason = "", ![n].active = b]
        BY <2>1, Zenon DEF RemoveServer
    <2> QED
        BY <1>0, <2>2, RowFlagged
<1>3. EffsGrow /\ Living' = Living
    BY <1>0, <1>2, MarkedGrows
<1>4. Disabling' => Disabling
    BY <1>2 DEF Disabling, LiveRows, Marked
<1>5. OnePeriod' /\ VerifiedForCause'
    BY <1>1, <1>3, <1>4, PeriodRest
<1>6. \A m \in servers' \ {n} : panel'[m].plan = panel[m].plan /\ row'[m].reason = row[m].reason
    BY <1>0, <1>1, <1>2 DEF Marked
<1>7. PlansKnown'
    BY <1>0, <1>1, <1>3, <1>6, PlansRest DEF Founded
<1>8. CycleFounded'
    BY <1>1, <1>3, CycleWaits DEF Founded
<1> QED
    BY <1>5, <1>7, <1>8 DEF Founded

-----------------------------------------------------------------------------
(* The cycle.                                                              *)

LEMMA CycleAlone ==
    ASSUME Sound, e.pc # "idle"
    PROVE  Cycling /\ ~Viewing /\ ~Renewing /\ r = NoRenewal /\ r.pc = "idle" /\ Era = svc.end
<1>1. Cycling /\ ~Viewing /\ ~Renewing
    BY AtWork DEF Sound, AloneOK
<1> QED
    BY <1>1 DEF Renewing, NoRenewal, Era

\* What the total may be when the cycle moves on, and when a node has been asked.
LEMMA TotalStays ==
    ASSUME Typing, Typing', CycleFounded, Cycling, e.pc \notin {"off", "offNote"}, EffsGrow,
           Asked' = Asked, e'.total = e.total
    PROVE  e'.total <= Charge(Asked)'
<1>1. row \in [Nodes -> Rows] /\ row' \in [Nodes -> Rows] /\ e.total \in Nat
    BY DEF Typing, BooksTyped, CycleTyped, CycleRec
<1>2. PICK S \in SUBSET Nodes : S = Asked /\ S = Asked'
    BY DEF Asked, Living
<1>3. Charge(S) \in Nat /\ Charge(S)' \in Nat /\ Charge(S) <= Charge(S)'
    BY <1>1, S \in SUBSET S, ChargeGrows
<1>4. e.total <= Charge(S)
    BY <1>2 DEF CycleFounded
<1>5. e'.total <= Charge(S)'
    BY <1>1, <1>3, <1>4
<1> QED
    BY <1>2, <1>5 DEF Charge

LEMMA TotalGains ==
    ASSUME Typing, Typing', CycleFounded, Cycling, e.pc \notin {"off", "offNote"}, EffsGrow,
           NEW n \in Nodes, n \notin Asked, Asked' = Asked \cup {n},
           NEW x \in Nat, e'.total = e.total + x, x <= row'[n].eff
    PROVE  e'.total <= Charge(Asked)'
<1>1. row \in [Nodes -> Rows] /\ row' \in [Nodes -> Rows]
    BY DEF Typing, BooksTyped
<1>2. PICK S \in SUBSET Nodes : S = Asked /\ S \cup {n} = Asked'
    BY DEF Asked, Living
<1>3. PICK t \in Nat : t = e.total
    BY DEF Typing, CycleTyped, CycleRec
<1>4. t <= Charge(S)
    BY <1>2, <1>3 DEF CycleFounded
<1>5. t + x <= Charge(S \cup {n})'
    BY <1>1, <1>2, <1>4, ChargeAdds
<1> QED
    BY <1>2, <1>3, <1>5 DEF Charge

LEMMA AddsAll ==
    ASSUME e \in CycleRec, NEW n, NEW x, Adds(n, x)
    PROVE  /\ e'.pc = "visit" /\ e'.todo = e.todo \ {n} /\ e'.map = e.map /\ e'.snap = e.snap
           /\ e'.total = e.total + x /\ e'.ended = e.ended
BY DEF Adds, CycleRec

\* The cycle goes on to ask the nodes, and has to do with n.
LEMMA VisitFounded ==
    ASSUME Typing, Typing', Sound, Founded, e.pc \notin {"idle", "off", "offNote"},
           UNCHANGED <<svc, r, past, servers>>, EffsGrow, Living' = Living, Disabling' => Disabling,
           NEW n \in Nodes,
           \A m \in Nodes \ {n} : panel'[m].plan = panel[m].plan /\ row'[m].reason = row[m].reason,
           panel'[n].plan \in {panel[n].plan, svc.end},
           n \in servers /\ Alive(n) => panel'[n].plan = svc.end \/ row'[n].reason = "renew_pending",
           e'.snap = e.snap, e'.map = e.map, e'.todo \subseteq e.todo,
           e'.pc \in {"visit", "thaw", "again", "record", "note"},
           e'.pc # "visit" => e'.n \in e'.todo,
           e'.pc \in {"again", "record", "note"} => panel'[e'.n].plan = svc.end,
           e'.pc = "record" => e'.got.plan = svc.end,
           e'.ended => e.ended \/ svc.end \in past,
           e'.total <= Charge(Asked)'
    PROVE  Founded'
<1>1. /\ Cycling /\ r.pc = "idle" /\ Era = svc.end
      /\ OnePeriod /\ PlansKnown /\ VerifiedForCause /\ CycleFounded
    BY CycleAlone DEF Founded
<1>2. OnePeriod' /\ VerifiedForCause'
    BY <1>1, PeriodRest
<1>3. row \in [Nodes -> Rows] /\ row' \in [Nodes -> Rows] /\ servers \subseteq Nodes
    BY DEF Typing, BooksTyped, PanelsTyped
<1>4. PlansKnown'
    BY <1>1, <1>3, PlansRest
<1>5. e \in CycleRec
    BY <1>1 DEF Typing, CycleTyped
<1>6. ASSUME NEW m \in Nodes
      PROVE  e.map[m].eff <= row'[m].eff
    <2>1. e.map[m].eff \in Nat /\ row[m].eff \in Nat /\ row'[m].eff \in Nat
        BY <1>3, <1>5 DEF CycleRec, Rows
    <2>2. e.map[m].eff <= row[m].eff /\ row[m].eff <= row'[m].eff
        BY <1>1 DEF CycleFounded, EffsGrow
    <2> QED
        BY <2>1, <2>2
<1>7. ASSUME NEW m \in e'.todo \cap servers
      PROVE  panel'[m].plan = svc.end \/ e.map[m].reason = "renew_pending"
    <2>1. m \in Nodes /\ (panel[m].plan = svc.end \/ e.map[m].reason = "renew_pending")
        BY <1>1, <1>3 DEF CycleFounded
    <2> QED
        BY <2>1
<1>8. e'.todo \subseteq Living /\ (e'.ended => svc.end \in past)
    BY <1>1 DEF CycleFounded
<1>9. e.snap.limit = svc.limit /\ e.snap.end = svc.end
    BY <1>1 DEF CycleFounded
<1>10. CycleFounded'
    BY <1>6, <1>7, <1>8, <1>9 DEF CycleFounded
<1> QED
    BY <1>2, <1>4, <1>10 DEF Founded

\* The cycle counts from what the rows and the books are at its start.
LEMMA CycleStartFounded ==
    ASSUME Typing, Typing', Sound, Founded, CycleStart, upset = {}, upset' = {}
    PROVE  Founded'
<1>1. UNCHANGED <<svc, row, panel, past, servers, r>>
    BY DEF CycleStart, cycleOnly
<1>2. row \in [Nodes -> Rows] /\ PlansKnown
    BY DEF Typing, BooksTyped, Founded
<1>3. EffsGrow /\ Living' = Living /\ (Disabling' <=> Disabling)
    BY <1>1, <1>2, RowsKept
<1>4. OnePeriod' /\ VerifiedForCause'
    BY <1>1, <1>3, PeriodRest
<1>5. PlansKnown'
    BY <1>1, <1>2 DEF PlansKnown, Era, Alive
<1>6. /\ e'.pc = "read" /\ e'.snap = svc /\ e'.map = row /\ e'.todo = {} /\ e'.total = 0
      /\ e'.ended = FALSE
    BY DEF CycleStart
<1>7. \A m \in Nodes : row[m].eff <= row[m].eff
    BY <1>2 DEF Rows
<1>8. e'.total <= Charge(Asked)'
    <2>1. PICK S \in SUBSET Nodes : S = Asked'
        BY DEF Asked, Living
    <2>2. Charge(S) \in Nat /\ Charge(S)' = Charge(S)
        BY <1>1, <1>2, ChargeIsNat DEF Charge
    <2> QED
        BY <1>6, <2>1, <2>2 DEF Charge
<1>9. CycleFounded'
    BY <1>1, <1>6, <1>7, <1>8 DEF CycleFounded
<1> QED
    BY <1>4, <1>5, <1>9 DEF Founded

\* When its turn comes, every node is still to be asked.
LEMMA CycleReadFounded ==
    ASSUME Typing, Typing', Sound, Founded, CycleRead
    PROVE  Founded'
<1>0. e.pc = "read"
    BY DEF CycleRead
<1>1. UNCHANGED <<svc, row, panel, past, servers, r>>
    BY DEF CycleRead, cycleOnly
<1>2. /\ row \in [Nodes -> Rows] /\ servers \subseteq Nodes
      /\ CycleFounded /\ Cycling /\ PlansKnown /\ e \in CycleRec
      /\ r.pc = "idle" /\ Era = svc.end
    BY <1>0, CycleAlone, CycleAt DEF Typing, BooksTyped, PanelsTyped, Founded
<1>3. EffsGrow /\ Living' = Living /\ (Disabling' <=> Disabling)
    BY <1>1, <1>2, RowsKept
<1>4. OnePeriod' /\ VerifiedForCause'
    BY <1>1, <1>3, PeriodRest
<1>5. PlansKnown'
    BY <1>1, <1>2 DEF PlansKnown, Era, Alive
<1>6. PICK todo : todo = Living
    OBVIOUS
<1>7. /\ e'.pc = "visit" /\ e'.snap = e.snap /\ e'.map = row /\ e'.todo = todo
      /\ e'.total = e.total /\ e'.ended = e.ended
    <2>1. e' = [e EXCEPT !.pc = "visit", !.map = row, !.todo = todo]
        BY <1>6 DEF CycleRead, Living, Alive
    <2> QED
        BY <1>2, <2>1 DEF CycleRec
<1>8. e.total = 0 /\ e.snap.limit = svc.limit /\ e.snap.end = svc.end /\ (e.ended => svc.end \in past)
    BY <1>0, <1>2 DEF CycleFounded
<1>9. \A m \in Nodes : row[m].eff <= row[m].eff
    BY <1>2 DEF Rows
<1>10. \A m \in Living \cap servers : panel[m].plan = svc.end \/ row[m].reason = "renew_pending"
    BY <1>2 DEF PlansKnown, Living
<1>11. e'.total <= Charge(Asked)'
    <2>1. PICK S \in SUBSET Nodes : S = Asked'
        BY DEF Asked, Living
    <2>2. Charge(S) \in Nat /\ Charge(S)' = Charge(S)
        BY <1>1, <1>2, ChargeIsNat DEF Charge
    <2> QED
        BY <1>7, <1>8, <2>1, <2>2 DEF Charge
<1>12. CycleFounded'
    BY <1>1, <1>3, <1>6, <1>7, <1>8, <1>9, <1>10, <1>11 DEF CycleFounded
<1> QED
    BY <1>4, <1>5, <1>12 DEF Founded

\* The usage a node had at the start stands in for the answer that it does not
\* give.
LEMMA VisitAddsFounded ==
    ASSUME Typing, Typing', Sound, Founded, e.pc \in {"visit", "thaw", "again"},
           NEW n \in e.todo, Adds(n, e.map[n].eff), UNCHANGED <<svc, r, past, servers>>,
           Marked(n), row'[n].reason # "verified" \/ row' = row,
           \A m \in Nodes \ {n} : panel'[m].plan = panel[m].plan,
           panel'[n].plan \in {panel[n].plan, svc.end},
           n \in servers => panel'[n].plan = svc.end \/ row'[n].reason = "renew_pending"
    PROVE  Founded'
<1>1. Cycling /\ e \in CycleRec /\ CycleFounded /\ row \in [Nodes -> Rows]
    BY CycleAlone, CycleAt DEF Founded, Typing, BooksTyped
<1>2. n \in Living /\ n \in Nodes /\ e.todo \subseteq Living
    BY <1>1 DEF CycleFounded, Living
<1>3. EffsGrow /\ Living' = Living
    BY <1>1, MarkedGrows
<1>4. Disabling' => Disabling
    BY DEF Disabling, LiveRows, Marked
<1>5. /\ e'.pc = "visit" /\ e'.todo = e.todo \ {n} /\ e'.map = e.map /\ e'.snap = e.snap
      /\ e'.total = e.total + e.map[n].eff /\ e'.ended = e.ended
    BY <1>1, AddsAll
<1>6. n \notin Asked /\ Asked' = Asked \cup {n}
    BY <1>2, <1>3, <1>5 DEF Asked
<1>7. PICK x \in Nat : x = e.map[n].eff
    BY <1>1, <1>2 DEF CycleRec, Rows
<1>8. x <= row'[n].eff
    BY <1>1, <1>2, <1>7 DEF CycleFounded, Marked
<1>9. e'.total <= Charge(Asked)'
    BY <1>1, <1>2, <1>3, <1>5, <1>6, <1>7, <1>8, TotalGains
<1>10. \A m \in Nodes \ {n} : row'[m].reason = row[m].reason
    BY DEF Marked
<1> QED
    BY <1>2, <1>3, <1>4, <1>5, <1>9, <1>10, VisitFounded

LEMMA VisitsFounded ==
    ASSUME Typing, Typing', Sound, Founded, NEW n \in Nodes,
           VisitDeleted(n) \/ VisitRemoved(n) \/ VisitFails(n)
    PROVE  Founded'
<1>0. e.pc = "visit" /\ n \in e.todo /\ Adds(n, e.map[n].eff)
    BY DEF VisitDeleted, VisitRemoved, VisitFails
<1>1. UNCHANGED <<svc, panel, r, past, servers>>
    BY DEF VisitDeleted, VisitRemoved, VisitFails, cycleOnly
<1>2. /\ row \in [Nodes -> Rows] /\ CycleFounded /\ Cycling /\ PlansKnown /\ e \in CycleRec
      /\ r.pc = "idle" /\ Era = svc.end
    BY <1>0, CycleAlone, CycleAt DEF Typing, BooksTyped, Founded
<1>3. CASE VisitDeleted(n)
    <2>1. row' = row
        BY <1>3 DEF VisitDeleted
    <2>2. Marked(n)
        BY <1>2, <2>1 DEF Marked
    <2>3. n \in servers => panel'[n].plan = svc.end \/ row'[n].reason = "renew_pending"
        BY <1>0, <1>1, <1>2, <2>1 DEF PlansKnown, CycleFounded, Living
    <2> QED
        BY <1>0, <1>1, <2>1, <2>2, <2>3, VisitAddsFounded
<1>4. CASE VisitRemoved(n)
    <2>1. PICK s \in {"live", "deleted"}, b \in BOOLEAN : s = "deleted" /\ b = FALSE
        OBVIOUS
    <2>2. row' = [row EXCEPT ![n].state = IF @ = "gone" THEN @ ELSE s,
                             ![n].reason = "", ![n].active = b]
        BY <1>4, <2>1, Zenon DEF VisitRemoved
    <2>3. Marked(n) /\ row'[n].reason = ""
        BY <1>2, <2>2, RowFlagged
    <2>4. n \notin servers
        BY <1>4 DEF VisitRemoved
    <2> QED
        BY <1>0, <1>1, <2>3, <2>4, VisitAddsFounded
<1>5. CASE VisitFails(n)
    <2>1. PICK x \in Rows : x = e.map[n]
        BY <1>2 DEF CycleRec
    <2>2. x.active \in BOOLEAN
        BY DEF Rows
    <2>3. PICK reason \in {"", "renew_pending"}, b \in BOOLEAN :
            /\ row' = [row EXCEPT ![n].reason = reason, ![n].active = b]
            /\ reason = "renew_pending" <=> x.reason = "renew_pending"
        <3>1. CASE x.reason = "renew_pending"
            BY <1>5, <2>1, <3>1 DEF VisitFails
        <3>2. CASE x.reason # "renew_pending"
            BY <1>5, <2>1, <2>2, <3>2 DEF VisitFails
        <3> QED
            BY <3>1, <3>2
    <2>4. Marked(n) /\ row'[n].reason = reason
        BY <1>2, <2>3, RowNoted DEF Reasons
    <2>5. n \in servers => panel'[n].plan = svc.end \/ row'[n].reason = "renew_pending"
        BY <1>0, <1>1, <1>2, <2>1, <2>3, <2>4 DEF CycleFounded
    <2> QED
        BY <1>0, <1>1, <2>4, <2>5, VisitAddsFounded
<1> QED
    BY <1>3, <1>4, <1>5

LEMMA VisitAnswersFounded ==
    ASSUME Typing, Typing', Sound, Founded, NEW n \in Nodes, VisitAnswers(n)
    PROVE  Founded'
<1>0. e.pc = "visit" /\ n \in e.todo /\ n \in servers
    BY DEF VisitAnswers, Asks
<1>1. UNCHANGED <<svc, row, panel, r, past, servers>>
    BY DEF VisitAnswers, cycleOnly
<1>2. /\ row \in [Nodes -> Rows] /\ CycleFounded /\ Cycling /\ PlansKnown /\ e \in CycleRec
      /\ r.pc = "idle" /\ Era = svc.end
    BY <1>0, CycleAlone, CycleAt DEF Typing, BooksTyped, Founded
<1>3. EffsGrow /\ Living' = Living /\ (Disabling' <=> Disabling)
    BY <1>1, <1>2, RowsKept
<1>4. PICK pc \in {"thaw", "record"}, g \in {Reading(n)} :
        /\ e' = [e EXCEPT !.n = n, !.got = g, !.pc = pc]
        /\ pc = "record" => e.map[n].reason # "renew_pending"
    BY DEF VisitAnswers
<1>5. /\ e'.pc = pc /\ e'.todo = e.todo /\ e'.n = n /\ e'.map = e.map /\ e'.snap = e.snap
      /\ e'.got = g /\ e'.total = e.total /\ e'.ended = e.ended
    BY <1>2, <1>4 DEF CycleRec
<1>6. pc = "record" => panel[n].plan = svc.end /\ g.plan = svc.end
    BY <1>0, <1>2, <1>4 DEF CycleFounded, Reading
<1>7. Asked' = Asked
    BY <1>0, <1>3, <1>5 DEF Asked
<1>8. e'.total <= Charge(Asked)'
    BY <1>0, <1>2, <1>3, <1>5, <1>7, TotalStays
<1>9. n \in servers /\ Alive(n) => panel'[n].plan = svc.end \/ row'[n].reason = "renew_pending"
    BY <1>1, <1>2 DEF PlansKnown
<1> QED
    BY <1>0, <1>1, <1>3, <1>5, <1>6, <1>8, <1>9, VisitFounded

LEMMA RenewedPlan ==
    ASSUME panel \in [Nodes -> Panels], NEW n \in Nodes, NEW plan, Renewed(n, plan)
    PROVE  panel'[n].plan = plan /\ \A m \in Nodes \ {n} : panel'[m].plan = panel[m].plan
<1>1. PICK x \in Panels : x = panel[n]
    OBVIOUS
<1>2. [x EXCEPT !.raw = 0, !.plan = plan].plan = plan
    BY DEF Panels
<1> QED
    BY <1>1, <1>2 DEF Renewed

LEMMA ThawsFounded ==
    ASSUME Typing, Typing', Sound, Founded, Thaw \/ ThawAnswers
    PROVE  Founded'
<1>0. e.pc \in {"thaw", "again"}
    BY DEF Thaw, ThawAnswers
<1>1. UNCHANGED <<svc, row, r, past, servers>>
    BY DEF Thaw, ThawAnswers, cycleOnly
<1>2. /\ row \in [Nodes -> Rows] /\ panel \in [Nodes -> Panels]
      /\ CycleFounded /\ Cycling /\ PlansKnown /\ e \in CycleRec
      /\ r.pc = "idle" /\ Era = svc.end
    BY <1>0, CycleAlone, CycleAt DEF Typing, BooksTyped, PanelsTyped, Founded
<1>3. EffsGrow /\ Living' = Living /\ (Disabling' <=> Disabling)
    BY <1>1, <1>2, RowsKept
<1>4. PICK n \in Nodes, g \in {Reading(e.n)} : n = e.n /\ n \in e.todo
    BY <1>0, <1>2, CycleAt DEF CycleFounded
<1>5. /\ e'.todo = e.todo /\ e'.n = n /\ e'.map = e.map /\ e'.snap = e.snap
      /\ e'.total = e.total /\ e'.ended = e.ended /\ e'.pc \in {"again", "record"}
      /\ e'.pc = "record" => e'.got = g
    BY <1>2, <1>4 DEF CycleRec, Thaw, ThawAnswers, Goto
<1>6. /\ panel'[n].plan = svc.end /\ \A m \in Nodes \ {n} : panel'[m].plan = panel[m].plan
      /\ e'.pc = "record" => g.plan = svc.end
    <2>1. CASE Thaw
        <3>1. Renewed(n, svc.end) /\ e'.pc = "again"
            BY <1>2, <1>4, <2>1 DEF Thaw, CycleFounded, Goto, CycleRec
        <3> QED
            BY <1>2, <3>1, RenewedPlan
    <2>2. CASE ThawAnswers
        BY <1>2, <1>4, <2>2 DEF ThawAnswers, CycleFounded, Reading
    <2> QED
        BY <2>1, <2>2
<1>7. Asked' = Asked
    BY <1>0, <1>3, <1>5 DEF Asked
<1>8. e'.total <= Charge(Asked)'
    BY <1>0, <1>2, <1>3, <1>5, <1>7, TotalStays
<1> QED
    BY <1>0, <1>1, <1>3, <1>4, <1>5, <1>6, <1>8, VisitFounded

LEMMA ThawFailsFounded ==
    ASSUME Typing, Typing', Sound, Founded, ThawFails
    PROVE  Founded'
<1>0. e.pc \in {"thaw", "again"}
    BY DEF ThawFails
<1>1. UNCHANGED <<svc, r, past, servers>>
    BY DEF ThawFails, cycleOnly
<1>2. /\ row \in [Nodes -> Rows] /\ panel \in [Nodes -> Panels] /\ CycleFounded /\ Cycling
    BY <1>0, CycleAlone DEF Typing, BooksTyped, PanelsTyped, Founded
<1>3. PICK n \in Nodes : n = e.n /\ n \in e.todo
    BY <1>0, <1>2, CycleAt DEF CycleFounded
<1>4. Marked(n) /\ row'[n].reason = "renew_pending"
    <2>1. PICK s \in Reasons, b \in BOOLEAN : s = "renew_pending" /\ b = FALSE
        BY DEF Reasons
    <2>2. row' = [row EXCEPT ![n].reason = s, ![n].active = b]
        BY <1>3, <2>1 DEF ThawFails
    <2> QED
        BY <1>2, <2>1, <2>2, RowNoted
<1>5. /\ \A m \in Nodes \ {n} : panel'[m].plan = panel[m].plan
      /\ panel'[n].plan \in {panel[n].plan, svc.end}
    <2>1. CASE panel' = panel
        BY <2>1
    <2>2. CASE Renewed(n, svc.end)
        BY <1>2, <2>2, RenewedPlan
    <2> QED
        BY <1>2, <1>3, <2>1, <2>2 DEF ThawFails, CycleFounded
<1>6. Adds(n, e.map[n].eff)
    BY <1>3 DEF ThawFails
<1> QED
    BY <1>0, <1>1, <1>3, <1>4, <1>5, <1>6, VisitAddsFounded

\* What the sample has made of the row is what the node adds.
LEMMA RecordFounded ==
    ASSUME Typing, Typing', Sound, Founded, Record
    PROVE  Founded'
<1>0. e.pc = "record"
    BY DEF Record
<1>1. UNCHANGED <<svc, panel, r, past, servers>>
    BY DEF Record, cycleOnly
<1>2. /\ row \in [Nodes -> Rows] /\ row' \in [Nodes -> Rows]
      /\ CycleFounded /\ Cycling /\ PlansKnown /\ e \in CycleRec
      /\ r.pc = "idle" /\ Era = svc.end
    BY <1>0, CycleAlone, CycleAt DEF Typing, BooksTyped, Founded
<1>3. PICK n \in Nodes, got \in Readings : n = e.n /\ got = e.got
    BY <1>0, <1>2, CycleAt DEF CycleRec
<1>4. /\ n \in e.todo /\ n \in Living /\ got.plan = svc.end /\ e.todo \subseteq Living
      /\ panel[n].plan = svc.end
    BY <1>0, <1>2, <1>3 DEF CycleFounded
<1>5. PICK g : g = [m \in {n} |-> got]
    OBVIOUS
<1>6. Sample(g, row) /\ \A m \in DOMAIN g : g[m] \in Readings
    BY <1>3, <1>5 DEF Record
<1>7. /\ EffsGrow /\ Living' = Living /\ (Disabling' <=> Disabling)
      /\ \A m \in Nodes : row'[m].reason = row[m].reason
    BY <1>2, <1>6, SampleGrows
<1>8. PICK x \in Nat : x = row'[n].eff
    BY <1>2 DEF Rows
<1>9. /\ e'.pc = "note" /\ e'.todo = e.todo /\ e'.n = n /\ e'.map = e.map /\ e'.snap = e.snap
      /\ e'.total = e.total + x
      /\ e'.ended => e.ended \/ svc.end \in past
    <2>0. PICK nil : nil = Nothing
        OBVIOUS
    <2>1. row[n].state # "gone"
        BY <1>4 DEF Living, Alive
    <2>2. e' = [e EXCEPT !.pc = "note", !.got = nil, !.live = TRUE,
                         !.ended = @ \/ got.plan \in past,
                         !.total = @ + x]
        BY <1>3, <1>8, <2>0, <2>1 DEF Record
    <2>3. PICK b, t : b = (e.ended \/ svc.end \in past) /\ t = e.total + x
        OBVIOUS
    <2>4. e' = [e EXCEPT !.pc = "note", !.got = nil, !.live = TRUE, !.ended = b, !.total = t]
        BY <1>4, <2>2, <2>3
    <2>5. e'.ended = b /\ e'.total = t
        BY <1>2, <2>4 DEF CycleRec
    <2> QED
        BY <1>2, <1>3, <2>3, <2>4, <2>5 DEF CycleRec
<1>10. n \notin Asked /\ Asked' = Asked \cup {n}
    BY <1>0, <1>4, <1>7, <1>9 DEF Asked
<1>11. x <= row'[n].eff
    BY <1>8
<1>12. e'.total <= Charge(Asked)'
    BY <1>0, <1>2, <1>7, <1>9, <1>10, <1>11, TotalGains
<1> QED
    BY <1>0, <1>1, <1>4, <1>7, <1>9, <1>12, VisitFounded

LEMMA NoteFounded ==
    ASSUME Typing, Typing', Sound, Founded, Note
    PROVE  Founded'
<1>0. e.pc = "note"
    BY DEF Note
<1>1. UNCHANGED <<svc, panel, r, past, servers>>
    BY DEF Note, cycleOnly
<1>2. /\ row \in [Nodes -> Rows] /\ CycleFounded /\ Cycling /\ e \in CycleRec
    BY <1>0, CycleAlone, CycleAt DEF Typing, BooksTyped, Founded
<1>3. PICK n \in Nodes : n = e.n /\ n \in e.todo /\ panel[n].plan = svc.end
    BY <1>0, <1>2, CycleAt DEF CycleFounded
<1>4. Marked(n) /\ row'[n].reason = ""
    <2>1. PICK s \in {"live", "deleted"}, b \in BOOLEAN : s = "live" /\ b = TRUE
        OBVIOUS
    <2>2. row' = [row EXCEPT ![n].state = IF @ = "gone" THEN @ ELSE s,
                             ![n].reason = "", ![n].active = b]
        BY <1>3, <2>1, Zenon DEF Note
    <2> QED
        BY <1>2, <2>2, RowFlagged
<1>5. EffsGrow /\ Living' = Living
    BY <1>2, <1>4, MarkedGrows
<1>6. Disabling' => Disabling
    BY <1>4 DEF Disabling, LiveRows, Marked
<1>7. /\ e'.pc = "visit" /\ e'.todo = e.todo \ {n} /\ e'.map = e.map /\ e'.snap = e.snap
      /\ e'.total = e.total /\ e'.ended = e.ended
    BY <1>2, <1>3 DEF Note, CycleRec
<1>8. Asked' = Asked
    BY <1>0, <1>3, <1>5, <1>7 DEF Asked
<1>9. e'.total <= Charge(Asked)'
    BY <1>0, <1>2, <1>5, <1>7, <1>8, TotalStays
<1>10. \A m \in Nodes \ {n} : row'[m].reason = row[m].reason
    BY <1>4 DEF Marked
<1> QED
    BY <1>0, <1>1, <1>3, <1>5, <1>6, <1>7, <1>9, <1>10, VisitFounded

\* The books are written with the quota they have.
LEMMA ClosesFounded ==
    ASSUME Typing, Typing', Sound, Founded, CloseUnconfirmed \/ CloseInOrder \/ OffEnd
    PROVE  Founded'
<1>0. e.pc \in {"visit", "off"}
    BY DEF CloseUnconfirmed, CloseInOrder, OffEnd
<1>1. UNCHANGED <<row, panel, r, past, servers>> /\ e' = NoCycle
    BY DEF CloseUnconfirmed, CloseInOrder, OffEnd, cycleOnly
<1>2. /\ row \in [Nodes -> Rows] /\ svc \in Services /\ CycleFounded /\ Cycling /\ PlansKnown
      /\ r.pc = "idle"
    BY <1>0, CycleAlone DEF Typing, BooksTyped, Founded
<1>3. svc'.end = svc.end /\ svc'.limit = svc.limit
    BY <1>2 DEF CloseUnconfirmed, CloseInOrder, OffEnd, Books, Services, CycleFounded
<1>4. EffsGrow /\ Living' = Living /\ (Disabling' <=> Disabling)
    BY <1>1, <1>2, RowsKept
<1>5. OnePeriod' /\ VerifiedForCause'
    BY <1>1, <1>3, <1>4, PeriodRest
<1>6. PlansKnown'
    BY <1>1, <1>2, <1>3 DEF PlansKnown, Era, Alive
<1>7. CycleFounded'
    BY <1>1 DEF CycleFounded, Cycling
<1> QED
    BY <1>5, <1>6, <1>7 DEF Founded

\* The service is used up as far as the cycle knows, and so it is.
LEMMA CloseUsedUpFounded ==
    ASSUME Typing, Typing', Sound, Founded, CloseUsedUp
    PROVE  Founded'
<1>0. e.pc = "visit" /\ e.todo = {} /\ UsedUp
    BY DEF CloseUsedUp
<1>1. UNCHANGED <<svc, row, panel, r, past, servers>>
    BY DEF CloseUsedUp, cycleOnly
<1>2. /\ row \in [Nodes -> Rows] /\ svc \in Services /\ CycleFounded /\ Cycling /\ PlansKnown
      /\ r.pc = "idle" /\ e \in CycleRec
    BY <1>0, CycleAlone, CycleAt DEF Typing, BooksTyped, Founded
<1>3. EffsGrow /\ Living' = Living /\ (Disabling' <=> Disabling)
    BY <1>1, <1>2, RowsKept
<1>4. OnePeriod' /\ VerifiedForCause'
    BY <1>1, <1>3, PeriodRest
<1>5. PlansKnown'
    BY <1>1, <1>2 DEF PlansKnown, Era, Alive
<1>6. CauseIn(svc)
    <2>1. Asked = Living
        BY <1>0 DEF Asked
    <2>2. PICK t \in Nat, q \in Nat : t = e.total /\ q = Quota[svc.limit]
        BY <1>2, UsageAssumption DEF CycleRec, Services
    <2>3. PICK c \in Nat : c = Charge(Living)
        BY <1>2, ChargeIsNat, LivingIsFinite
    <2>4. t <= c /\ e.snap.limit = svc.limit /\ e.snap.end = svc.end /\ (e.ended => svc.end \in past)
        BY <1>0, <1>2, <2>1, <2>2, <2>3 DEF CycleFounded
    <2>5. CASE t >= q
        BY <2>2, <2>3, <2>4, <2>5 DEF CauseIn
    <2> QED
        BY <1>0, <2>2, <2>4, <2>5 DEF CauseIn, UsedUp
<1>7. CauseIn(svc)'
    BY <1>1, <1>6 DEF CauseIn, Charge, Living, Alive
<1>8. e'.pc = "off" /\ e'.map = e.map /\ e'.snap = e.snap
    BY <1>2 DEF CloseUsedUp, CycleRec
<1>9. CycleFounded'
    BY <1>1, <1>2, <1>7, <1>8 DEF CycleFounded
<1> QED
    BY <1>4, <1>5, <1>9 DEF Founded

\* While a cycle disables there is a cause to, and a node it notes has a panel
\* that counts for the period.
LEMMA OffFounded ==
    ASSUME Typing, Typing', Sound, Founded, e.pc \in {"off", "offNote"},
           NEW n \in Nodes, Marked(n), row' = row \/ row[n].reason # "renew_pending",
           UNCHANGED <<svc, r, past, servers>>, \A m \in Nodes : panel'[m].plan = panel[m].plan,
           e'.pc \in {"off", "offNote"}, e'.map = e.map, e'.snap = e.snap
    PROVE  Founded'
<1>1. /\ row \in [Nodes -> Rows] /\ row' \in [Nodes -> Rows] /\ svc \in Services
      /\ servers \subseteq Nodes /\ CycleFounded /\ Cycling /\ PlansKnown
      /\ r.pc = "idle" /\ Era = svc.end /\ CauseIn(svc)
    BY CycleAlone DEF Typing, BooksTyped, PanelsTyped, Founded, CycleFounded
<1>2. EffsGrow /\ Living' = Living
    BY <1>1, MarkedGrows
<1>3. OnePeriod' /\ VerifiedForCause'
    BY <1>1, <1>2, PeriodRest
<1>4. PlansKnown'
    <2>1. n \in servers /\ Alive(n) => panel'[n].plan = Era \/ row'[n].reason = "renew_pending"
        BY <1>1 DEF PlansKnown
    <2>2. \A m \in servers' \ {n} : panel'[m].plan = panel[m].plan /\ row'[m].reason = row[m].reason
        BY <1>1 DEF Marked
    <2> QED
        BY <1>1, <1>2, <2>1, <2>2, PlansRest
<1>5. CauseIn(svc)'
    <2>1. PICK b \in Services : b = svc /\ b = svc'
        BY <1>1
    <2>2. CauseIn(b)'
        BY <1>1, <1>2, <2>1, CauseLasts
    <2> QED
        BY <2>1, <2>2 DEF CauseIn
<1>6. \A m \in Nodes : row'[m].eff = row[m].eff
    BY DEF Marked
<1>7. CycleFounded'
    BY <1>1, <1>5, <1>6 DEF CycleFounded
<1> QED
    BY <1>3, <1>4, <1>7 DEF Founded

LEMMA SwitchedPlan ==
    ASSUME panel \in [Nodes -> Panels], NEW n \in Nodes, NEW on, panel' = [panel EXCEPT ![n].on = on]
    PROVE  \A m \in Nodes : panel'[m].plan = panel[m].plan
<1>1. PICK x \in Panels : x = panel[n]
    OBVIOUS
<1>2. [x EXCEPT !.on = on].plan = x.plan
    BY DEF Panels
<1> QED
    BY <1>1, <1>2

LEMMA OffStepsFounded ==
    ASSUME Typing, Typing', Sound, Founded, upset' = {},
           OffNote \/ \E n \in Nodes : Off(n) \/ OffFails(n)
    PROVE  Founded'
<1>0. e.pc \in {"off", "offNote"}
    BY DEF Off, OffFails, OffNote
<1>1. UNCHANGED <<svc, r, past, servers>>
    BY DEF Off, OffFails, OffNote, cycleOnly
<1>2. row \in [Nodes -> Rows] /\ panel \in [Nodes -> Panels] /\ e \in CycleRec
    BY <1>0, CycleAt DEF Typing, BooksTyped, PanelsTyped
<1>3. ASSUME NEW n \in Nodes, Off(n)
      PROVE  Founded'
    <2>1. row' = row /\ panel' = [panel EXCEPT ![n].on = FALSE]
        BY <1>3 DEF Off
    <2>2. Marked(n)
        BY <1>2, <2>1 DEF Marked
    <2>3. e'.pc = "offNote" /\ e'.map = e.map /\ e'.snap = e.snap
        BY <1>2, <1>3 DEF Off, CycleRec
    <2> QED
        BY <1>0, <1>1, <1>2, <2>1, <2>2, <2>3, SwitchedPlan, OffFounded
<1>4. ASSUME NEW n \in Nodes, OffFails(n)
      PROVE  Founded'
    <2>1. row' = [row EXCEPT ![n].reason = "disable_pending", ![n].active = TRUE]
        BY <1>4 DEF OffFails
    <2>2. Marked(n) /\ row[n].reason # "renew_pending"
        BY <1>2, <1>4, <2>1, RowNoted DEF Reasons, OffFails, Forgets
    <2>3. e'.pc = "off" /\ e'.map = e.map /\ e'.snap = e.snap
        BY <1>2, <1>4 DEF OffFails, CycleRec
    <2>4. panel' = panel \/ panel' = [panel EXCEPT ![n].on = FALSE]
        BY <1>4 DEF OffFails
    <2>5. \A m \in Nodes : panel'[m].plan = panel[m].plan
        BY <1>2, <2>4, SwitchedPlan
    <2> QED
        BY <1>0, <1>1, <2>2, <2>3, <2>5, OffFounded
<1>5. ASSUME OffNote
      PROVE  Founded'
    <2>1. PICK n \in Nodes : n = e.n
        BY <1>5, CycleAt DEF OffNote
    <2>2. row' = [row EXCEPT ![n].reason = "verified", ![n].active = FALSE]
        BY <1>5, <2>1 DEF OffNote
    <2>3. Marked(n) /\ row[n].reason # "renew_pending"
        BY <1>2, <1>5, <2>1, <2>2, RowNoted DEF Reasons, OffNote, Forgets
    <2>4. e'.pc = "off" /\ e'.map = e.map /\ e'.snap = e.snap /\ panel' = panel
        BY <1>2, <1>5 DEF OffNote, CycleRec
    <2> QED
        BY <1>0, <1>1, <2>3, <2>4, OffFounded
<1> QED
    BY <1>3, <1>4, <1>5

LEMMA CrashFounded ==
    ASSUME Typing, Typing', Founded, Crash
    PROVE  Founded'
<1>1. UNCHANGED <<svc, row, panel, past, servers, r>> /\ e' = NoCycle
    BY DEF Crash
<1>2. row \in [Nodes -> Rows] /\ PlansKnown
    BY DEF Typing, BooksTyped, Founded
<1>3. EffsGrow /\ Living' = Living /\ (Disabling' <=> Disabling)
    BY <1>1, <1>2, RowsKept
<1>4. OnePeriod' /\ VerifiedForCause'
    BY <1>1, <1>3, PeriodRest
<1>5. PlansKnown'
    BY <1>1, <1>2 DEF PlansKnown, Era, Alive
<1>6. CycleFounded'
    BY <1>1 DEF CycleFounded, Cycling
<1> QED
    BY <1>4, <1>5, <1>6 DEF Founded

-----------------------------------------------------------------------------
(* The refresh.                                                            *)

LEMMA RefreshReadFounded ==
    ASSUME Typing, Typing', Founded, NEW S, RefreshRead(S)
    PROVE  Founded'
<1>1. UNCHANGED <<svc, row, panel, past, servers, e, r>>
    BY DEF RefreshRead
<1>2. row \in [Nodes -> Rows] /\ PlansKnown
    BY DEF Typing, BooksTyped, Founded
<1>3. EffsGrow /\ Living' = Living /\ (Disabling' <=> Disabling)
    BY <1>1, <1>2, RowsKept
<1>4. OnePeriod' /\ VerifiedForCause'
    BY <1>1, <1>3, PeriodRest
<1>5. PlansKnown'
    BY <1>1, <1>2 DEF PlansKnown, Era, Alive
<1>6. CycleFounded'
    BY <1>1, <1>3, CycleWaits DEF Founded
<1> QED
    BY <1>4, <1>5, <1>6 DEF Founded

\* A refresh that has upset nothing has seen panels of this period only.
LEMMA RefreshWriteFounded ==
    ASSUME Typing, Typing', Sound, Founded, RefreshWrite, upset = {}, upset' = {}
    PROVE  Founded'
<1>1. UNCHANGED <<panel, past, servers, e, r>> /\ Viewing /\ Sample(view, row)
    BY DEF RefreshWrite, viewOnly
<1>2. ~Cycling /\ ~Renewing
    BY <1>1 DEF Sound, AloneOK
<1>3. r.pc = "idle"
    BY <1>2 DEF Renewing, NoRenewal
<1>4. row \in [Nodes -> Rows] /\ OnePeriod /\ PlansKnown /\ \A n \in DOMAIN view : view[n] \in Readings
    BY DEF Typing, BooksTyped, ViewTyped, Founded
<1>5. svc'.end = svc.end /\ svc'.limit = svc.limit
    <2>1. PICK a \in DOMAIN view :
            /\ svc'.limit = view[a].plan /\ svc'.end = view[a].plan
            /\ upset' = upset \cup (IF Unnoticed(view) THEN {"unnoticed"} ELSE {})
                     \cup (IF \E n \in DOMAIN view : view[n].plan # svc.end THEN {"refresh"} ELSE {})
        BY DEF RefreshWrite, Shown, Viewed
    <2>2. view[a].plan = svc.end
        BY <2>1
    <2> QED
        BY <1>4, <2>1, <2>2 DEF OnePeriod
<1>6. /\ EffsGrow /\ Living' = Living /\ (Disabling' <=> Disabling)
      /\ \A m \in Nodes : row'[m].state = row[m].state /\ row'[m].reason = row[m].reason
    BY <1>1, <1>4, SampleGrows
<1>7. OnePeriod' /\ VerifiedForCause'
    BY <1>1, <1>5, <1>6, PeriodRest
<1>8. PlansKnown'
    BY <1>1, <1>4, <1>5, <1>6 DEF PlansKnown, Era, Alive, Typing, PanelsTyped
<1>9. CycleFounded'
    BY <1>1, <1>2 DEF CycleFounded, Cycling
<1> QED
    BY <1>7, <1>8, <1>9 DEF Founded

\* A repair that has upset nothing has seen panels of this period only, and no
\* node it has taken a note back of has missed the renewal.
LEMMA RepairWriteFounded ==
    ASSUME Typing, Typing', Sound, Founded, ViewFounded, RepairWrite, upset = {}, upset' = {}
    PROVE  Founded'
<1>1. UNCHANGED <<panel, past, servers, e, r>> /\ Viewing /\ Primary \in DOMAIN view
    BY DEF RepairWrite, viewOnly
<1>2. ~Cycling /\ ~Renewing
    BY <1>1 DEF Sound, AloneOK
<1>3. r.pc = "idle"
    BY <1>2 DEF Renewing, NoRenewal
<1>4. /\ row \in [Nodes -> Rows] /\ OnePeriod /\ PlansKnown /\ servers \subseteq Nodes
      /\ DOMAIN view \subseteq Nodes /\ \A n \in DOMAIN view : view[n] \in Readings
    BY DEF Typing, BooksTyped, ViewTyped, PanelsTyped, Founded
<1>5. \A n \in DOMAIN view : view[n].plan = svc.end /\ panel[n].plan = svc.end
    BY DEF RepairWrite, Viewed, ViewFounded
<1>6. svc'.end = svc.end /\ svc'.limit = svc.limit
    <2>1. svc'.limit = view[Primary].plan /\ svc'.end = view[Primary].plan
        BY DEF RepairWrite, Shown
    <2> QED
        BY <1>1, <1>4, <1>5, <2>1 DEF OnePeriod
<1>7. ASSUME NEW n \in Nodes
      PROVE  /\ row[n].eff <= row'[n].eff
             /\ Alive(n)' <=> Alive(n)
             /\ row'[n] = row[n] \/ (n \in DOMAIN view /\ row'[n].reason = "")
    <2>1. PICK x \in Rows : x = row[n]
        BY <1>4
    <2>2. x.eff \in Nat
        BY DEF Rows
    <2>3. CASE n \in DOMAIN view /\ Alive(n)
        <3>1. PICK raw \in Nat, b \in BOOLEAN : raw = view[n].raw /\ b = view[n].on
            BY <1>4, <2>3 DEF Readings
        <3>2. row'[n] = Repaired(Recorded(x, raw), b)
            BY <1>4, <2>1, <2>3, <3>1, RepairRows
        <3>3. PICK y \in Rows : y = Recorded(x, raw) /\ y.state = x.state /\ y.eff >= x.eff
            BY RecordedTyped
        <3>4. Repaired(y, b).state = "live" /\ Repaired(y, b).reason = "" /\ Repaired(y, b).eff = y.eff
            BY <2>1, <2>3, <3>3, RepairedCounts DEF Alive
        <3> QED
            BY <2>1, <2>3, <3>2, <3>3, <3>4 DEF Alive, Rows
    <2>4. CASE ~(n \in DOMAIN view /\ Alive(n))
        <3>1. row'[n] = row[n]
            BY <1>4, <2>4, RepairRows
        <3> QED
            BY <2>1, <2>2, <3>1 DEF Alive
    <2> QED
        BY <2>3, <2>4
<1>8. EffsGrow /\ Living' = Living
    BY <1>7 DEF EffsGrow, Living, Alive
<1>9. Disabling' => Disabling
    BY <1>7 DEF Disabling, LiveRows
<1>10. OnePeriod' /\ VerifiedForCause'
    BY <1>1, <1>6, <1>8, <1>9, PeriodRest
<1>11. PlansKnown'
    <2>1. SUFFICES ASSUME NEW n \in servers, Alive(n)'
                   PROVE  panel'[n].plan = svc.end \/ row'[n].reason = "renew_pending"
        BY <1>1, <1>3, <1>6 DEF PlansKnown, Era
    <2>2. n \in Nodes /\ Alive(n)
        BY <1>4, <1>7, <2>1
    <2>3. CASE n \in DOMAIN view
        BY <1>1, <1>5, <2>3
    <2>4. CASE row'[n] = row[n]
        BY <1>1, <1>3, <1>4, <2>2, <2>4 DEF PlansKnown, Era
    <2> QED
        BY <1>7, <2>2, <2>3, <2>4
<1>12. CycleFounded'
    BY <1>1, <1>2 DEF CycleFounded, Cycling
<1> QED
    BY <1>10, <1>11, <1>12 DEF Founded

\* What is forgotten without upsetting the books was charged nothing.
LEMMA ClearFrozenFounded ==
    ASSUME Typing, Typing', Founded, ClearFrozen, upset = {}, upset' = {}
    PROVE  Founded'
<1>1. UNCHANGED <<panel, past, servers, e, r>> /\ ~Cycling
    BY DEF ClearFrozen
<1>2. /\ row \in [Nodes -> Rows] /\ svc \in Services /\ servers \subseteq Nodes
      /\ OnePeriod /\ PlansKnown /\ VerifiedForCause
    BY DEF Typing, BooksTyped, PanelsTyped, Founded
<1>3. svc'.end = svc.end /\ svc'.limit = svc.limit
    BY <1>2 DEF ClearFrozen, Services
<1>4. PICK held \in SUBSET Nodes :
          /\ row' = [n \in Nodes |-> IF n \in held THEN [row[n] EXCEPT !.state = "gone"] ELSE row[n]]
          /\ \A n \in held : row[n].eff = 0
    <2>1. PICK held \in SUBSET Nodes :
              held = {n \in Nodes : row[n].state = "deleted" \/ (row[n].state = "live" /\ n \in frozen)}
        OBVIOUS
    <2>2. /\ row' = [n \in Nodes |-> IF n \in held THEN [row[n] EXCEPT !.state = "gone"] ELSE row[n]]
          /\ ~ \E n \in held : row[n].eff > 0
        <3>1. upset' = upset \cup (IF Cycling THEN {"overlap"} ELSE {})
                             \cup (IF \E n \in held : row[n].eff > 0 THEN {"cleared"} ELSE {})
            BY <2>1 DEF ClearFrozen
        <3> QED
            BY <2>1, <3>1 DEF ClearFrozen
    <2>3. \A n \in held : row[n].eff = 0
        BY <1>2, <2>2 DEF Rows
    <2> QED
        BY <2>2, <2>3
<1>5. ASSUME NEW n \in Nodes
      PROVE  IF n \in held THEN ~Alive(n)' ELSE row'[n] = row[n]
    <2>1. PICK x \in Rows : x = row[n]
        BY <1>2
    <2>2. [x EXCEPT !.state = "gone"].state = "gone"
        BY DEF Rows
    <2> QED
        BY <1>4, <2>1, <2>2 DEF Alive
<1>6. PICK T \in SUBSET Nodes, S \in SUBSET Nodes : T = Living /\ S = Living' /\ S \subseteq T
    <2>1. Living \in SUBSET Nodes /\ Living' \subseteq Living
        BY <1>5 DEF Living, Alive
    <2> QED
        BY <2>1
<1>7. Charge(Living) = Charge(Living)'
    <2>1. ASSUME NEW n \in S PROVE row'[n] = row[n]
        BY <1>5, <1>6 DEF Living
    <2>2. ASSUME NEW n \in T \ S PROVE row[n].eff = 0
        BY <1>4, <1>5, <1>6 DEF Living, Alive
    <2>3. Charge(T) = Charge(S)'
        BY <1>2, <1>6, <2>1, <2>2, ChargeLeaves
    <2> QED
        BY <1>6, <2>3 DEF Charge
<1>8. Disabling' => Disabling
    <2>1. SUFFICES ASSUME NEW n \in Nodes, row'[n].state = "live", row'[n].reason = "verified"
                   PROVE  Disabling
        BY DEF Disabling, LiveRows
    <2>2. row'[n] = row[n]
        BY <1>5, <2>1 DEF Alive
    <2> QED
        BY <2>1, <2>2 DEF Disabling, LiveRows
<1>9. OnePeriod' /\ VerifiedForCause'
    BY <1>1, <1>2, <1>3, <1>7, <1>8 DEF OnePeriod, VerifiedForCause, CauseIn
<1>10. PlansKnown'
    <2>1. \A n \in Nodes : Alive(n)' => Alive(n) /\ row'[n] = row[n]
        BY <1>5 DEF Alive
    <2>2. Era' = Era
        BY <1>1, <1>3 DEF Era
    <2> QED
        BY <1>1, <1>2, <2>1, <2>2 DEF PlansKnown
<1>11. CycleFounded'
    BY <1>1 DEF CycleFounded, Cycling
<1> QED
    BY <1>9, <1>10, <1>11 DEF Founded

-----------------------------------------------------------------------------
(* The renewal.                                                            *)

\* A cause remains when neither rows nor calendar have moved.
LEMMA CauseKept ==
    ASSUME UNCHANGED <<row, past>>, NEW b, CauseIn(b)
    PROVE  CauseIn(b)'
BY DEF CauseIn, Charge, Living, Alive

\* The books of the last period are kept until the primary has the new one.
LEMMA RenewStartFounded ==
    ASSUME Typing, Founded, RenewStart, upset = {}, upset' = {}
    PROVE  Founded'
<1>1. ~Cycling /\ r = NoRenewal /\ UNCHANGED <<row, panel, past, servers, e>>
    BY DEF RenewStart, Meet, Renewing, renewOnly
<1>2. PICK b \in Services : b = svc
    BY DEF Typing, BooksTyped
<1>3. /\ r'.pc = "primary" /\ r'.old = b
      /\ svc'.limit = renewals + 1 /\ svc'.end = renewals + 1
    BY <1>2 DEF RenewStart, Services
<1>4. OnePeriod /\ PlansKnown /\ VerifiedForCause
    BY DEF Founded
<1>5. OnePeriod'
    BY <1>2, <1>3, <1>4 DEF OnePeriod
<1>6. PlansKnown'
    BY <1>1, <1>2, <1>3, <1>4 DEF PlansKnown, Era, Alive, NoRenewal
<1>7. VerifiedForCause'
    <2>1. ASSUME Disabling' PROVE CauseIn(b)'
        <3>1. Disabling
            BY <1>1, <2>1 DEF Disabling, LiveRows
        <3>2. CauseIn(b)
            BY <1>1, <1>2, <1>4, <3>1 DEF VerifiedForCause, NoRenewal
        <3> QED
            BY <1>1, <3>2, CauseKept
    <2> QED
        BY <1>3, <2>1 DEF VerifiedForCause, CauseIn
<1>8. CycleFounded'
    BY <1>1 DEF CycleFounded, Cycling
<1> QED
    BY <1>5, <1>6, <1>7, <1>8 DEF Founded

LEMMA RenewPrimaryFailsFounded ==
    ASSUME Typing, Sound, Founded, RenewPrimaryFails, upset' = {}
    PROVE  Founded'
<1>1. /\ UNCHANGED <<row, panel, past, servers, e>> /\ svc' = r.old /\ r' = NoRenewal
      /\ r.pc = "primary"
    BY DEF RenewPrimaryFails, renewOnly
<1>2. ~Cycling
    BY <1>1, AtRenewal
<1>3. PICK b : b = svc' /\ b = r.old
    BY <1>1
<1>4. OnePeriod /\ PlansKnown /\ VerifiedForCause /\ r'.pc = "idle"
    BY <1>1 DEF Founded, NoRenewal
<1>5. OnePeriod'
    BY <1>1, <1>4 DEF OnePeriod
<1>6. PlansKnown'
    BY <1>1, <1>4 DEF PlansKnown, Era, Alive
<1>7. VerifiedForCause'
    <2>1. ASSUME Disabling' PROVE CauseIn(b)'
        <3>1. Disabling
            BY <1>1, <2>1 DEF Disabling, LiveRows
        <3>2. CauseIn(b)
            BY <1>1, <1>3, <1>4, <3>1 DEF VerifiedForCause
        <3> QED
            BY <1>1, <3>2, CauseKept
    <2> QED
        BY <1>3, <1>4, <2>1 DEF VerifiedForCause, CauseIn
<1>8. CycleFounded'
    BY <1>1, <1>2 DEF CycleFounded, Cycling
<1> QED
    BY <1>5, <1>6, <1>7, <1>8 DEF Founded

\* Between the two periods nothing is said of panels and rows.
LEMMA RenewNodesFounded ==
    ASSUME Typing, Sound, Founded,
           RenewPrimary \/ \E n \in Nodes : RenewNode(n) \/ RenewNodeFails(n)
    PROVE  Founded'
<1>1. UNCHANGED <<svc, e>> /\ r.pc \in {"primary", "nodes"}
    BY DEF RenewPrimary, RenewNode, RenewNodeFails, renewOnly
<1>2. ~Cycling /\ Renewing
    BY <1>1, AtRenewal
<1>3. r'.pc = "nodes"
    <2>1. PICK y \in RenewalRec : y = r
        BY <1>2 DEF Typing, RenewalTyped
    <2>2. CASE RenewPrimary
        BY <2>1, <2>2 DEF RenewPrimary, Step, RenewalRec
    <2>3. ASSUME NEW n \in Nodes, RenewNode(n) \/ RenewNodeFails(n)
          PROVE  r'.pc = "nodes"
        <3>1. CASE RenewNode(n)
            BY <2>1, <3>1 DEF RenewNode, RenewalRec
        <3>2. CASE RenewNodeFails(n)
            <4>1. r' = [y EXCEPT !.todo = @ \ {n}, !.failed = @ \cup {n}] /\ y.pc = "nodes"
                BY <2>1, <3>2 DEF RenewNodeFails
            <4> QED
                BY <4>1 DEF RenewalRec
        <3> QED
            BY <2>3, <3>1, <3>2
    <2> QED
        BY <2>2, <2>3
<1>4. OnePeriod' /\ PlansKnown' /\ VerifiedForCause'
    BY <1>1, <1>3 DEF Founded, OnePeriod, PlansKnown, VerifiedForCause
<1>5. CycleFounded'
    BY <1>1, <1>2 DEF CycleFounded, Cycling
<1> QED
    BY <1>4, <1>5 DEF Founded

\* Every node that was not renewed is now known not to be.
LEMMA RenewResetFounded ==
    ASSUME Typing, Sound, Founded, RenewReset
    PROVE  Founded'
<1>1. UNCHANGED <<svc, panel, servers, e>> /\ r.pc = "nodes" /\ r.todo = {}
    BY DEF RenewReset, renewOnly
<1>2. ~Cycling /\ Renewing /\ RenewalOK /\ OnePeriod /\ servers \subseteq Nodes
    BY <1>1, AtRenewal DEF Sound, Founded, Typing, PanelsTyped
<1>3. r'.pc = "enable"
    <2>1. PICK y \in RenewalRec : y = r
        BY <1>2 DEF Typing, RenewalTyped
    <2> QED
        BY <2>1 DEF RenewReset, RenewalRec
<1>4. PlansKnown'
    <2>1. SUFFICES ASSUME NEW n \in servers, Alive(n)'
                   PROVE  panel'[n].plan = svc'.end \/ row'[n].reason = "renew_pending"
        BY <1>1, <1>3 DEF PlansKnown, Era
    <2>2. n \in Nodes /\ row'[n] = AfterRenewal(n)
        BY <1>2 DEF RenewReset
    <2>3. row[n].state = "live"
        <3>1. PICK x \in Rows : x = row[n]
            BY <2>2 DEF Typing, BooksTyped
        <3>2. [x EXCEPT !.state = "gone"].state = "gone"
            BY DEF Rows
        <3> QED
            BY <2>1, <2>2, <3>1, <3>2 DEF AfterRenewal, Alive
    <2>4. CASE n \in r.failed
        BY <2>2, <2>3, <2>4 DEF AfterRenewal, FreshRow
    <2>5. CASE n \notin r.failed
        BY <1>1, <1>2, <2>3, <2>5 DEF RenewalOK, Alive
    <2> QED
        BY <2>4, <2>5
<1>5. OnePeriod' /\ VerifiedForCause'
    BY <1>1, <1>2, <1>3 DEF OnePeriod, VerifiedForCause
<1>6. CycleFounded'
    BY <1>1, <1>2 DEF CycleFounded, Cycling
<1> QED
    BY <1>4, <1>5, <1>6 DEF Founded

\* The user is enabled again, and no row is noted as disabled.
LEMMA RenewEnablesFounded ==
    ASSUME Typing, Sound, Founded,
           RenewEnd \/ \E n \in Nodes : RenewEnable(n) \/ RenewEnableFails(n)
    PROVE  Founded'
<1>1. UNCHANGED <<row, past, servers, e>> /\ r.pc = "enable"
    BY DEF RenewEnd, RenewEnable, RenewEnableFails, renewOnly
<1>2. ~Cycling /\ OnePeriod /\ PlansKnown /\ ~Disabling /\ servers \subseteq Nodes
    BY <1>1, AtRenewal DEF Sound, Founded, DisabledIsOff, Disabling, Typing, PanelsTyped
<1>3. PICK y \in RenewalRec, b \in Services : y = r /\ b = svc
    BY <1>1, AtRenewal DEF Typing, RenewalTyped, BooksTyped
<1>4. svc'.end = svc.end /\ svc'.limit = svc.limit /\ r'.pc \in {"idle", "enable"}
    <2>1. CASE RenewEnd
        BY <1>3, <2>1 DEF RenewEnd, NoRenewal, Services
    <2>2. ASSUME NEW n \in Nodes, RenewEnable(n) \/ RenewEnableFails(n)
          PROVE  svc' = svc /\ r'.pc = "enable"
        <3>1. CASE RenewEnable(n)
            BY <1>1, <1>3, <3>1 DEF RenewEnable, RenewalRec
        <3>2. CASE RenewEnableFails(n)
            BY <1>1, <1>3, <3>2 DEF RenewEnableFails, RenewalRec
        <3> QED
            BY <2>2, <3>1, <3>2
    <2> QED
        BY <2>1, <2>2
<1>5. \A m \in Nodes : panel'[m].plan = panel[m].plan
    <2>1. panel \in [Nodes -> Panels]
        BY DEF Typing, PanelsTyped
    <2>2. CASE RenewEnd
        BY <2>2 DEF RenewEnd
    <2>3. ASSUME NEW n \in Nodes, RenewEnable(n) \/ RenewEnableFails(n)
          PROVE  \A m \in Nodes : panel'[m].plan = panel[m].plan
        <3>1. panel' = panel \/ panel' = [panel EXCEPT ![n].on = TRUE]
            BY <2>3 DEF RenewEnable, RenewEnableFails
        <3> QED
            BY <2>1, <3>1, SwitchedPlan
    <2> QED
        BY <2>2, <2>3
<1>6. OnePeriod' /\ VerifiedForCause'
    BY <1>1, <1>2, <1>4 DEF OnePeriod, VerifiedForCause, Disabling, LiveRows
<1>7. PlansKnown'
    BY <1>1, <1>2, <1>4, <1>5 DEF PlansKnown, Era, Alive
<1>8. CycleFounded'
    BY <1>1, <1>2 DEF CycleFounded, Cycling
<1> QED
    BY <1>6, <1>7, <1>8 DEF Founded

-----------------------------------------------------------------------------
(* The theorem.                                                            *)

LEMMA InitFounded ==
    ASSUME Init
    PROVE  Founded
<1>1. /\ svc.limit = 0 /\ svc.end = 0 /\ r.pc = "idle" /\ Era = 0 /\ ~Cycling /\ servers = Nodes
      /\ \A n \in Nodes : row[n] = FreshRow /\ panel[n].plan = 0
    BY DEF Init, NoRenewal, Cycling, Era
<1>2. OnePeriod /\ PlansKnown /\ CycleFounded
    BY <1>1 DEF OnePeriod, PlansKnown, CycleFounded
<1>3. \A n \in Nodes : row[n].reason = ""
    <2>1. FreshRow.reason = ""
        BY DEF FreshRow
    <2> QED
        BY <1>1, <2>1
<1>4. VerifiedForCause
    BY <1>3 DEF VerifiedForCause, Disabling, LiveRows
<1> QED
    BY <1>2, <1>4 DEF Founded

LEMMA NextKeepsFounded ==
    ASSUME Typing, Typing', Sound, Founded, ViewFounded, Next, upset = {}, upset' = {}
    PROVE  Founded'
<1>1. CASE PanelStep \/ (\E p \in Periods : EndPasses(p)) \/ (\E n \in Nodes : RemoveServer(n))
    BY <1>1, PanelStepFounded, RemoveServerFounded
<1>2. CASE CycleStart \/ CycleRead \/ Crash
    BY <1>2, CycleStartFounded, CycleReadFounded, CrashFounded
<1>3. CASE CycleStep
    <2>1. ASSUME NEW n \in Nodes, VisitStep(n) \/ Off(n) \/ OffFails(n)
          PROVE  Founded'
        BY <2>1, VisitsFounded, VisitAnswersFounded, OffStepsFounded DEF VisitStep
    <2>2. CASE Thaw \/ ThawFails \/ ThawAnswers \/ Record \/ Note
        BY <2>2, ThawsFounded, ThawFailsFounded, RecordFounded, NoteFounded
    <2>3. CASE CloseUnconfirmed \/ CloseInOrder \/ CloseUsedUp \/ OffNote \/ OffEnd
        BY <2>3, ClosesFounded, CloseUsedUpFounded, OffStepsFounded
    <2> QED
        BY <1>3, <2>1, <2>2, <2>3 DEF CycleStep
<1>4. CASE (\E S \in SUBSET Nodes : RefreshRead(S)) \/ RefreshWrite \/ RepairWrite \/ ClearFrozen
    BY <1>4, RefreshReadFounded, RefreshWriteFounded, RepairWriteFounded, ClearFrozenFounded
<1>5. CASE RenewStart \/ RenewDies
    BY <1>5, RenewStartFounded DEF RenewDies
<1>6. CASE RenewStep
    <2>1. CASE RenewPrimary \/ RenewPrimaryFails \/ RenewReset \/ RenewEnd
        BY <2>1, RenewNodesFounded, RenewPrimaryFailsFounded, RenewResetFounded, RenewEnablesFounded
    <2>2. CASE \E n \in Nodes : RenewNode(n) \/ RenewNodeFails(n) \/ RenewEnable(n) \/ RenewEnableFails(n)
        BY <2>2, RenewNodesFounded, RenewEnablesFounded
    <2> QED
        BY <1>6, <2>1, <2>2 DEF RenewStep
<1> QED
    BY <1>1, <1>2, <1>3, <1>4, <1>5, <1>6 DEF Next

LEMMA NextKeepsView ==
    ASSUME Typing, Sound, ViewFounded, Next, upset = {}, upset' = {}
    PROVE  ViewFounded'
<1>1. CASE PanelStep
    <2>1. view' = view
        BY <1>1 DEF PanelStep, Use, CounterReset, CounterCorrected, booksOnly
    <2> QED
        BY <1>1, <2>1, CountersOnly DEF ViewFounded
<1>2. CASE \/ \E p \in Periods : EndPasses(p)
           \/ \E n \in Nodes : RemoveServer(n)
           \/ CycleStart \/ CycleRead \/ ClearFrozen \/ RenewStart \/ RenewDies
    BY <1>2 DEF EndPasses, RemoveServer, CycleStart, CycleRead, ClearFrozen, RenewStart, RenewDies,
                booksOnly, cycleOnly, renewOnly, ViewFounded
<1>3. CASE CycleStep
    <2>1. e.pc # "idle" /\ view' = view
        BY <1>3 DEF CycleStep, VisitStep, VisitDeleted, VisitRemoved, VisitAnswers, VisitFails, Off,
                    OffFails, Thaw, ThawFails, ThawAnswers, Record, Note, CloseUnconfirmed,
                    CloseInOrder, CloseUsedUp, OffNote, OffEnd, cycleOnly
    <2>2. view = NoView
        BY <2>1, CycleAlone DEF Viewing
    <2> QED
        BY <2>1, <2>2 DEF ViewFounded, NoView
<1>4. CASE Crash \/ RefreshWrite \/ RepairWrite
    BY <1>4 DEF Crash, RefreshWrite, RepairWrite, Viewed, ViewFounded, NoView
<1>5. CASE \E S \in SUBSET Nodes : RefreshRead(S)
    BY <1>5 DEF RefreshRead, ViewFounded, Reading
<1>6. CASE RenewStep
    <2>1. r.pc # "idle" /\ view' = view
        BY <1>6 DEF RenewStep, RenewPrimary, RenewPrimaryFails, RenewReset, RenewEnd, RenewNode,
                    RenewNodeFails, RenewEnable, RenewEnableFails, renewOnly
    <2>2. view = NoView
        BY <2>1 DEF Sound, AloneOK, Renewing, NoRenewal, Viewing
    <2> QED
        BY <2>1, <2>2 DEF ViewFounded, NoView
<1> QED
    BY <1>1, <1>2, <1>3, <1>4, <1>5, <1>6 DEF Next

FoundedInOrder == upset = {} => Founded /\ ViewFounded

LEMMA SpecFounded == Spec => []FoundedInOrder
<1>1. Init => FoundedInOrder
    BY InitFounded DEF FoundedInOrder, Init, NoView, ViewFounded
<1>2. /\ FoundedInOrder /\ InOrder /\ Typing /\ Typing' /\ [Next]_vars => FoundedInOrder'
    <2>1. SUFFICES ASSUME FoundedInOrder, InOrder, Typing, Typing', [Next]_vars, upset' = {}
                   PROVE  Founded' /\ ViewFounded'
        BY DEF FoundedInOrder
    <2>2. CASE Next
        <3>1. upset = {}
            BY <2>2, <2>1, UpsetGrows
        <3> QED
            BY <2>1, <2>2, <3>1, NextKeepsFounded, NextKeepsView DEF FoundedInOrder, InOrder
    <2>3. CASE UNCHANGED vars
        <3>1. UNCHANGED <<svc, row, panel, past, servers, e, view, r, upset>>
            BY <2>3 DEF vars
        <3>2. Founded /\ ViewFounded
            BY <2>1, <3>1 DEF FoundedInOrder
        <3>3. OnePeriod' /\ PlansKnown' /\ VerifiedForCause'
            BY <3>1, <3>2 DEF Founded, OnePeriod, PlansKnown, Alive, Era, VerifiedForCause, Disabling,
                              LiveRows, CauseIn, Charge, Living
        <3>4. CycleFounded'
            BY <3>1, <3>2 DEF Founded, CycleFounded, Cycling, Asked, Living, Alive, CauseIn, Charge
        <3>5. ViewFounded'
            BY <3>1, <3>2 DEF ViewFounded
        <3> QED
            BY <3>3, <3>4, <3>5 DEF Founded
    <2> QED
        BY <2>1, <2>2, <2>3
<1> QED
    BY <1>1, <1>2, UsageInOrder, SpecTyped, PTL DEF Spec

\* Whatever a cycle adds up while panels are asked, samples are written and
\* servers are removed, it notes a user as disabled only when the present period
\* of the service is used up or over, as long as none of the causes named in upset
\* has come up.
THEOREM UsageDisabledForCause == Spec => []DisabledForCause
<1>1. FoundedInOrder /\ Typing => DisabledForCause
    <2>1. SUFFICES ASSUME Founded, r.pc = "idle", NEW n \in LiveRows, row[n].reason = "verified"
                   PROVE  \/ svc.end \in past
                          \/ Total([m \in {k \in Nodes : row[k].state # "gone"} |-> row[m].eff])
                                 >= Quota[svc.limit]
        BY DEF FoundedInOrder, DisabledForCause, Quiet, Renewing, NoRenewal
    <2>2. CauseIn(svc)
        BY <2>1 DEF Founded, VerifiedForCause, Disabling
    <2>3. Charge(Living) = Total([m \in {k \in Nodes : row[k].state # "gone"} |-> row[m].eff])
        BY DEF Charge, Charged, Living, Alive
    <2> QED
        BY <2>2, <2>3 DEF CauseIn
<1> QED
    BY <1>1, SpecFounded, SpecTyped, PTL

-----------------------------------------------------------------------------
(* The usage of a node is monotonic.                                       *)

LEMMA NotesGrow ==
    ASSUME row \in [Nodes -> Rows], NEW n, NEW s, NEW reason, NEW b,
           \/ row' = [row EXCEPT ![n].reason = reason, ![n].active = b]
           \/ row' = [row EXCEPT ![n].state = IF @ = "gone" THEN @ ELSE s,
                                 ![n].reason = reason, ![n].active = b]
    PROVE  EffsGrow
<1>1. SUFFICES ASSUME NEW m \in Nodes PROVE row[m].eff <= row'[m].eff
    BY DEF EffsGrow
<1>2. PICK x \in Rows : x = row[m]
    OBVIOUS
<1>3. PICK z : z = IF x.state = "gone" THEN x.state ELSE s
    OBVIOUS
<1>4. /\ [x EXCEPT !.reason = reason, !.active = b].eff = x.eff
      /\ [x EXCEPT !.state = z, !.reason = reason, !.active = b].eff = x.eff
      /\ x.eff \in Nat
    BY DEF Rows
<1>5. CASE m # n
    BY <1>2, <1>4, <1>5
<1>6. CASE m = n /\ row' = [row EXCEPT ![n].reason = reason, ![n].active = b]
    BY <1>2, <1>4, <1>6
<1>7. CASE m = n /\ row' = [row EXCEPT ![n].state = IF @ = "gone" THEN @ ELSE s,
                                       ![n].reason = reason, ![n].active = b]
    BY <1>2, <1>3, <1>4, <1>7
<1> QED
    BY <1>5, <1>6, <1>7

\* Only the renewal that begins a new period counts from zero again.
Monotonic == RenewReset \/ EffsGrow

LEMMA NextMonotonic ==
    ASSUME Typing, Next, ~RenewReset
    PROVE  EffsGrow
<1>0. row \in [Nodes -> Rows]
    BY DEF Typing, BooksTyped
<1>1. CASE UNCHANGED row
    BY <1>0, <1>1, RowsKept
<1>2. ASSUME NEW n \in Nodes, RemoveServer(n) \/ VisitRemoved(n)
      PROVE  EffsGrow
    <2>1. row' = [row EXCEPT ![n].state = IF @ = "gone" THEN @ ELSE "deleted",
                             ![n].reason = "", ![n].active = FALSE]
        BY <1>2 DEF RemoveServer, VisitRemoved
    <2> QED
        BY <1>0, <2>1, NotesGrow
<1>3. ASSUME Note PROVE EffsGrow
    <2>1. row' = [row EXCEPT ![e.n].state = IF @ = "gone" THEN @ ELSE "live",
                             ![e.n].reason = "", ![e.n].active = TRUE]
        BY <1>3 DEF Note
    <2>2. PICK n : n = e.n
        OBVIOUS
    <2> QED
        BY <1>0, <2>1, <2>2, NotesGrow
<1>4. ASSUME NEW n \in Nodes, VisitFails(n) \/ OffFails(n)
      PROVE  EffsGrow
    <2>1. CASE OffFails(n)
        BY <1>0, <2>1, NotesGrow DEF OffFails
    <2>2. CASE VisitFails(n)
        <3>1. CASE e.map[n].reason = "renew_pending"
            <4>1. row' = [row EXCEPT ![n].reason = "renew_pending", ![n].active = FALSE]
                BY <2>2, <3>1 DEF VisitFails
            <4> QED
                BY <1>0, <4>1, NotesGrow
        <3>2. CASE e.map[n].reason # "renew_pending"
            <4>1. PICK b \in {e.map[n].active, FALSE} :
                      row' = [row EXCEPT ![n].reason = "", ![n].active = b]
                BY <2>2, <3>2 DEF VisitFails
            <4> QED
                BY <1>0, <4>1, NotesGrow
        <3> QED
            BY <3>1, <3>2
    <2> QED
        BY <1>4, <2>1, <2>2
<1>5. ASSUME ThawFails \/ OffNote
      PROVE  EffsGrow
    <2>1. PICK n : n = e.n
        OBVIOUS
    <2>2. CASE ThawFails
        <3>1. row' = [row EXCEPT ![n].reason = "renew_pending", ![n].active = FALSE]
            BY <2>1, <2>2 DEF ThawFails
        <3> QED
            BY <1>0, <3>1, NotesGrow
    <2>3. CASE OffNote
        <3>1. row' = [row EXCEPT ![n].reason = "verified", ![n].active = FALSE]
            BY <2>1, <2>3 DEF OffNote
        <3> QED
            BY <1>0, <3>1, NotesGrow
    <2> QED
        BY <1>5, <2>2, <2>3
<1>6. ASSUME Record PROVE EffsGrow
    <2>1. PICK n \in Nodes, got \in Readings : n = e.n /\ got = e.got
        BY <1>6, CycleAt DEF Record, CycleRec
    <2>2. PICK g : g = [m \in {n} |-> got]
        OBVIOUS
    <2>3. Sample(g, row) /\ \A m \in DOMAIN g : g[m] \in Readings
        BY <1>6, <2>1, <2>2 DEF Record
    <2> QED
        BY <1>0, <2>3, SampleGrows
<1>7. ASSUME RefreshWrite PROVE EffsGrow
    <2>1. Sample(view, row) /\ \A n \in DOMAIN view : view[n] \in Readings
        BY <1>7 DEF RefreshWrite, Typing, ViewTyped
    <2> QED
        BY <1>0, <2>1, SampleGrows
<1>12. ASSUME RepairWrite, NEW n \in Nodes
       PROVE  row[n].eff <= row'[n].eff
    <2>1. PICK x \in Rows : x = row[n]
        BY <1>0
    <2>2. x.eff \in Nat
        BY DEF Rows
    <2>3. DOMAIN view \subseteq Nodes /\ \A m \in DOMAIN view : view[m] \in Readings
        BY DEF Typing, ViewTyped
    <2>4. CASE n \in DOMAIN view /\ Alive(n)
        <3>1. PICK raw \in Nat, b \in BOOLEAN : raw = view[n].raw /\ b = view[n].on
            BY <2>3, <2>4 DEF Readings
        <3>2. row'[n] = Repaired(Recorded(x, raw), b)
            BY <1>12, <2>1, <2>3, <2>4, <3>1, RepairRows
        <3>3. PICK y \in Rows : y = Recorded(x, raw) /\ y.state = x.state /\ y.eff >= x.eff
            BY RecordedTyped
        <3>4. Repaired(y, b).eff = y.eff
            BY <2>1, <2>4, <3>3, RepairedCounts DEF Alive
        <3> QED
            BY <2>1, <3>2, <3>3, <3>4 DEF Rows
    <2>5. CASE ~(n \in DOMAIN view /\ Alive(n))
        <3>1. row'[n] = row[n]
            BY <1>12, <2>3, <2>5, RepairRows
        <3> QED
            BY <2>1, <2>2, <3>1
    <2> QED
        BY <2>4, <2>5
<1>13. ASSUME ClearFrozen, NEW n \in Nodes
       PROVE  row[n].eff <= row'[n].eff
    <2>1. PICK x \in Rows : x = row[n]
        BY <1>0
    <2>2. [x EXCEPT !.state = "gone"].eff = x.eff /\ x.eff \in Nat
        BY DEF Rows
    <2>3. row'[n] = x \/ row'[n] = [x EXCEPT !.state = "gone"]
        BY <1>13, <2>1 DEF ClearFrozen
    <2>4. PICK y : y = row'[n]
        OBVIOUS
    <2>5. y.eff = x.eff
        BY <2>2, <2>3, <2>4
    <2> QED
        BY <2>1, <2>2, <2>4, <2>5
<1>8. CASE PanelStep \/ (\E p \in Periods : EndPasses(p)) \/ CycleStart \/ CycleRead \/ Crash
    BY <1>1, <1>8 DEF PanelStep, Use, CounterReset, CounterCorrected, EndPasses, CycleStart, CycleRead,
                      Crash, booksOnly
<1>9. CASE (\E S \in SUBSET Nodes : RefreshRead(S)) \/ RenewStart \/ RenewDies
    BY <1>1, <1>9 DEF RefreshRead, RenewStart, RenewDies
<1>10. CASE CycleStep
    <2>1. ASSUME NEW n \in Nodes, VisitDeleted(n) \/ VisitAnswers(n) \/ Off(n)
          PROVE  EffsGrow
        BY <1>1, <2>1 DEF VisitDeleted, VisitAnswers, Off
    <2>2. CASE Thaw \/ ThawAnswers \/ CloseUnconfirmed \/ CloseInOrder \/ CloseUsedUp \/ OffEnd
        BY <1>1, <2>2 DEF Thaw, ThawAnswers, CloseUnconfirmed, CloseInOrder, CloseUsedUp, OffEnd
    <2> QED
        BY <1>2, <1>3, <1>4, <1>5, <1>6, <1>10, <2>1, <2>2 DEF CycleStep, VisitStep
<1>11. CASE RenewStep
    BY <1>1, <1>11 DEF RenewStep, RenewPrimary, RenewPrimaryFails, RenewEnd, RenewNode,
                       RenewNodeFails, RenewEnable, RenewEnableFails
<1> QED
    BY <1>2, <1>7, <1>8, <1>9, <1>10, <1>11, <1>12, <1>13 DEF Next, EffsGrow

\* The charge in the row of a node never goes down within a period, whatever its
\* panel shows and whatever overlaps, crashes or is lost: a sample adds to it or
\* leaves it as it is, and no note in the row touches it.  A clearing of frozen
\* rows takes whole rows out of the books, and lowers none that it leaves.
THEOREM UsageIsMonotonic == Spec => [][Monotonic]_vars
<1>1. Typing /\ [Next]_vars => [Monotonic]_vars
    BY NextMonotonic DEF Monotonic
<1> QED
    BY <1>1, SpecTyped, PTL DEF Spec
=============================================================================
