--------------------------- MODULE ModsManagerProofs ---------------------------
(***************************************************************************)
(* Proofs about the Mod Manager, for any mods, any number of operations    *)
(* and however often Steam changes: what it offers rests on an inventory   *)
(* of the present Steam session, what is out of date is being read, and a  *)
(* cleanup deletes only what it is entitled to.                            *)
(*                                                                         *)
(* The GTK thread's handlers are functions of the overlay, and so the      *)
(* first half is about those: what each may do to beliefs and authority.   *)
(***************************************************************************)
EXTENDS ModsManager, TLAPS

(* An inventory that is verified is not an old one. *)
Recent(u) == u.verified => ~u.old

(* What the overlay shows is up to date, or is being read. *)
Reading(u) == u.refresh.step # "none" /\ (RefreshIsCurrent(u) \/ u.again)
Fresh(u) == u.validity \in {"stale", "loading"} => Reading(u)

(* Between a Flatpak Steam and its recovery the manager is hidden; it comes
   back with the inventory that the hand-over has brought, which nothing
   touches meanwhile, for no probe is out that could still tell anything.  *)
Sound(u, rec) ==
  /\ rec # "no" => ~u.shown
  /\ u.handoff # "none" => rec = "reset"
  /\ rec = "reset" => u.probe \in {"none", "outdated"}
  /\ u.shown \/ u.handoff = "ready" => Fresh(u)

SteamStates == {"native", "offline", "flatpak"}

UiInv ==
  /\ steam \in SteamStates /\ ui \in Overlays /\ recovering \in {"no", "warned", "reset"}
  /\ Recent(ui) /\ Sound(ui, recovering)

-----------------------------------------------------------------------------
(* What most handlers do to the overlay: no authority is given, no callback
   added, no old inventory verified, ...                                  *)
Derived(u, v) ==
  /\ v \in Overlays /\ (Recent(u) => Recent(v))
  /\ v.request \in {u.request, None} /\ v.permit \in {u.permit, None}
  /\ v.callbacks \subseteq u.callbacks

(* ... and what most of those leave alone. *)
SameSession(u, v) ==
  /\ v.shown = u.shown /\ v.handoff = u.handoff /\ v.probe = u.probe
  /\ v.belief = u.belief /\ v.validity = u.validity
  /\ v.refresh = u.refresh /\ v.again = u.again

Plain(u, v) == Derived(u, v) /\ SameSession(u, v)

LEMMA PlainIsTransitive ==
  ASSUME NEW u, NEW v, NEW w, Plain(u, v), Plain(v, w)
  PROVE  Plain(u, w)
BY DEF Plain, Derived, SameSession

LEMMA DerivedIsTransitive ==
  ASSUME NEW u, NEW v, NEW w, Derived(u, v), Derived(v, w)
  PROVE  Derived(u, w)
BY DEF Derived

LEMMA NoOpIsOperation == NoOp \in Operations /\ Over \in Operations
BY DEF NoOp, Over, Operations, Kinds, Stages

LEMMA NewSessionDerived ==
  ASSUME NEW u \in Overlays
  PROVE  /\ Derived(u, NewSession(u))
         /\ ~NewSession(u).verified
         /\ NewSession(u).shown = u.shown /\ NewSession(u).handoff = u.handoff
         /\ NewSession(u).again = u.again /\ NewSession(u).belief = u.belief
         /\ NewSession(u).refresh.step = u.refresh.step
         /\ u.refresh.step # "none" => NewSession(u).refresh.stale
         /\ NewSession(u).probe \in {"none", "outdated"}
<1> DEFINE r == [u.refresh EXCEPT !.stale = u.refresh.step # "none"]
           p == IF u.probe = "none" THEN u.probe ELSE "outdated"
           v == [u EXCEPT !.verified = FALSE, !.validity = "stale", !.old = TRUE, !.workshop = {}]
           w == [v EXCEPT !.refresh = r]
<1>1. /\ r \in Refreshes /\ r.step = u.refresh.step
      /\ u.refresh.step # "none" => r.stale
  BY DEF Overlays, Refreshes
<1>2. p \in Probes /\ p \in {"none", "outdated"}
  BY DEF Probes
<1>3. /\ v \in Overlays /\ ~v.verified /\ v.refresh = u.refresh
      /\ v.shown = u.shown /\ v.handoff = u.handoff /\ v.probe = u.probe
      /\ v.again = u.again /\ v.belief = u.belief
      /\ v.request = u.request /\ v.permit = u.permit /\ v.callbacks = u.callbacks
  BY DEF Overlays
<1>4. NewSession(u) = [w EXCEPT !.probe = p]
  BY <1>3 DEF NewSession, Overlays
<1> HIDE DEF r, p, v
<1>5. /\ w \in Overlays /\ ~w.verified /\ w.refresh = r
      /\ w.shown = v.shown /\ w.handoff = v.handoff
      /\ w.again = v.again /\ w.belief = v.belief
      /\ w.request = v.request /\ w.permit = v.permit /\ w.callbacks = v.callbacks
  BY <1>1, <1>3 DEF Overlays
<1> HIDE DEF w
<1>6. /\ NewSession(u) \in Overlays /\ NewSession(u).verified = w.verified
      /\ NewSession(u).refresh = w.refresh /\ NewSession(u).probe = p
      /\ NewSession(u).shown = w.shown /\ NewSession(u).handoff = w.handoff
      /\ NewSession(u).again = w.again /\ NewSession(u).belief = w.belief
      /\ NewSession(u).request = w.request /\ NewSession(u).permit = w.permit
      /\ NewSession(u).callbacks = w.callbacks
  BY <1>2, <1>4, <1>5 DEF Overlays
<1>7. QED BY <1>1, <1>2, <1>3, <1>5, <1>6 DEF Derived, Recent

LEMMA FieldUpdates ==
  ASSUME NEW u \in Overlays
  PROVE  /\ \A x \in BOOLEAN : /\ Plain(u, [u EXCEPT !.running = x])
                                /\ Plain(u, [u EXCEPT !.pending = x])
                                /\ Plain(u, [u EXCEPT !.batch = x])
                                /\ Plain(u, [u EXCEPT !.stop = x])
                                /\ Plain(u, [u EXCEPT !.reminded = x])
                                /\ Plain(u, [u EXCEPT !.repaired = x])
         /\ \A x \in None..Notice : Plain(u, [u EXCEPT !.dialog = x])
         /\ Plain(u, [u EXCEPT !.verified = FALSE])
<1> USE DEF Plain, Derived, Recent, SameSession, Overlays
<1>1. \A x \in BOOLEAN : Plain(u, [u EXCEPT !.running = x]) OBVIOUS
<1>2. \A x \in BOOLEAN : Plain(u, [u EXCEPT !.pending = x]) OBVIOUS
<1>3. \A x \in BOOLEAN : Plain(u, [u EXCEPT !.batch = x]) OBVIOUS
<1>4. \A x \in BOOLEAN : Plain(u, [u EXCEPT !.stop = x]) OBVIOUS
<1>5. \A x \in BOOLEAN : Plain(u, [u EXCEPT !.reminded = x]) OBVIOUS
<1>6. \A x \in BOOLEAN : Plain(u, [u EXCEPT !.repaired = x]) OBVIOUS
<1>7. \A x \in None..Notice : Plain(u, [u EXCEPT !.dialog = x]) OBVIOUS
<1>8. Plain(u, [u EXCEPT !.verified = FALSE]) OBVIOUS
<1> HIDE DEF Plain, Derived, Recent, SameSession, Overlays
<1>9. QED BY <1>1, <1>2, <1>3, <1>4, <1>5, <1>6, <1>7, <1>8

LEMMA LosingAuthority ==
  ASSUME NEW u \in Overlays
  PROVE  /\ \A x \in {u.request, None} : Plain(u, [u EXCEPT !.request = x])
         /\ \A x \in {u.permit, None} : Plain(u, [u EXCEPT !.permit = x])
BY ModsManagerAssumption DEF Plain, Derived, Recent, SameSession, Overlays, None

LEMMA DiscardIsPlain ==
  ASSUME NEW u \in Overlays
  PROVE  Plain(u, Discard(u))
<1> DEFINE v == [u EXCEPT !.request = None]
<1>1. Plain(u, v) BY LosingAuthority
<1>2. v \in Overlays BY <1>1 DEF Plain, Derived
<1>3. Discard(u) = [v EXCEPT !.permit = None] BY DEF Discard
<1> HIDE DEF v
<1>4. Plain(v, Discard(u)) BY <1>2, <1>3, LosingAuthority
<1>5. QED BY <1>1, <1>4, PlainIsTransitive

LEMMA DialogIds == None \in None..Notice /\ Notice \in None..Notice /\ Ops \subseteq None..Notice
BY ModsManagerAssumption DEF None, Notice, Ops

LEMMA DiscardOfIsPlain ==
  ASSUME NEW u \in Overlays, NEW i
  PROVE  Plain(u, DiscardOf(u, i)) /\ i \notin {DiscardOf(u, i).request, DiscardOf(u, i).permit} \ {None}
<1> DEFINE x == IF u.request = i THEN None ELSE u.request
           y == IF u.permit = i THEN None ELSE u.permit
           v == [u EXCEPT !.request = x]
<1>1. x \in {u.request, None} /\ y \in {u.permit, None} /\ i \notin {x, y} \ {None}
  OBVIOUS
<1>2. v.permit = u.permit /\ v.request = x /\ DiscardOf(u, i) = [v EXCEPT !.permit = y]
  BY DEF DiscardOf, Overlays
<1> HIDE DEF x, y
<1>3. Plain(u, v) BY <1>1, LosingAuthority
<1>4. v \in Overlays BY <1>3 DEF Plain, Derived
<1> HIDE DEF v
<1>5. Plain(v, DiscardOf(u, i)) BY <1>1, <1>2, <1>4, LosingAuthority
<1>6. DiscardOf(u, i).request = x /\ DiscardOf(u, i).permit = y
  BY <1>2, <1>4 DEF Overlays
<1>7. QED BY <1>1, <1>3, <1>5, <1>6, PlainIsTransitive

LEMMA SettledIsPlain ==
  ASSUME NEW u \in Overlays
  PROVE  Plain(u, Settled(u))
<1> DEFINE v == [u EXCEPT !.pending = FALSE]
<1>1. Plain(u, v) BY FieldUpdates
<1>2. v \in Overlays BY <1>1 DEF Plain, Derived
<1>3. Settled(u) = [v EXCEPT !.running = FALSE] BY DEF Settled
<1> HIDE DEF v
<1>4. Plain(v, Settled(u)) BY <1>2, <1>3, FieldUpdates
<1>5. QED BY <1>1, <1>4, PlainIsTransitive

LEMMA PlainIsSound ==
  ASSUME NEW u, NEW v, NEW rec, Plain(u, v), Sound(u, rec)
  PROVE  Sound(v, rec)
BY DEF Plain, SameSession, Sound, Fresh, Reading, RefreshIsCurrent

LEMMA SetBeliefDerived ==
  ASSUME NEW u \in Overlays, NEW state \in States
  PROVE  /\ Derived(u, SetBelief(u, state))
         /\ u.belief = state => SetBelief(u, state) = u
         /\ SetBelief(u, state).belief = state
         /\ SetBelief(u, state).shown = u.shown /\ SetBelief(u, state).handoff = u.handoff
         /\ SetBelief(u, state).again = u.again
         /\ SetBelief(u, state).refresh.step = u.refresh.step
         /\ SetBelief(u, state).probe \in {u.probe, "none", "outdated"}
         /\ u.belief # state /\ u.refresh.step # "none" => SetBelief(u, state).refresh.stale
<1>1. CASE u.belief = state
  BY <1>1 DEF SetBelief, Derived
<1>2. CASE u.belief # state
  <2> DEFINE n == NewSession(u)
             v == [n EXCEPT !.belief = state]
  <2>1. /\ Derived(u, n) /\ n \in Overlays /\ ~n.verified
        /\ n.shown = u.shown /\ n.handoff = u.handoff
        /\ n.again = u.again /\ n.refresh.step = u.refresh.step
        /\ u.refresh.step # "none" => n.refresh.stale
        /\ n.probe \in {"none", "outdated"}
    BY NewSessionDerived DEF Derived
  <2>2. SetBelief(u, state) = IF state = "offline" THEN v ELSE Discard(v)
    BY <1>2 DEF SetBelief
  <2> HIDE DEF n
  <2>3. /\ v \in Overlays /\ Derived(n, v) /\ v.belief = state
        /\ v.shown = n.shown /\ v.handoff = n.handoff /\ v.again = n.again
        /\ v.refresh = n.refresh /\ v.probe = n.probe
    BY <2>1 DEF Overlays, Derived, Recent
  <2> HIDE DEF v
  <2>4. Derived(u, v) BY <2>1, <2>3, DerivedIsTransitive
  <2>5. Derived(v, Discard(v)) /\ SameSession(v, Discard(v))
    BY <2>3, DiscardIsPlain DEF Plain
  <2>6. Derived(u, Discard(v)) BY <2>4, <2>5, DerivedIsTransitive
  <2>7. QED BY <1>2, <2>1, <2>2, <2>3, <2>4, <2>5, <2>6 DEF SameSession
<1>3. QED BY <1>1, <1>2

LEMMA RefreshDerived ==
  ASSUME NEW u \in Overlays, NEW status \in BOOLEAN
  PROVE  /\ Derived(u, Refresh(u, status)) /\ Reading(Refresh(u, status))
         /\ Refresh(u, status).shown = u.shown /\ Refresh(u, status).handoff = u.handoff
         /\ Refresh(u, status).probe = u.probe /\ Refresh(u, status).belief = u.belief
<1>1. CASE u.refresh.step # "none"
  BY <1>1 DEF Refresh, Reading, Derived, Recent, Overlays
<1>2. CASE u.refresh.step = "none"
  <2> DEFINE r == [NoRefresh EXCEPT !.step = "load", !.start = u.belief, !.status = status]
  <2>1. r \in Refreshes /\ r.step = "load" /\ r.start = u.belief /\ ~r.stale
    BY DEF NoRefresh, Refreshes, Overlays, States
  <2>2. Refresh(u, status) = [u EXCEPT !.refresh = r, !.verified = FALSE, !.validity = "loading"]
    BY <1>2 DEF Refresh
  <2> HIDE DEF r
  <2> DEFINE v == [u EXCEPT !.refresh = r]
  <2>3. /\ v \in Overlays /\ v.refresh = r /\ v.belief = u.belief /\ v.shown = u.shown
        /\ v.handoff = u.handoff /\ v.probe = u.probe /\ v.callbacks = u.callbacks
        /\ v.request = u.request /\ v.permit = u.permit
    BY <2>1 DEF Overlays
  <2> DEFINE w == [v EXCEPT !.verified = FALSE]
  <2>4. Refresh(u, status) = [w EXCEPT !.validity = "loading"]
    BY <2>2
  <2> HIDE DEF v
  <2>v. v \in Overlays BY <2>3
  <2>w. w \in Overlays /\ ~w.verified
    BY <2>v DEF Overlays
  <2>5. Plain(v, w) BY <2>v, FieldUpdates
  <2> HIDE DEF w
  <2>6. /\ w.refresh = r /\ w.belief = u.belief /\ w.shown = u.shown
        /\ w.handoff = u.handoff /\ w.probe = u.probe /\ w.callbacks \subseteq u.callbacks
        /\ w.request \in {u.request, None} /\ w.permit \in {u.permit, None}
    BY <2>3, <2>5 DEF Plain, Derived, SameSession
  <2>7. /\ Refresh(u, status) \in Overlays /\ ~Refresh(u, status).verified
        /\ Refresh(u, status).refresh = w.refresh /\ Refresh(u, status).belief = w.belief
        /\ Refresh(u, status).shown = w.shown /\ Refresh(u, status).handoff = w.handoff
        /\ Refresh(u, status).probe = w.probe /\ Refresh(u, status).callbacks = w.callbacks
        /\ Refresh(u, status).request = w.request /\ Refresh(u, status).permit = w.permit
    BY <2>4, <2>w DEF Overlays
  <2>8. QED BY <2>1, <2>6, <2>7 DEF Reading, RefreshIsCurrent, Derived, Recent
<1>3. QED BY <1>1, <1>2

LEMMA RefreshIsSound ==
  ASSUME NEW u \in Overlays, NEW status \in BOOLEAN, NEW rec,
         rec # "no" => ~u.shown, u.handoff # "none" => rec = "reset",
         rec = "reset" => u.probe \in {"none", "outdated"}
  PROVE  Sound(Refresh(u, status), rec)
BY RefreshDerived DEF Sound, Fresh

LEMMA ProbeDerived ==
  ASSUME NEW u \in Overlays, steam \in SteamStates
  PROVE  /\ Derived(u, Probe(u)) /\ (Fresh(u) => Fresh(Probe(u)))
         /\ Probe(u).shown = u.shown /\ Probe(u).handoff = u.handoff
<1>1. CASE u.probe = "none"
  <2>1. Probe(u) = [u EXCEPT !.probe = steam] BY <1>1 DEF Probe
  <2>2. steam \in Probes BY DEF SteamStates, Probes
  <2>3. /\ Probe(u) \in Overlays /\ Probe(u).shown = u.shown /\ Probe(u).handoff = u.handoff
        /\ Probe(u).request = u.request /\ Probe(u).permit = u.permit
        /\ Probe(u).callbacks = u.callbacks /\ Probe(u).verified = u.verified
        /\ Probe(u).old = u.old /\ Probe(u).validity = u.validity
        /\ Probe(u).refresh = u.refresh /\ Probe(u).belief = u.belief
        /\ Probe(u).again = u.again
    BY <2>1, <2>2 DEF Overlays
  <2>4. QED BY <2>3 DEF Derived, Recent, Fresh, Reading, RefreshIsCurrent
<1>2. CASE u.probe # "none"
  BY <1>2 DEF Probe, Derived
<1>3. QED BY <1>1, <1>2

LEMMA AcceptDerived ==
  ASSUME NEW u \in Overlays
  PROVE  /\ Derived(u, Accept(u))
         /\ Accept(u).shown = u.shown /\ Accept(u).handoff = u.handoff
         /\ Accept(u).probe \in {u.probe, "none", "outdated"}
<1> DEFINE v == SetBelief(u, "native")
           w == [v EXCEPT !.verified = FALSE]
<1>1. /\ Derived(u, v) /\ v \in Overlays /\ v.shown = u.shown /\ v.handoff = u.handoff
      /\ v.probe \in {u.probe, "none", "outdated"}
  BY SetBeliefDerived DEF States, Derived
<1>2. Accept(u) = [w EXCEPT !.validity = "stale", !.workshop = {}]
  BY DEF Accept
<1> HIDE DEF v
<1>3. Plain(v, w) BY <1>1, FieldUpdates
<1>4. w \in Overlays /\ ~w.verified BY <1>1 DEF Overlays
<1> HIDE DEF w
<1>5. /\ Derived(w, Accept(u)) /\ Accept(u).shown = w.shown
      /\ Accept(u).handoff = w.handoff /\ Accept(u).probe = w.probe
  BY ZenonT(60), <1>2, <1>4 DEF Derived, Recent, Overlays
<1>6. Derived(u, Accept(u))
  BY <1>1, <1>3, <1>5, DerivedIsTransitive DEF Plain
<1>7. QED BY <1>1, <1>3, <1>5, <1>6 DEF Plain, SameSession

LEMMA ResetDerived ==
  ASSUME NEW u \in Overlays
  PROVE  /\ Derived(u, Reset(u)) /\ Reset(u).shown = u.shown
         /\ Reset(u).handoff = "none" /\ Reset(u).probe \in {"none", "outdated"}
<1> DEFINE v == NewSession(u)
           w == Discard(v)
           x == [w EXCEPT !.belief = "unknown"]
           y == [x EXCEPT !.callbacks = {}]
           z == [[y EXCEPT !.again = FALSE] EXCEPT !.againStatus = FALSE]
<1>1. /\ Derived(u, v) /\ v \in Overlays /\ ~v.verified /\ v.shown = u.shown
      /\ v.probe \in {"none", "outdated"}
  BY NewSessionDerived DEF Derived
<1>2. Reset(u) = [[z EXCEPT !.handoff = "none"] EXCEPT !.running = FALSE]
  BY DEF Reset
<1> HIDE DEF v
<1>3. Derived(v, w) /\ SameSession(v, w) /\ w \in Overlays
  BY <1>1, DiscardIsPlain DEF Plain, Derived
<1> HIDE DEF w
<1>4. /\ Derived(w, x) /\ x \in Overlays
      /\ x.shown = w.shown /\ x.probe = w.probe
  BY <1>3 DEF Derived, Recent, Overlays, States
<1> HIDE DEF x
<1>5. /\ Derived(x, y) /\ y \in Overlays
      /\ y.shown = x.shown /\ y.probe = x.probe
  BY <1>4 DEF Derived, Recent, Overlays
<1> HIDE DEF y
<1>6. /\ Derived(y, z) /\ z \in Overlays
      /\ z.shown = y.shown /\ z.probe = y.probe
  BY ZenonT(60), <1>5 DEF Derived, Recent, Overlays
<1> HIDE DEF z
<1>7. /\ Derived(z, Reset(u)) /\ Reset(u).shown = z.shown
      /\ Reset(u).handoff = "none" /\ Reset(u).probe = z.probe
  BY ZenonT(60), <1>2, <1>6 DEF Derived, Recent, Overlays
<1>8. Derived(u, Reset(u))
  BY <1>1, <1>3, <1>4, <1>5, <1>6, <1>7, DerivedIsTransitive
<1>9. QED BY <1>1, <1>3, <1>4, <1>5, <1>6, <1>7, <1>8 DEF SameSession

LEMMA HideDerived ==
  ASSUME NEW u \in Overlays
  PROVE  /\ Derived(u, HideNow(u)) /\ ~HideNow(u).shown
         /\ HideNow(u).handoff = u.handoff /\ HideNow(u).probe = u.probe
         /\ Fresh(u) => Fresh(HideNow(u))
<1> DEFINE v == Discard(u)
<1>1. Derived(u, v) /\ SameSession(u, v) /\ v \in Overlays
  BY DiscardIsPlain DEF Plain, Derived
<1>2. HideNow(u) = [v EXCEPT !.shown = FALSE] BY DEF HideNow
<1> HIDE DEF v
<1>3. /\ HideNow(u) \in Overlays /\ ~HideNow(u).shown
      /\ HideNow(u).handoff = v.handoff /\ HideNow(u).probe = v.probe
      /\ HideNow(u).request = v.request /\ HideNow(u).permit = v.permit
      /\ HideNow(u).callbacks = v.callbacks /\ HideNow(u).verified = v.verified
      /\ HideNow(u).old = v.old /\ HideNow(u).validity = v.validity
      /\ HideNow(u).refresh = v.refresh /\ HideNow(u).belief = v.belief
      /\ HideNow(u).again = v.again
  BY <1>1, <1>2 DEF Overlays
<1>4. Derived(v, HideNow(u)) BY <1>3 DEF Derived, Recent
<1>5. Derived(u, HideNow(u)) BY <1>1, <1>4, DerivedIsTransitive
<1>6. QED
  BY <1>1, <1>3, <1>5 DEF SameSession, Fresh, Reading, RefreshIsCurrent

LEMMA BlockDerived ==
  ASSUME NEW u \in Overlays
  PROVE  /\ Derived(u, BlockForFlatpak(u)) /\ ~BlockForFlatpak(u).shown
         /\ BlockForFlatpak(u).handoff = "none"
<1> DEFINE v == Reset(u)
           w == [v EXCEPT !.dialog = None]
<1>1. Derived(u, v) /\ v \in Overlays /\ v.handoff = "none"
  BY ResetDerived DEF Derived
<1>2. BlockForFlatpak(u) = HideNow(w) BY DEF BlockForFlatpak
<1> HIDE DEF v
<1>3. Plain(v, w) BY <1>1, FieldUpdates, DialogIds
<1>4. Derived(v, w) /\ w \in Overlays /\ w.handoff = "none"
  BY <1>1, <1>3 DEF Plain, Derived, SameSession
<1> HIDE DEF w
<1>5. Derived(w, HideNow(w)) /\ ~HideNow(w).shown /\ HideNow(w).handoff = w.handoff
  BY <1>4, HideDerived
<1>6. Derived(u, HideNow(w)) BY <1>1, <1>4, <1>5, DerivedIsTransitive
<1>7. QED BY <1>2, <1>4, <1>5, <1>6

LEMMA ShowDerived ==
  ASSUME NEW u \in Overlays, steam \in SteamStates
  PROVE  /\ Derived(u, Show(u)) /\ Show(u).handoff = u.handoff
         /\ Fresh(u) => Fresh(Show(u))
<1> DEFINE v == [u EXCEPT !.shown = TRUE]
           w == Probe(v)
           x == [w EXCEPT !.repaired = FALSE]
<1>1. /\ v \in Overlays /\ Derived(u, v) /\ v.handoff = u.handoff
      /\ v.validity = u.validity /\ v.refresh = u.refresh
      /\ v.belief = u.belief /\ v.again = u.again
  BY DEF Overlays, Derived, Recent
<1>2. Show(u) = IF u.repaired THEN Refresh(x, TRUE) ELSE w
  BY DEF Show
<1> HIDE DEF v
<1>3. Fresh(u) => Fresh(v)
  BY <1>1 DEF Fresh, Reading, RefreshIsCurrent
<1>4. /\ Derived(v, w) /\ w \in Overlays /\ w.handoff = v.handoff
      /\ Fresh(v) => Fresh(w)
  BY <1>1, ProbeDerived DEF Derived
<1> HIDE DEF w
<1>5. Plain(w, x) BY <1>4, FieldUpdates
<1>6. Derived(w, x) /\ x \in Overlays /\ x.handoff = w.handoff
  BY <1>5 DEF Plain, Derived, SameSession
<1> HIDE DEF x
<1>7. /\ Derived(x, Refresh(x, TRUE)) /\ Reading(Refresh(x, TRUE))
      /\ Refresh(x, TRUE).handoff = x.handoff
  BY <1>6, RefreshDerived
<1>8. Fresh(Refresh(x, TRUE)) BY <1>7 DEF Fresh
<1>9. Derived(u, w) /\ Derived(u, Refresh(x, TRUE))
  BY <1>1, <1>4, <1>6, <1>7, DerivedIsTransitive
<1>10. QED BY <1>1, <1>2, <1>3, <1>4, <1>6, <1>7, <1>8, <1>9

-----------------------------------------------------------------------------
(* The result of an inventory read, applied. *)
LEMMA ApplyItemsDerived ==
  ASSUME NEW u \in Overlays, ~u.refresh.stale, u.refresh.result # "error"
  PROVE  /\ Derived(u, ApplyItems(u)) /\ ApplyItems(u).shown = u.shown
         /\ ApplyItems(u).handoff = u.handoff /\ ApplyItems(u).probe = u.probe
         /\ ApplyItems(u).again = u.again /\ ApplyItems(u).validity = u.refresh.result
         /\ ApplyItems(u).validity \notin {"stale", "loading"}
<1> DEFINE r == u.refresh
           v == [u EXCEPT !.validity = r.result]
           w == [v EXCEPT !.workshop = r.workshop]
           x == [w EXCEPT !.verified = u.belief = "native" /\ r.result = "valid"]
           y == [x EXCEPT !.old = r.stale]
<1>1. r.result \in {"valid", "failed"} /\ r.workshop \subseteq Mods /\ ~r.stale
      /\ r.stale \in BOOLEAN /\ r.status \in BOOLEAN
      /\ u.refresh.result = r.result
  BY DEF Overlays, Refreshes
<1>2. ApplyItems(u) = [y EXCEPT !.running = @ /\ ~r.status]
  BY DEF ApplyItems
<1> HIDE DEF r
<1>3. /\ v \in Overlays /\ v.shown = u.shown /\ v.handoff = u.handoff /\ v.probe = u.probe
      /\ v.again = u.again /\ v.validity = r.result
      /\ v.request = u.request /\ v.permit = u.permit /\ v.callbacks = u.callbacks
  BY <1>1 DEF Overlays
<1> HIDE DEF v
<1>4. /\ w \in Overlays /\ w.shown = v.shown /\ w.handoff = v.handoff /\ w.probe = v.probe
      /\ w.again = v.again /\ w.validity = v.validity
      /\ w.request = v.request /\ w.permit = v.permit /\ w.callbacks = v.callbacks
  BY <1>1, <1>3 DEF Overlays
<1> HIDE DEF w
<1>5. /\ x \in Overlays /\ x.shown = w.shown /\ x.handoff = w.handoff /\ x.probe = w.probe
      /\ x.again = w.again /\ x.validity = w.validity
      /\ x.request = w.request /\ x.permit = w.permit /\ x.callbacks = w.callbacks
  BY ZenonT(60), <1>4 DEF Overlays
<1> HIDE DEF x
<1>6. /\ y \in Overlays /\ y.shown = x.shown /\ y.handoff = x.handoff /\ y.probe = x.probe
      /\ y.again = x.again /\ y.validity = x.validity /\ ~y.old
      /\ y.request = x.request /\ y.permit = x.permit /\ y.callbacks = x.callbacks
  BY <1>1, <1>5 DEF Overlays
<1> HIDE DEF y
<1>7. (y.running /\ ~r.status) \in BOOLEAN /\ ApplyItems(u) = [y EXCEPT !.running = y.running /\ ~r.status]
  BY <1>2, <1>6 DEF Overlays
<1>8. Plain(y, ApplyItems(u)) /\ ApplyItems(u).old = y.old
  <2>1. Plain(y, ApplyItems(u)) BY <1>6, <1>7, FieldUpdates
  <2>2. ApplyItems(u).old = y.old BY <1>6, <1>7 DEF Overlays
  <2>3. QED BY <2>1, <2>2
<1>9. /\ y.shown = u.shown /\ y.handoff = u.handoff /\ y.probe = u.probe /\ y.again = u.again
      /\ y.validity = r.result /\ y.request = u.request /\ y.permit = u.permit
      /\ y.callbacks = u.callbacks
  BY <1>3, <1>4, <1>5, <1>6
<1>10. Derived(u, ApplyItems(u))
  BY <1>6, <1>8, <1>9 DEF Plain, Derived, Recent
<1>11. QED
  BY <1>1, <1>8, <1>9, <1>10 DEF Plain, SameSession

LEMMA ApplyLoadErrorDerived ==
  ASSUME NEW u \in Overlays
  PROVE  /\ Derived(u, ApplyLoadError(u)) /\ ApplyLoadError(u).shown = u.shown
         /\ ApplyLoadError(u).handoff = u.handoff /\ ApplyLoadError(u).probe = u.probe
         /\ ApplyLoadError(u).validity = "failed"
<1> DEFINE v == [u EXCEPT !.validity = "failed"]
           w == [v EXCEPT !.workshop = {}]
           x == [w EXCEPT !.verified = FALSE]
           b == u.running /\ ~u.refresh.status
           y == [x EXCEPT !.running = b]
<1>1. b \in BOOLEAN OBVIOUS
<1>2. ApplyLoadError(u) = [y EXCEPT !.dialog = Notice]
  BY DEF ApplyLoadError, Overlays
<1> HIDE DEF b
<1>3. /\ v \in Overlays /\ v.shown = u.shown /\ v.handoff = u.handoff /\ v.probe = u.probe
      /\ v.validity = "failed" /\ Derived(u, v)
  BY DEF Overlays, Derived, Recent
<1> HIDE DEF v
<1>4. /\ w \in Overlays /\ w.shown = v.shown /\ w.handoff = v.handoff /\ w.probe = v.probe
      /\ w.validity = v.validity /\ w.verified = v.verified /\ w.old = v.old
      /\ w.request = v.request /\ w.permit = v.permit /\ w.callbacks = v.callbacks
  BY <1>3 DEF Overlays
<1>v. Derived(v, w) BY <1>4 DEF Derived, Recent
<1> HIDE DEF w
<1>5. Plain(w, x) BY <1>4, FieldUpdates
<1>6. x \in Overlays BY <1>5 DEF Plain, Derived
<1> HIDE DEF x
<1>7. Plain(x, y) BY <1>1, <1>6, FieldUpdates
<1>8. y \in Overlays BY <1>7 DEF Plain, Derived
<1> HIDE DEF y
<1>9. Plain(y, ApplyLoadError(u)) BY <1>2, <1>8, FieldUpdates, DialogIds
<1>10. Plain(w, ApplyLoadError(u)) BY <1>5, <1>7, <1>9, PlainIsTransitive
<1>11. Derived(u, ApplyLoadError(u))
  BY <1>3, <1>v, <1>10, DerivedIsTransitive DEF Plain
<1>12. QED BY <1>3, <1>4, <1>10, <1>11 DEF Plain, SameSession

-----------------------------------------------------------------------------
(* _finish_inventory_refresh. *)
LEMMA ChooseIsIn ==
  ASSUME NEW S, S # {}
  PROVE  (CHOOSE i \in S : TRUE) \in S
OBVIOUS

LEMMA RestedDerived ==
  ASSUME NEW u \in Overlays
  PROVE  /\ Derived(u, Rested(u)) /\ Rested(u).shown = u.shown
         /\ Rested(u).handoff = u.handoff /\ Rested(u).probe = u.probe
         /\ Rested(u).validity = u.validity
         /\ Rested(u).pending = u.pending /\ Rested(u).dialog = u.dialog
<1> DEFINE v == [u EXCEPT !.refresh = NoRefresh]
<1>1. NoRefresh \in Refreshes BY DEF NoRefresh, Refreshes, States
<1>2. /\ v \in Overlays /\ v.shown = u.shown /\ v.handoff = u.handoff
      /\ v.probe = u.probe /\ v.validity = u.validity
      /\ v.pending = u.pending /\ v.dialog = u.dialog
      /\ v.verified = u.verified /\ v.old = u.old
      /\ v.request = u.request /\ v.permit = u.permit /\ v.callbacks = u.callbacks
  BY <1>1 DEF Overlays
<1> DEFINE w == [v EXCEPT !.again = FALSE]
<1>3. Rested(u) = [w EXCEPT !.againStatus = FALSE]
  BY DEF Rested
<1> HIDE DEF v
<1>4. /\ w \in Overlays /\ w.shown = v.shown /\ w.handoff = v.handoff
      /\ w.probe = v.probe /\ w.validity = v.validity
      /\ w.pending = v.pending /\ w.dialog = v.dialog
      /\ w.verified = v.verified /\ w.old = v.old
      /\ w.request = v.request /\ w.permit = v.permit /\ w.callbacks = v.callbacks
  BY <1>2 DEF Overlays
<1> HIDE DEF w
<1>5. /\ Rested(u) \in Overlays /\ Rested(u).shown = w.shown /\ Rested(u).handoff = w.handoff
      /\ Rested(u).probe = w.probe /\ Rested(u).validity = w.validity
      /\ Rested(u).pending = w.pending /\ Rested(u).dialog = w.dialog
      /\ Rested(u).verified = w.verified /\ Rested(u).old = w.old
      /\ Rested(u).request = w.request /\ Rested(u).permit = w.permit
      /\ Rested(u).callbacks = w.callbacks
  BY ZenonT(60), <1>3, <1>4 DEF Overlays
<1>6. QED BY <1>2, <1>4, <1>5 DEF Derived, Recent

LEMMA CallBackDerived ==
  ASSUME NEW u \in Overlays, NEW success \in BOOLEAN
  PROVE  /\ Derived(u, CallBack(u, success)) /\ CallBack(u, success).shown = u.shown
         /\ CallBack(u, success).probe = u.probe /\ CallBack(u, success).validity = u.validity
         /\ CallBack(u, success).callbacks = {}
         /\ CallBack(u, success).handoff = IF u.handoff # "waiting" THEN u.handoff
                                            ELSE IF success THEN "ready" ELSE "failed"
<1> DEFINE asked == Asked(u, success)
           p == u.pending /\ u.callbacks \subseteq asked
           d == IF asked # {} THEN CHOOSE i \in asked : TRUE ELSE u.dialog
           h == IF u.handoff # "waiting" THEN u.handoff
                ELSE IF success THEN "ready" ELSE "failed"
           w == Rested(u)
           a == [w EXCEPT !.callbacks = {}]
           b == [a EXCEPT !.pending = p]
           c == [b EXCEPT !.dialog = d]
<1>1. p \in BOOLEAN /\ d \in None..Notice /\ h \in {"none", "ready", "failed"}
  <2>1. u.callbacks \subseteq Ops /\ u.dialog \in None..Notice
        /\ u.handoff \in {"none", "waiting", "ready", "failed"}
    BY DEF Overlays
  <2>2. asked \subseteq Ops BY <2>1 DEF Asked
  <2>3. asked # {} => (CHOOSE i \in asked : TRUE) \in asked BY ChooseIsIn
  <2> HIDE DEF asked
  <2>4. d \in None..Notice BY <2>1, <2>2, <2>3, DialogIds
  <2>5. QED BY <2>1, <2>4
<1>2. /\ Derived(u, w) /\ w \in Overlays /\ w.shown = u.shown
      /\ w.handoff = u.handoff /\ w.probe = u.probe /\ w.validity = u.validity
      /\ w.pending = u.pending /\ w.dialog = u.dialog
  BY RestedDerived DEF Derived
<1> HIDE DEF w, asked
<1>3. /\ a \in Overlays /\ Derived(w, a) /\ a.shown = w.shown /\ a.handoff = w.handoff
      /\ a.callbacks = {}
      /\ a.probe = w.probe /\ a.validity = w.validity
      /\ a.pending = w.pending /\ a.dialog = w.dialog
  BY <1>2 DEF Overlays, Derived, Recent
<1>4. CallBack(u, success) =
        [[[a EXCEPT !.pending = @ /\ u.callbacks \subseteq asked]
            EXCEPT !.dialog = IF asked # {} THEN CHOOSE i \in asked : TRUE ELSE @]
            EXCEPT !.handoff = IF @ # "waiting" THEN @
                               ELSE IF success THEN "ready" ELSE "failed"]
  BY DEF CallBack, asked, w
<1> HIDE DEF a
<1>5. [a EXCEPT !.pending = @ /\ u.callbacks \subseteq asked] = b
  BY <1>2, <1>3 DEF Overlays
<1> HIDE DEF p
<1>6. Plain(a, b) BY <1>1, <1>3, FieldUpdates
<1>7. b \in Overlays /\ b.dialog = a.dialog BY <1>1, <1>3 DEF Overlays
<1>8. b.handoff = a.handoff BY <1>6 DEF Plain, SameSession
<1> HIDE DEF b
<1>9. [b EXCEPT !.dialog = IF asked # {} THEN CHOOSE i \in asked : TRUE ELSE @] = c
  BY <1>2, <1>3, <1>7 DEF Overlays
<1> HIDE DEF d
<1>10. Plain(b, c) BY <1>1, <1>7, FieldUpdates
<1>11. c \in Overlays BY <1>10 DEF Plain, Derived
<1>12. c.handoff = u.handoff BY <1>2, <1>3, <1>8, <1>10 DEF Plain, SameSession
<1> HIDE DEF c
<1>13. CallBack(u, success) = [c EXCEPT !.handoff = h]
  <2>1. CallBack(u, success) =
          [c EXCEPT !.handoff = IF @ # "waiting" THEN @ ELSE IF success THEN "ready" ELSE "failed"]
    BY ZenonT(60), <1>4, <1>5, <1>9
  <2>2. [c EXCEPT !.handoff = IF @ # "waiting" THEN @ ELSE IF success THEN "ready" ELSE "failed"]
          = [c EXCEPT !.handoff = IF c.handoff # "waiting" THEN c.handoff
                                  ELSE IF success THEN "ready" ELSE "failed"]
    BY <1>11 DEF Overlays
  <2>3. QED BY <1>12, <2>1, <2>2
<1> HIDE DEF h
<1>14. /\ CallBack(u, success) \in Overlays /\ Derived(c, CallBack(u, success))
       /\ CallBack(u, success).shown = c.shown /\ CallBack(u, success).handoff = h
       /\ CallBack(u, success).probe = c.probe /\ CallBack(u, success).validity = c.validity
  BY <1>1, <1>11, <1>13 DEF Overlays, Derived, Recent
<1>15. Plain(a, c) BY <1>6, <1>10, PlainIsTransitive
<1>16. Derived(u, CallBack(u, success))
  BY <1>2, <1>3, <1>14, <1>15, DerivedIsTransitive DEF Plain
<1>17. CallBack(u, success).callbacks = {}
  BY <1>3, <1>14, <1>15 DEF Plain, Derived
<1>18. QED BY <1>2, <1>3, <1>14, <1>15, <1>16, <1>17 DEF Plain, SameSession, h

LEMMA PromptIsPlain ==
  ASSUME NEW u \in Overlays, NEW prompted \in SUBSET Ops
  PROVE  Plain(u, Prompt(u, prompted))
<1> DEFINE a == [u EXCEPT !.pending = TRUE]
           b == [a EXCEPT !.reminded = TRUE]
           d == CHOOSE i \in prompted : TRUE
<1>1. CASE prompted = {}
  BY <1>1 DEF Prompt, Plain, Derived, SameSession
<1>2. CASE prompted # {}
  <2>1. d \in None..Notice
    BY <1>2, ChooseIsIn, DialogIds
  <2>2. Prompt(u, prompted) = [b EXCEPT !.dialog = d]
    BY <1>2 DEF Prompt
  <2> HIDE DEF d
  <2>3. Plain(u, a) BY FieldUpdates
  <2>4. a \in Overlays BY <2>3 DEF Plain, Derived
  <2> HIDE DEF a
  <2>5. Plain(a, b) BY <2>4, FieldUpdates
  <2>6. b \in Overlays BY <2>5 DEF Plain, Derived
  <2> HIDE DEF b
  <2>7. Plain(b, Prompt(u, prompted)) BY <2>1, <2>2, <2>6, FieldUpdates
  <2>8. QED BY <2>3, <2>5, <2>7, PlainIsTransitive
<1>3. QED BY <1>1, <1>2

LEMMA FinishRefreshUi ==
  ASSUME NEW u \in Overlays, Recent(u), NEW success \in BOOLEAN, NEW reminder \in BOOLEAN,
         FinishRefresh(u, success, reminder),
         recovering # "no" => ~u.shown, u.handoff # "none" => recovering = "reset",
         recovering = "reset" => u.probe \in {"none", "outdated"},
         u.handoff # "ready", success => u.validity = "valid",
         u.shown /\ ~u.again => u.validity \notin {"stale", "loading"}
  PROVE  /\ Derived(u, ui') /\ Sound(ui', recovering)
         /\ ~(u.again /\ u.shown) => ui'.callbacks = {}
<1> DEFINE prompted == IF reminder THEN Unused ELSE {}
           w == Rested(u)
           v == CallBack(u, success)
           x == IF u.again /\ u.shown THEN Refresh(w, u.againStatus) ELSE v
<1>1. ui' = Prompt(x, prompted) /\ prompted \in SUBSET Ops
  BY DEF FinishRefresh, Gtk, Unused
<1>2. /\ Derived(u, w) /\ w.shown = u.shown /\ w.handoff = u.handoff
      /\ w.probe = u.probe /\ w \in Overlays
  BY RestedDerived DEF Derived
<1>3. /\ Derived(u, v) /\ v.shown = u.shown /\ v.probe = u.probe /\ v.validity = u.validity
      /\ v.callbacks = {}
      /\ v.handoff = IF u.handoff # "waiting" THEN u.handoff
                      ELSE IF success THEN "ready" ELSE "failed"
  BY CallBackDerived
<1> HIDE DEF w, v, prompted
<1>4. Derived(u, x) /\ Sound(x, recovering)
  <2>1. CASE u.again /\ u.shown
    <3>1. u.againStatus \in BOOLEAN BY DEF Overlays
    <3>2. Derived(w, Refresh(w, u.againStatus)) BY <1>2, <3>1, RefreshDerived
    <3>3. Sound(Refresh(w, u.againStatus), recovering)
      BY <1>2, <3>1, RefreshIsSound
    <3>4. Derived(u, Refresh(w, u.againStatus))
      BY <1>2, <3>2, DerivedIsTransitive
    <3>5. QED BY <2>1, <3>3, <3>4
  <2>2. CASE ~(u.again /\ u.shown)
    <3>1. v.handoff = "ready" => v.validity = "valid"
      BY <1>3
    <3>2. v.handoff # "none" => recovering = "reset"
      BY <1>3
    <3>3. Sound(v, recovering)
      BY <1>3, <2>2, <3>1, <3>2 DEF Sound, Fresh
    <3>4. QED BY <1>3, <2>2, <3>3
  <2>3. QED BY <2>1, <2>2
<1>c. ~(u.again /\ u.shown) => x.callbacks = {}
  BY <1>3
<1> HIDE DEF x
<1>5. x \in Overlays BY <1>4 DEF Derived
<1>6. Plain(x, ui') BY <1>1, <1>5, PromptIsPlain
<1>7. Derived(u, ui') BY <1>4, <1>6, DerivedIsTransitive DEF Plain
<1>8. Sound(ui', recovering) BY <1>4, <1>6, PlainIsSound
<1>9. ~(u.again /\ u.shown) => ui'.callbacks = {}
  BY <1>c, <1>6 DEF Plain, Derived
<1>10. QED BY <1>7, <1>8, <1>9

-----------------------------------------------------------------------------
(* The steps, as far as the overlay is concerned. *)
LEMMA PlainStep ==
  ASSUME UiInv, Plain(ui, ui'), UNCHANGED <<steam, recovering>>
  PROVE  UiInv' /\ Derived(ui, ui')
<1>1. Derived(ui, ui') /\ Sound(ui', recovering)
  BY PlainIsSound DEF UiInv, Plain
<1>2. QED BY <1>1 DEF UiInv, Derived, SteamStates

LEMMA DerivedStep ==
  ASSUME UiInv, Derived(ui, ui'), Sound(ui', recovering'), steam' = steam,
         recovering' \in {"no", "warned", "reset"}
  PROVE  UiInv' /\ Derived(ui, ui')
BY DEF UiInv, Derived, SteamStates

(* An inventory read goes on. *)
GoesOn(s) ==
  /\ s \in Refreshes /\ s.step # "none" /\ ui.refresh.step # "none"
  /\ s.start = ui.refresh.start /\ s.stale = ui.refresh.stale
  /\ ui' = [ui EXCEPT !.refresh = s]

LEMMA LoadGoesOn ==
  ASSUME ui \in Overlays, account \subseteq Mods, LoadItems
  PROVE  \E s : GoesOn(s)
<1> DEFINE r == ui.refresh
<1>1. r \in Refreshes /\ r.step = "load" BY DEF Overlays, LoadItems
<1>2. CASE ui' = [ui EXCEPT !.refresh = [r EXCEPT !.step = "end", !.result = "valid",
                                                  !.workshop = account]]
  <2>1. PICK s : s = [r EXCEPT !.step = "end", !.result = "valid", !.workshop = account]
    OBVIOUS
  <2>2. s \in Refreshes /\ s.step # "none" /\ s.start = r.start /\ s.stale = r.stale
    BY <1>1, <2>1 DEF Refreshes
  <2>3. QED BY <1>1, <1>2, <2>1, <2>2 DEF GoesOn
<1>3. CASE ui' = [ui EXCEPT !.refresh = [r EXCEPT !.step = "end"]]
  <2>1. PICK s : s = [r EXCEPT !.step = "end"] OBVIOUS
  <2>2. s \in Refreshes /\ s.step # "none" /\ s.start = r.start /\ s.stale = r.stale
    BY <1>1, <2>1 DEF Refreshes
  <2>3. QED BY <1>1, <1>3, <2>1, <2>2 DEF GoesOn
<1>4. CASE ui' = [ui EXCEPT !.refresh = [r EXCEPT !.step = "posted", !.result = "error",
                                                  !.end = r.start]]
  <2>1. PICK s : s = [r EXCEPT !.step = "posted", !.result = "error", !.end = r.start] OBVIOUS
  <2>2. s \in Refreshes /\ s.step # "none" /\ s.start = r.start /\ s.stale = r.stale
    BY <1>1, <2>1 DEF Refreshes
  <2>3. QED BY <1>1, <1>4, <2>1, <2>2 DEF GoesOn
<1>5. QED BY <1>2, <1>3, <1>4 DEF LoadItems, InventoryStep

LEMMA EndGoesOn ==
  ASSUME ui \in Overlays, steam \in SteamStates, ObserveEnd
  PROVE  \E s : GoesOn(s)
<1> DEFINE r == ui.refresh
<1>1. r \in Refreshes /\ r.step # "none" BY DEF Overlays, ObserveEnd
<1>2. Observed \in States BY DEF SteamStates, Observed, States
<1>3. PICK s : s = [r EXCEPT !.step = "posted", !.end = Observed] OBVIOUS
<1>4. s \in Refreshes /\ s.step # "none" /\ s.start = r.start /\ s.stale = r.stale
  BY <1>1, <1>2, <1>3 DEF Refreshes
<1>5. ui' = [ui EXCEPT !.refresh = s]
  BY <1>3 DEF ObserveEnd, InventoryStep
<1>6. QED BY <1>1, <1>4, <1>5 DEF GoesOn

LEMMA ReadingStep ==
  ASSUME UiInv, account \subseteq Mods, LoadItems \/ ObserveEnd
  PROVE  UiInv' /\ Derived(ui, ui')
<1>1. UNCHANGED <<steam, recovering>>
  BY DEF LoadItems, ObserveEnd, InventoryStep
<1>2. ui \in Overlays /\ steam \in SteamStates
  BY DEF UiInv
<1>3. PICK s : GoesOn(s) BY <1>2, LoadGoesOn, EndGoesOn
<1>4. /\ ui' \in Overlays /\ ui'.refresh = s /\ ui'.shown = ui.shown
      /\ ui'.handoff = ui.handoff /\ ui'.probe = ui.probe /\ ui'.belief = ui.belief
      /\ ui'.validity = ui.validity /\ ui'.again = ui.again /\ ui'.old = ui.old
      /\ ui'.verified = ui.verified /\ ui'.callbacks = ui.callbacks
      /\ ui'.request = ui.request /\ ui'.permit = ui.permit
  BY <1>2, <1>3 DEF GoesOn, Overlays
<1>5. Derived(ui, ui') BY <1>4 DEF Derived, Recent
<1>6. Fresh(ui) => Fresh(ui')
  BY <1>3, <1>4 DEF GoesOn, Fresh, Reading, RefreshIsCurrent
<1>7. Sound(ui', recovering') BY <1>1, <1>4, <1>6 DEF UiInv, Sound
<1>8. QED BY <1>1, <1>5, <1>7, DerivedStep DEF UiInv

(* _apply_items, and whatever waited for it. *)
Finishing(u, success, reminder) ==
  /\ FinishRefresh(u, success, reminder)
  /\ u.callbacks \subseteq ui.callbacks
  /\ ~(u.again /\ u.shown) => ui'.callbacks = {}

LEMMA ApplyRefreshStep ==
  ASSUME UiInv, ApplyRefresh
  PROVE  /\ UiInv' /\ Derived(ui, ui')
         /\ \E u, success, reminder : Finishing(u, success, reminder)
<1> DEFINE r == ui.refresh
           believed == IF r.end = r.start THEN ui ELSE SetBelief(ui, r.end)
           a == believed.again \/ (ui.shown /\ r.end \notin {r.start, ui.belief})
           u == [believed EXCEPT !.again = a]
<1>1. /\ ui \in Overlays /\ Recent(ui) /\ Sound(ui, recovering) /\ r.step = "posted"
      /\ ui.handoff # "ready" /\ r \in Refreshes /\ r.end \in States
  BY DEF UiInv, ApplyRefresh, Overlays, Refreshes
<1>2. /\ Derived(ui, believed) /\ believed \in Overlays
      /\ believed.shown = ui.shown /\ believed.handoff = ui.handoff
      /\ believed.again = ui.again /\ believed.refresh.step = r.step
      /\ believed.probe \in {ui.probe, "none", "outdated"}
      /\ believed = ui \/ believed.refresh.stale
      /\ r.end \in {r.start, ui.belief} => believed = ui
  <2>1. CASE r.end = r.start
    BY <1>1, <2>1 DEF Derived
  <2>2. CASE r.end # r.start
    BY <1>1, <2>2, SetBeliefDerived DEF Derived
  <2>3. QED BY <2>1, <2>2
<1>3. /\ \/ ~RefreshIsCurrent(u) /\ FinishRefresh(u, FALSE, FALSE)
         \/ /\ RefreshIsCurrent(u) /\ r.result = "error"
            /\ FinishRefresh(ApplyLoadError(u), FALSE, FALSE)
         \/ /\ RefreshIsCurrent(u) /\ r.result # "error"
            /\ \E reminder \in BOOLEAN :
                 FinishRefresh(ApplyItems(u), r.result = "valid" /\ ~u.again, reminder)
      /\ UNCHANGED <<steam, recovering>>
  <2>1. ASSUME NEW x, NEW success, NEW reminder, FinishRefresh(x, success, reminder)
        PROVE  UNCHANGED <<steam, recovering>>
    BY <2>1 DEF FinishRefresh, Gtk
  <2>2. u = [believed EXCEPT !.again = @ \/ (ui.shown /\ r.end \notin {r.start, ui.belief})]
    BY <1>2
  <2>3. CASE ~RefreshIsCurrent(u)
    <3>1. FinishRefresh(u, FALSE, FALSE) BY <2>2, <2>3 DEF ApplyRefresh
    <3>2. QED BY <2>1, <2>3, <3>1
  <2>4. CASE RefreshIsCurrent(u) /\ r.result = "error"
    <3>1. FinishRefresh(ApplyLoadError(u), FALSE, FALSE) BY <2>2, <2>4 DEF ApplyRefresh
    <3>2. QED BY <2>1, <2>4, <3>1
  <2>5. CASE RefreshIsCurrent(u) /\ r.result # "error"
    <3>1. PICK reminder \in BOOLEAN :
            FinishRefresh(ApplyItems(u), r.result = "valid" /\ ~u.again, reminder)
      BY <2>2, <2>5 DEF ApplyRefresh
    <3>2. QED BY <2>1, <2>5, <3>1
  <2>6. QED BY <2>3, <2>4, <2>5
<1> HIDE DEF believed
<1>4. /\ u \in Overlays /\ Derived(believed, u) /\ u.shown = believed.shown
      /\ u.handoff = believed.handoff /\ u.again = a /\ u.probe = believed.probe
      /\ u.refresh = believed.refresh /\ u.belief = believed.belief
      /\ u.validity = believed.validity
  <2>1. a \in BOOLEAN BY <1>1, <1>2 DEF Overlays
  <2> HIDE DEF a
  <2>2. QED BY <1>2, <2>1 DEF Overlays, Derived, Recent
<1>5. u.shown /\ ~u.again => believed = ui /\ Fresh(ui) /\ ~ui.again
  BY <1>1, <1>2, <1>4 DEF Sound
<1>6. Derived(ui, u) /\ Recent(u)
  BY <1>1, <1>2, <1>4, DerivedIsTransitive DEF Derived
<1>7. RefreshIsCurrent(u) => believed = ui /\ ~u.refresh.stale /\ u.refresh = r
  BY <1>2, <1>4 DEF RefreshIsCurrent
<1>8. /\ recovering # "no" => ~u.shown
      /\ u.handoff # "none" => recovering = "reset"
      /\ recovering = "reset" => u.probe \in {"none", "outdated"}
      /\ u.handoff # "ready"
  BY <1>1, <1>2, <1>4 DEF Sound
<1>9. CASE ~RefreshIsCurrent(u) /\ FinishRefresh(u, FALSE, FALSE)
  <2>1. u.shown /\ ~u.again => u.validity \notin {"stale", "loading"}
    <3>1. SUFFICES ASSUME u.shown, ~u.again PROVE u.validity \notin {"stale", "loading"}
      OBVIOUS
    <3>2. /\ Fresh(ui) /\ ~ui.again /\ u.refresh = ui.refresh /\ u.belief = ui.belief
          /\ u.validity = ui.validity
      BY <1>4, <1>5, <3>1
    <3>3. ~RefreshIsCurrent(ui) BY <1>9, <3>2 DEF RefreshIsCurrent
    <3>4. QED BY <3>2, <3>3 DEF Fresh, Reading
  <2>2. /\ Derived(u, ui') /\ Sound(ui', recovering)
        /\ ~(u.again /\ u.shown) => ui'.callbacks = {}
    BY <1>4, <1>6, <1>8, <1>9, <2>1, FinishRefreshUi
  <2>3. Derived(ui, ui') BY <1>6, <2>2, DerivedIsTransitive
  <2>4. Finishing(u, FALSE, FALSE) BY <1>6, <1>9, <2>2 DEF Finishing, Derived
  <2>5. UiInv' BY <1>3, <2>2, <2>3, DerivedStep DEF UiInv
  <2> HIDE DEF u
  <2>6. QED BY <2>3, <2>4, <2>5
<1> HIDE DEF u
<1>10. CASE RefreshIsCurrent(u) /\ r.result = "error" /\ FinishRefresh(ApplyLoadError(u), FALSE, FALSE)
  <2> DEFINE v == ApplyLoadError(u)
  <2>1. /\ Derived(u, v) /\ v \in Overlays /\ v.shown = u.shown /\ v.handoff = u.handoff
        /\ v.probe = u.probe /\ v.validity = "failed" /\ FinishRefresh(v, FALSE, FALSE)
    BY <1>4, <1>10, ApplyLoadErrorDerived DEF Derived
  <2> HIDE DEF v
  <2>2. Derived(ui, v) /\ Recent(v) BY <1>6, <2>1, DerivedIsTransitive DEF Derived
  <2>3. /\ Derived(v, ui') /\ Sound(ui', recovering)
        /\ ~(v.again /\ v.shown) => ui'.callbacks = {}
    BY <1>8, <2>1, <2>2, FinishRefreshUi
  <2>4. Derived(ui, ui') BY <2>2, <2>3, DerivedIsTransitive
  <2>5. Finishing(v, FALSE, FALSE) BY <2>1, <2>2, <2>3 DEF Finishing, Derived
  <2>6. UiInv' BY <1>3, <2>3, <2>4, DerivedStep DEF UiInv
  <2>7. QED BY <2>4, <2>5, <2>6
<1>11. ASSUME RefreshIsCurrent(u), r.result # "error", NEW reminder \in BOOLEAN,
              FinishRefresh(ApplyItems(u), r.result = "valid" /\ ~u.again, reminder)
       PROVE  /\ UiInv' /\ Derived(ui, ui')
              /\ \E x, success, remind : Finishing(x, success, remind)
  <2> DEFINE v == ApplyItems(u)
             success == r.result = "valid" /\ ~u.again
  <2>1. ~u.refresh.stale /\ u.refresh = r /\ u.refresh.result # "error"
    BY <1>7, <1>11
  <2>2. /\ Derived(u, v) /\ v \in Overlays /\ v.shown = u.shown /\ v.handoff = u.handoff
        /\ v.probe = u.probe /\ v.validity = r.result /\ v.validity \notin {"stale", "loading"}
    BY <1>4, <2>1, ApplyItemsDerived DEF Derived
  <2>3. success \in BOOLEAN /\ FinishRefresh(v, success, reminder)
        /\ (success => v.validity = "valid")
    BY <1>11, <2>2
  <2> HIDE DEF v, success
  <2>4. Derived(ui, v) /\ Recent(v) BY <1>6, <2>2, DerivedIsTransitive DEF Derived
  <2>5. /\ Derived(v, ui') /\ Sound(ui', recovering)
        /\ ~(v.again /\ v.shown) => ui'.callbacks = {}
    BY <1>8, <2>2, <2>3, <2>4, FinishRefreshUi
  <2>6. Derived(ui, ui') BY <2>4, <2>5, DerivedIsTransitive
  <2>7. Finishing(v, success, reminder) BY <2>3, <2>4, <2>5 DEF Finishing, Derived
  <2>8. UiInv' BY <1>3, <2>5, <2>6, DerivedStep DEF UiInv
  <2>9. QED BY <2>6, <2>7, <2>8
<1>12. QED BY <1>3, <1>9, <1>10, <1>11

LEMMA RefreshStep ==
  ASSUME UiInv, NEW v \in Overlays, Derived(ui, v), NEW status \in BOOLEAN,
         v.shown = ui.shown, v.handoff = ui.handoff, v.probe = ui.probe,
         ui' = Refresh(v, status), UNCHANGED <<steam, recovering>>
  PROVE  UiInv' /\ Derived(ui, ui')
<1>1. Derived(v, ui') BY RefreshDerived
<1>2. Derived(ui, ui') BY <1>1, DerivedIsTransitive
<1>3. Sound(ui', recovering) BY RefreshIsSound DEF UiInv, Sound
<1>4. QED BY <1>2, <1>3, DerivedStep DEF UiInv

(* The poll of Steam that ends. *)
LEMMA ProbeStep ==
  ASSUME UiInv, ProbeDone
  PROVE  UiInv' /\ Derived(ui, ui')
<1> DEFINE u == [ui EXCEPT !.probe = "none"]
<1>1. /\ ui \in Overlays /\ Sound(ui, recovering) /\ ui.probe # "none"
      /\ ui.probe \in {"native", "offline", "flatpak", "outdated"}
      /\ recovering' = IF ui.probe = "flatpak" THEN "warned" ELSE recovering
      /\ recovering' \in {"no", "warned", "reset"} /\ steam' = steam
  BY DEF UiInv, ProbeDone, Gtk, Overlays, Probes
<1>2. /\ u \in Overlays /\ Derived(ui, u) /\ u.probe = "none"
      /\ u.shown = ui.shown /\ u.handoff = ui.handoff /\ u.belief = ui.belief
      /\ u.validity = ui.validity /\ u.refresh = ui.refresh /\ u.again = ui.again
  <2>1. "none" \in Probes BY DEF Probes
  <2>2. /\ u \in Overlays /\ u.probe = "none"
        /\ u.shown = ui.shown /\ u.handoff = ui.handoff /\ u.belief = ui.belief
        /\ u.validity = ui.validity /\ u.refresh = ui.refresh /\ u.again = ui.again
        /\ u.verified = ui.verified /\ u.old = ui.old
        /\ u.request = ui.request /\ u.permit = ui.permit /\ u.callbacks = ui.callbacks
    BY <1>1, <2>1 DEF Overlays
  <2>3. QED BY <2>2 DEF Derived, Recent
<1>3. CASE ui.probe = "outdated"
  <2>1. ui' = u BY <1>3 DEF ProbeDone, Gtk
  <2>2. Fresh(ui) => Fresh(u) BY <1>2 DEF Fresh, Reading, RefreshIsCurrent
  <2>3. Sound(u, recovering) BY <1>1, <1>2, <2>2 DEF Sound
  <2>4. QED BY <1>1, <1>2, <1>3, <2>1, <2>3, DerivedStep
<1>4. CASE ui.probe = "flatpak"
  <2> DEFINE v == SetBelief(u, "unknown")
  <2>1. ui' = BlockForFlatpak(v) BY <1>4 DEF ProbeDone, Gtk
  <2>2. Derived(u, v) /\ v \in Overlays BY <1>2, SetBeliefDerived DEF Derived, States
  <2> HIDE DEF v
  <2>3. Derived(v, ui') /\ ~ui'.shown /\ ui'.handoff = "none"
    BY <2>1, <2>2, BlockDerived
  <2>4. Derived(ui, ui') BY <1>2, <2>2, <2>3, DerivedIsTransitive
  <2>5. Sound(ui', recovering') BY <1>1, <1>4, <2>3 DEF Sound
  <2>6. QED BY <1>1, <2>4, <2>5, DerivedStep
<1>5. CASE ui.probe \in {"native", "offline"}
  <2> DEFINE v == SetBelief(u, ui.probe)
  <2>1. ui' = IF v.belief # u.belief THEN RefreshIfShown(v) ELSE v
    BY <1>5 DEF ProbeDone, Gtk
  <2>2. ui.probe \in States BY <1>5 DEF States
  <2>3. /\ Derived(u, v) /\ v \in Overlays /\ v.belief = ui.probe
        /\ v.shown = u.shown /\ v.handoff = u.handoff
        /\ u.belief = ui.probe => v = u
    BY <1>2, <2>2, SetBeliefDerived DEF Derived
  <2> HIDE DEF v
  <2>4. ui.handoff = "none" /\ recovering' = recovering /\ recovering # "reset"
    BY <1>1, <1>5 DEF Sound
  <2>5. CASE v.belief = u.belief
    <3>1. ui' = u BY <2>1, <2>3, <2>5
    <3>2. Fresh(ui) => Fresh(u) BY <1>2 DEF Fresh, Reading, RefreshIsCurrent
    <3>3. Sound(u, recovering') BY <1>1, <1>2, <2>4, <3>2 DEF Sound
    <3>4. QED BY <1>1, <1>2, <3>1, <3>3, DerivedStep
  <2>6. CASE v.belief # u.belief /\ ~v.shown
    <3>1. ui' = v BY <2>1, <2>6 DEF RefreshIfShown
    <3>2. Derived(ui, v) BY <1>2, <2>3, DerivedIsTransitive
    <3>3. Sound(v, recovering') BY <1>2, <2>3, <2>4, <2>6 DEF Sound
    <3>4. QED BY <1>1, <3>1, <3>2, <3>3, DerivedStep
  <2>7. CASE v.belief # u.belief /\ v.shown
    <3>1. ui' = Refresh(v, FALSE) BY <2>1, <2>7 DEF RefreshIfShown
    <3>2. Derived(v, ui') BY <2>3, <3>1, RefreshDerived
    <3>3. Derived(ui, ui') BY <1>2, <2>3, <3>2, DerivedIsTransitive
    <3>4. recovering # "no" => ~v.shown BY <1>1, <1>2, <2>3 DEF Sound
    <3>5. Sound(ui', recovering')
      BY <1>2, <2>3, <2>4, <3>1, <3>4, RefreshIsSound
    <3>6. QED BY <1>1, <3>3, <3>5, DerivedStep
  <2>8. QED BY <2>5, <2>6, <2>7
<1>6. QED BY <1>1, <1>3, <1>4, <1>5

(* Opening and hiding, and the recovery from a Flatpak Steam. *)
LEMMA TickStep ==
  ASSUME UiInv, Tick
  PROVE  UiInv' /\ Derived(ui, ui')
<1>1. /\ ui \in Overlays /\ Sound(ui, recovering) /\ ui.shown /\ steam \in SteamStates
      /\ ui' = Probe(ui) /\ UNCHANGED <<steam, recovering>>
  BY DEF UiInv, Tick, GtkOnly, Gtk
<1>2. /\ Derived(ui, ui') /\ (Fresh(ui) => Fresh(ui'))
      /\ ui'.shown = ui.shown /\ ui'.handoff = ui.handoff
  BY <1>1, ProbeDerived
<1>3. Sound(ui', recovering) BY <1>1, <1>2 DEF Sound
<1>4. QED BY <1>1, <1>2, <1>3, DerivedStep DEF UiInv

LEMMA OpenStep ==
  ASSUME UiInv, Open
  PROVE  UiInv' /\ Derived(ui, ui')
<1>1. /\ ui \in Overlays /\ Sound(ui, recovering) /\ ~ui.shown /\ ui.handoff = "none"
      /\ steam \in SteamStates /\ steam' = steam
      /\ recovering' = IF steam = "flatpak" THEN "warned" ELSE "no"
  BY DEF UiInv, Open, Gtk
<1>2. PICK ready \in BOOLEAN :
        ui' = IF steam = "flatpak" THEN ui
              ELSE Show(Refresh(IF steam = "native" /\ ready THEN Accept(ui) ELSE ui, FALSE))
  BY DEF Open, Gtk
<1>3. CASE steam = "flatpak"
  <2>1. Derived(ui, ui') BY <1>1, <1>2, <1>3 DEF Derived
  <2>2. Sound(ui', recovering') BY <1>1, <1>2, <1>3 DEF Sound
  <2>3. QED BY <1>1, <1>3, <2>1, <2>2, DerivedStep
<1>4. CASE steam # "flatpak"
  <2> DEFINE u == IF steam = "native" /\ ready THEN Accept(ui) ELSE ui
             v == Refresh(u, FALSE)
  <2>1. Derived(ui, u) /\ u \in Overlays /\ u.handoff = ui.handoff
    <3>1. Derived(ui, ui) BY <1>1 DEF Derived
    <3>2. Derived(ui, Accept(ui)) /\ Accept(ui).handoff = ui.handoff BY <1>1, AcceptDerived
    <3>3. QED BY <1>1, <3>1, <3>2 DEF Derived
  <2> HIDE DEF u
  <2>2. Derived(u, v) /\ v \in Overlays /\ Reading(v) /\ v.handoff = u.handoff
    BY <2>1, RefreshDerived DEF Derived
  <2> HIDE DEF v
  <2>3. Derived(v, Show(v)) /\ Show(v).handoff = v.handoff /\ Fresh(Show(v))
    BY <1>1, <2>2, ShowDerived DEF Fresh
  <2>4. ui' = Show(v) BY <1>2, <1>4 DEF u, v
  <2>5. Derived(ui, ui') BY <2>1, <2>2, <2>3, <2>4, DerivedIsTransitive
  <2>6. Sound(ui', recovering') BY <1>1, <1>4, <2>1, <2>2, <2>3, <2>4 DEF Sound
  <2>7. QED BY <1>1, <1>4, <2>5, <2>6, DerivedStep
<1>5. QED BY <1>3, <1>4

LEMMA HideStep ==
  ASSUME UiInv, Hide
  PROVE  UiInv' /\ Derived(ui, ui')
<1>1. /\ ui \in Overlays /\ Sound(ui, recovering) /\ ui.shown
      /\ ui' = HideNow(ui) /\ UNCHANGED <<steam, recovering>>
  BY DEF UiInv, Hide, GtkOnly, Gtk
<1>2. Derived(ui, ui') /\ ~ui'.shown /\ ui'.handoff = ui.handoff
  BY <1>1, HideDerived
<1>3. Sound(ui', recovering) BY <1>1, <1>2 DEF Sound
<1>4. QED BY <1>1, <1>2, <1>3, DerivedStep DEF UiInv

LEMMA RecoveryResetsStep ==
  ASSUME UiInv, RecoveryResets
  PROVE  UiInv' /\ Derived(ui, ui')
<1>1. /\ ui \in Overlays /\ Sound(ui, recovering) /\ recovering # "no"
      /\ ui' = Reset(ui) /\ recovering' = "reset" /\ steam' = steam
  BY DEF UiInv, RecoveryResets, Gtk
<1>2. /\ Derived(ui, ui') /\ ui'.shown = ui.shown /\ ui'.handoff = "none"
      /\ ui'.probe \in {"none", "outdated"}
  BY <1>1, ResetDerived
<1>3. Sound(ui', recovering') BY <1>1, <1>2 DEF Sound
<1>4. QED BY <1>1, <1>2, <1>3, DerivedStep

LEMMA BeginHandoffStep ==
  ASSUME UiInv, BeginHandoff
  PROVE  UiInv' /\ Derived(ui, ui')
<1> DEFINE v == Accept(ui)
           w == [v EXCEPT !.handoff = "waiting"]
<1>1. /\ ui \in Overlays /\ Sound(ui, recovering) /\ recovering = "reset"
      /\ ui' = Refresh(w, FALSE) /\ UNCHANGED <<steam, recovering>>
  BY DEF UiInv, BeginHandoff, GtkOnly, Gtk
<1>2. /\ Derived(ui, v) /\ v \in Overlays /\ v.shown = ui.shown
      /\ v.probe \in {ui.probe, "none", "outdated"}
  BY <1>1, AcceptDerived DEF Derived
<1> HIDE DEF v
<1>3. /\ w \in Overlays /\ w.shown = v.shown /\ w.probe = v.probe /\ w.handoff = "waiting"
      /\ w.request = v.request /\ w.permit = v.permit /\ w.callbacks = v.callbacks
      /\ w.verified = v.verified /\ w.old = v.old
  BY <1>2 DEF Overlays
<1> HIDE DEF w
<1>4. Derived(v, w) BY <1>3 DEF Derived, Recent
<1>5. Derived(w, ui') BY <1>1, <1>3, RefreshDerived
<1>6. Derived(ui, ui') BY <1>2, <1>4, <1>5, DerivedIsTransitive
<1>7. ~w.shown /\ w.probe \in {"none", "outdated"}
  BY <1>1, <1>2, <1>3 DEF Sound
<1>8. Sound(ui', recovering) BY <1>1, <1>3, <1>7, RefreshIsSound
<1>9. QED BY <1>1, <1>6, <1>8, DerivedStep

LEMMA ShowRecoveredStep ==
  ASSUME UiInv, ShowRecovered
  PROVE  UiInv' /\ Derived(ui, ui')
<1> DEFINE u == [ui EXCEPT !.handoff = "none"]
           v == [u EXCEPT !.repaired = FALSE]
<1>1. /\ ui \in Overlays /\ Sound(ui, recovering) /\ ui.handoff = "ready"
      /\ ui' = Show(v) /\ recovering' = "no" /\ steam' = steam /\ steam \in SteamStates
  BY DEF UiInv, ShowRecovered, Recovered, Gtk
<1>2. /\ u \in Overlays /\ Derived(ui, u) /\ u.handoff = "none"
      /\ u.validity = ui.validity /\ u.refresh = ui.refresh
      /\ u.belief = ui.belief /\ u.again = ui.again
  BY <1>1 DEF Overlays, Derived, Recent
<1> HIDE DEF u
<1>3. Plain(u, v) BY <1>2, FieldUpdates
<1>4. Fresh(v)
  BY <1>1, <1>2, <1>3 DEF Sound, Fresh, Reading, RefreshIsCurrent, Plain, SameSession
<1>5. v \in Overlays /\ Derived(u, v) /\ v.handoff = "none"
  BY <1>2, <1>3 DEF Plain, Derived, SameSession
<1> HIDE DEF v
<1>6. Derived(v, ui') /\ ui'.handoff = v.handoff /\ Fresh(ui')
  BY <1>1, <1>4, <1>5, ShowDerived
<1>7. Derived(ui, ui') BY <1>2, <1>5, <1>6, DerivedIsTransitive
<1>8. Sound(ui', recovering') BY <1>1, <1>5, <1>6 DEF Sound
<1>9. QED BY <1>1, <1>7, <1>8, DerivedStep

LEMMA CancelRecoveryStep ==
  ASSUME UiInv, CancelRecovery
  PROVE  UiInv' /\ Derived(ui, ui')
<1>1. /\ ui \in Overlays /\ Sound(ui, recovering) /\ recovering # "no"
      /\ ui' = (IF ui.handoff = "none" THEN ui ELSE Reset(ui))
      /\ recovering' = "no" /\ steam' = steam
  BY DEF UiInv, CancelRecovery, Recovered, Gtk
<1>2. Derived(ui, ui) BY <1>1 DEF Derived
<1>3. /\ Derived(ui, Reset(ui)) /\ Reset(ui).shown = ui.shown /\ Reset(ui).handoff = "none"
  BY <1>1, ResetDerived
<1>4. Derived(ui, ui') /\ ~ui'.shown /\ ui'.handoff = "none"
  BY <1>1, <1>2, <1>3 DEF Sound
<1>5. Sound(ui', recovering') BY SMTT(30), <1>1, <1>4 DEF Sound
<1>6. QED BY <1>1, <1>4, <1>5, DerivedStep

-----------------------------------------------------------------------------
(* Clicks, answers and callbacks. *)
LEMMA MoreUpdates ==
  ASSUME NEW u \in Overlays
  PROVE  /\ \A x, y \in BOOLEAN : Plain(u, [u EXCEPT !.pending = x, !.running = y])
         /\ \A x, y \in BOOLEAN : Plain(u, [u EXCEPT !.stop = x, !.running = y])
         /\ \A x \in BOOLEAN, d \in None..Notice : Plain(u, [u EXCEPT !.pending = x, !.dialog = d])
         /\ \A x, y \in BOOLEAN : Plain(u, [u EXCEPT !.pending = x, !.reminded = y])
         /\ \A x \in BOOLEAN, d \in None..Notice : Plain(u, [u EXCEPT !.running = x, !.dialog = d])
         /\ \A x, y \in BOOLEAN : Plain(u, [u EXCEPT !.batch = x, !.stop = y])
         /\ \A d \in None..Notice : Plain(u, [u EXCEPT !.verified = FALSE, !.dialog = d])
         /\ Plain(u, [u EXCEPT !.pending = FALSE, !.running = TRUE, !.batch = TRUE, !.stop = FALSE])
<1>1. ASSUME NEW x \in BOOLEAN, NEW y \in BOOLEAN
      PROVE  Plain(u, [u EXCEPT !.pending = x, !.running = y])
  <2> DEFINE a == [u EXCEPT !.pending = x]
  <2>1. Plain(u, a) /\ a \in Overlays
    BY FieldUpdates DEF Plain, Derived
  <2> HIDE DEF a
  <2>2. Plain(a, [a EXCEPT !.running = y])
    BY <2>1, FieldUpdates
  <2>3. QED BY <2>1, <2>2, PlainIsTransitive DEF a
<1>2. ASSUME NEW x \in BOOLEAN, NEW y \in BOOLEAN
      PROVE  Plain(u, [u EXCEPT !.stop = x, !.running = y])
  <2> DEFINE a == [u EXCEPT !.stop = x]
  <2>1. Plain(u, a) /\ a \in Overlays
    BY FieldUpdates DEF Plain, Derived
  <2> HIDE DEF a
  <2>2. Plain(a, [a EXCEPT !.running = y])
    BY <2>1, FieldUpdates
  <2>3. QED BY <2>1, <2>2, PlainIsTransitive DEF a
<1>3. ASSUME NEW x \in BOOLEAN, NEW d \in None..Notice
      PROVE  Plain(u, [u EXCEPT !.pending = x, !.dialog = d])
  <2> DEFINE a == [u EXCEPT !.pending = x]
  <2>1. Plain(u, a) /\ a \in Overlays
    BY FieldUpdates DEF Plain, Derived
  <2> HIDE DEF a
  <2>2. Plain(a, [a EXCEPT !.dialog = d])
    BY <2>1, <1>3, FieldUpdates
  <2>3. QED BY <2>1, <2>2, PlainIsTransitive DEF a
<1>4. ASSUME NEW x \in BOOLEAN, NEW y \in BOOLEAN
      PROVE  Plain(u, [u EXCEPT !.pending = x, !.reminded = y])
  <2> DEFINE a == [u EXCEPT !.pending = x]
  <2>1. Plain(u, a) /\ a \in Overlays
    BY FieldUpdates DEF Plain, Derived
  <2> HIDE DEF a
  <2>2. Plain(a, [a EXCEPT !.reminded = y])
    BY <2>1, FieldUpdates
  <2>3. QED BY <2>1, <2>2, PlainIsTransitive DEF a
<1>5. ASSUME NEW x \in BOOLEAN, NEW d \in None..Notice
      PROVE  Plain(u, [u EXCEPT !.running = x, !.dialog = d])
  <2> DEFINE a == [u EXCEPT !.running = x]
  <2>1. Plain(u, a) /\ a \in Overlays
    BY FieldUpdates DEF Plain, Derived
  <2> HIDE DEF a
  <2>2. Plain(a, [a EXCEPT !.dialog = d])
    BY <2>1, <1>5, FieldUpdates
  <2>3. QED BY <2>1, <2>2, PlainIsTransitive DEF a
<1>6. ASSUME NEW x \in BOOLEAN, NEW y \in BOOLEAN
      PROVE  Plain(u, [u EXCEPT !.batch = x, !.stop = y])
  <2> DEFINE a == [u EXCEPT !.batch = x]
  <2>1. Plain(u, a) /\ a \in Overlays
    BY FieldUpdates DEF Plain, Derived
  <2> HIDE DEF a
  <2>2. Plain(a, [a EXCEPT !.stop = y])
    BY <2>1, FieldUpdates
  <2>3. QED BY <2>1, <2>2, PlainIsTransitive DEF a
<1>7. ASSUME NEW d \in None..Notice
      PROVE  Plain(u, [u EXCEPT !.verified = FALSE, !.dialog = d])
  <2> DEFINE a == [u EXCEPT !.verified = FALSE]
  <2>1. Plain(u, a) /\ a \in Overlays
    BY FieldUpdates DEF Plain, Derived
  <2> HIDE DEF a
  <2>2. Plain(a, [a EXCEPT !.dialog = d])
    BY <2>1, <1>7, FieldUpdates
  <2>3. QED BY <2>1, <2>2, PlainIsTransitive DEF a
<1>8. Plain(u, [u EXCEPT !.pending = FALSE, !.running = TRUE, !.batch = TRUE, !.stop = FALSE])
  <2> DEFINE a == [u EXCEPT !.pending = FALSE]
  <2>1. Plain(u, a) /\ a \in Overlays
    BY FieldUpdates DEF Plain, Derived
  <2> HIDE DEF a
  <2> DEFINE b == [a EXCEPT !.running = TRUE]
  <2>2. Plain(a, b) /\ b \in Overlays
    BY <2>1, FieldUpdates DEF Plain, Derived
  <2> HIDE DEF b
  <2> DEFINE c == [b EXCEPT !.batch = TRUE]
  <2>3. Plain(b, c) /\ c \in Overlays
    BY <2>2, FieldUpdates DEF Plain, Derived
  <2> HIDE DEF c
  <2>4. Plain(c, [c EXCEPT !.stop = FALSE])
    BY <2>3, FieldUpdates
  <2>5. QED BY <2>1, <2>2, <2>3, <2>4, PlainIsTransitive DEF a, b, c
<1>9. QED BY <1>1, <1>2, <1>3, <1>4, <1>5, <1>6, <1>7, <1>8

(* An answer closes the dialog; what refuses gives its authority back. *)
Drops(i) == i \notin {ui'.request, ui'.permit}

LEMMA ClosedIsPlain ==
  ASSUME ui \in Overlays
  PROVE  Plain(ui, Closed) /\ Closed \in Overlays
BY FieldUpdates, DialogIds DEF Closed, Plain, Derived

LEMMA GivesBack ==
  ASSUME NEW u \in Overlays, NEW i \in Ops
  PROVE  /\ Plain(u, DiscardOf(u, i)) /\ DiscardOf(u, i) \in Overlays
         /\ Plain(u, Settled(DiscardOf(u, i))) /\ Settled(DiscardOf(u, i)) \in Overlays
         /\ i \notin {DiscardOf(u, i).request, DiscardOf(u, i).permit}
         /\ i \notin {Settled(DiscardOf(u, i)).request, Settled(DiscardOf(u, i)).permit}
<1> DEFINE v == DiscardOf(u, i)
<1>1. i # None BY ModsManagerAssumption DEF Ops, None
<1>2. Plain(u, v) /\ i \notin {v.request, v.permit} /\ v \in Overlays
  BY <1>1, DiscardOfIsPlain DEF Plain, Derived
<1> HIDE DEF v
<1>3. Plain(v, Settled(v)) /\ Settled(v) \in Overlays
  BY <1>2, SettledIsPlain DEF Plain, Derived
<1>4. Plain(u, Settled(v)) BY <1>2, <1>3, PlainIsTransitive
<1>5. i \notin {Settled(v).request, Settled(v).permit}
  BY <1>1, <1>2, <1>3 DEF Plain, Derived
<1>6. QED BY <1>2, <1>3, <1>4, <1>5 DEF v

LEMMA UserPlain ==
  ASSUME ui \in Overlays,
         \/ RepairRefused \/ StopUnsubscribe \/ Dismiss
         \/ \E i \in Ops : ClickRepair(i) \/ \E ids : ClickUnsubscribe(i, ids)
  PROVE  Plain(ui, ui') /\ UNCHANGED <<steam, recovering>>
<1>1. CASE RepairRefused
  BY <1>1, FieldUpdates DEF RepairRefused, GtkOnly, Gtk
<1>2. CASE StopUnsubscribe
  BY <1>2, MoreUpdates DEF StopUnsubscribe, GtkOnly, Gtk
<1>3. CASE Dismiss
  BY <1>3, FieldUpdates, DialogIds DEF Dismiss, GtkOnly, Gtk
<1>4. ASSUME NEW i \in Ops, ClickRepair(i)
      PROVE  Plain(ui, ui') /\ UNCHANGED <<steam, recovering>>
  <2>1. i \in None..Notice BY DialogIds
  <2>2. QED BY <1>4, <2>1, MoreUpdates DEF ClickRepair, Clicked, Gtk
<1>5. ASSUME NEW i \in Ops, NEW ids, ClickUnsubscribe(i, ids)
      PROVE  Plain(ui, ui') /\ UNCHANGED <<steam, recovering>>
  BY <1>5, FieldUpdates DEF ClickUnsubscribe, Clicked, Gtk
<1>6. QED BY <1>1, <1>2, <1>3, <1>4, <1>5

LEMMA RefusePlain ==
  ASSUME ui \in Overlays, NEW i \in Ops, Refuse(i)
  PROVE  Plain(ui, ui') /\ Drops(i) /\ UNCHANGED <<steam, recovering>>
<1>1. ui' = Settled(DiscardOf(Closed, i)) /\ UNCHANGED <<steam, recovering>>
  BY DEF Refuse, Ends, Gtk
<1>2. Plain(ui, Closed) /\ Closed \in Overlays BY ClosedIsPlain
<1>3. Plain(Closed, ui') /\ Drops(i) BY <1>1, <1>2, GivesBack DEF Drops
<1>4. QED BY <1>1, <1>2, <1>3, PlainIsTransitive

LEMMA ConfirmCleanupPlain ==
  ASSUME ui \in Overlays, NEW i \in Ops, ConfirmCleanup(i)
  PROVE  Plain(ui, ui') /\ Drops(i) /\ UNCHANGED <<steam, recovering>>
<1>1. Plain(ui, Closed) /\ Closed \in Overlays BY ClosedIsPlain
<1>2. CASE Ends(i, Settled(DiscardOf(Closed, i)))
  <2>1. ui' = Settled(DiscardOf(Closed, i)) /\ UNCHANGED <<steam, recovering>>
    BY <1>2 DEF Ends, Gtk
  <2>2. Plain(Closed, ui') /\ Drops(i) BY <1>1, <2>1, GivesBack DEF Drops
  <2>3. QED BY <1>1, <2>1, <2>2, PlainIsTransitive
<1>3. CASE Continues(i, "closing", [DiscardOf(Closed, i) EXCEPT !.pending = FALSE, !.running = TRUE])
  <2> DEFINE v == DiscardOf(Closed, i)
  <2>1. ui' = [v EXCEPT !.pending = FALSE, !.running = TRUE] /\ UNCHANGED <<steam, recovering>>
    BY <1>3 DEF Continues, Gtk
  <2>2. Plain(Closed, v) /\ v \in Overlays /\ i \notin {v.request, v.permit}
    BY SMTT(30), <1>1, GivesBack
  <2> HIDE DEF v
  <2>3. Plain(v, ui') BY <2>1, <2>2, MoreUpdates
  <2>4. i # None BY ModsManagerAssumption DEF Ops, None
  <2>5. Drops(i) BY <2>2, <2>3, <2>4 DEF Plain, Derived, Drops
  <2>6. Plain(ui, ui') BY <1>1, <2>2, <2>3, PlainIsTransitive
  <2>7. QED BY <2>1, <2>5, <2>6
<1>4. QED BY <1>2, <1>3 DEF ConfirmCleanup

LEMMA AnswerPlain ==
  ASSUME ui \in Overlays, NEW i \in Ops,
         ConfirmUnsubscribe(i) \/ ConfirmRepair(i) \/ StartSteam(i)
  PROVE  Plain(ui, ui') /\ UNCHANGED <<steam, recovering>>
<1>1. Plain(ui, Closed) /\ Closed \in Overlays BY ClosedIsPlain
<1>2. Plain(Closed, Settled(Closed)) /\ Settled(Closed) \in Overlays
  BY <1>1, SettledIsPlain DEF Plain, Derived
<1>3. CASE ConfirmUnsubscribe(i)
  <2>1. /\ UNCHANGED <<steam, recovering>>
        /\ \/ ui' = [Closed EXCEPT !.pending = FALSE]
           \/ ui' = [Settled(Closed) EXCEPT !.verified = FALSE]
           \/ ui' = [Closed EXCEPT !.pending = FALSE, !.running = TRUE,
                                   !.batch = TRUE, !.stop = FALSE]
    BY <1>3 DEF ConfirmUnsubscribe, Ends, Continues, Gtk
  <2>2. CASE ui' = [Closed EXCEPT !.pending = FALSE]
    BY <1>1, <2>1, <2>2, FieldUpdates, PlainIsTransitive
  <2>3. CASE ui' = [Settled(Closed) EXCEPT !.verified = FALSE]
    <3>1. Plain(Settled(Closed), ui') BY <1>2, <2>3, FieldUpdates
    <3>2. QED BY <1>1, <1>2, <2>1, <3>1, PlainIsTransitive
  <2>4. CASE ui' = [Closed EXCEPT !.pending = FALSE, !.running = TRUE,
                                  !.batch = TRUE, !.stop = FALSE]
    <3>1. Plain(Closed, ui') BY <1>1, <2>4, MoreUpdates
    <3>2. QED BY <1>1, <2>1, <3>1, PlainIsTransitive
  <2>5. QED BY <2>1, <2>2, <2>3, <2>4
<1>4. CASE ConfirmRepair(i)
  <2>1. /\ UNCHANGED <<steam, recovering>>
        /\ \/ ui' = Settled(Closed)
           \/ ui' = [ui EXCEPT !.pending = TRUE, !.reminded = TRUE]
           \/ ui' = [Closed EXCEPT !.pending = FALSE, !.running = TRUE]
    BY <1>4 DEF ConfirmRepair, Ends, Continues, Gtk
  <2>2. CASE ui' = Settled(Closed)
    BY SMTT(30), <1>1, <1>2, <2>1, <2>2, PlainIsTransitive
  <2>3. CASE ui' = [ui EXCEPT !.pending = TRUE, !.reminded = TRUE]
    BY ZenonT(60), <2>1, <2>3, MoreUpdates
  <2>4. CASE ui' = [Closed EXCEPT !.pending = FALSE, !.running = TRUE]
    <3>1. Plain(Closed, ui') BY <1>1, <2>4, MoreUpdates
    <3>2. QED BY SMTT(30), <1>1, <2>1, <3>1, PlainIsTransitive
  <2>5. QED BY <2>1, <2>2, <2>3, <2>4
<1>5. CASE StartSteam(i)
  <2>1. /\ UNCHANGED <<steam, recovering>>
        /\ ui' = Settled(Closed) \/ ui' = [Closed EXCEPT !.running = FALSE]
    BY <1>5 DEF StartSteam, Ends, Continues, Gtk
  <2>2. CASE ui' = Settled(Closed)
    BY <1>1, <1>2, <2>1, <2>2, PlainIsTransitive
  <2>3. CASE ui' = [Closed EXCEPT !.running = FALSE]
    <3>1. Plain(Closed, ui') BY <1>1, <2>3, FieldUpdates
    <3>2. QED BY <1>1, <2>1, <3>1, PlainIsTransitive
  <2>4. QED BY <2>1, <2>2, <2>3
<1>6. QED BY <1>3, <1>4, <1>5

LEMMA CallbackPlain ==
  ASSUME ui \in Overlays, NEW i \in Ops,
         UnsubscribeChecked(i) \/ Progress(i) \/ RepairDone(i)
  PROVE  Plain(ui, ui') /\ UNCHANGED <<steam, recovering>>
<1>1. CASE UnsubscribeChecked(i)
  <2>1. /\ UNCHANGED <<steam, recovering>>
        /\ ui' = Settled(ui) \/ ui' = [ui EXCEPT !.dialog = i]
    BY <1>1 DEF UnsubscribeChecked, Ends, Ask, Gtk
  <2>2. i \in None..Notice BY DialogIds
  <2>3. Plain(ui, Settled(ui)) BY SettledIsPlain
  <2>4. QED BY <2>1, <2>2, <2>3, FieldUpdates
<1>2. CASE Progress(i)
  BY <1>2, FieldUpdates DEF Progress, Gtk
<1>3. CASE RepairDone(i)
  <2> DEFINE d == IF op[i].failed /\ ui.shown THEN Notice ELSE ui.dialog
  <2>1. d \in None..Notice BY DialogIds DEF Overlays
  <2>2. [ui EXCEPT !.running = FALSE, !.dialog = IF op[i].failed /\ ui.shown THEN Notice ELSE @]
          = [ui EXCEPT !.running = FALSE, !.dialog = d]
    BY DEF Overlays
  <2>3. ui' = [ui EXCEPT !.running = FALSE, !.dialog = d] /\ UNCHANGED <<steam, recovering>>
    BY <1>3, <2>2 DEF RepairDone, Gtk
  <2> HIDE DEF d
  <2>4. QED BY <2>1, <2>3, MoreUpdates
<1>4. QED BY <1>1, <1>2, <1>3

(* Whatever has ended reads the inventory anew. *)
LEMMA DoneStep ==
  ASSUME UiInv, NEW i \in Ops,
         CleanupDone(i) \/ UnsubscribeDone(i) \/ FinalizeRepair(i)
  PROVE  UiInv' /\ Derived(ui, ui')
<1>1. ui \in Overlays /\ Derived(ui, ui) BY DEF UiInv, Derived
<1>2. ASSUME NEW v, Plain(ui, v), ui' = Refresh(v, TRUE), UNCHANGED <<steam, recovering>>
      PROVE  UiInv' /\ Derived(ui, ui')
  <2>1. /\ v \in Overlays /\ Derived(ui, v)
        /\ v.shown = ui.shown /\ v.handoff = ui.handoff /\ v.probe = ui.probe
    BY <1>2 DEF Plain, Derived, SameSession
  <2>2. QED BY <1>2, <2>1, RefreshStep
<1>3. CASE CleanupDone(i)
  <2>1. /\ ui' = Refresh([ui EXCEPT !.running = FALSE], TRUE)
        /\ UNCHANGED <<steam, recovering>>
    BY <1>3 DEF CleanupDone, Ends, Gtk
  <2>2. Plain(ui, [ui EXCEPT !.running = FALSE]) BY <1>1, FieldUpdates
  <2>3. QED BY <1>2, <2>1, <2>2
<1>4. CASE UnsubscribeDone(i)
  <2> DEFINE u == [ui EXCEPT !.batch = FALSE, !.stop = FALSE]
             v == [u EXCEPT !.verified = FALSE, !.dialog = Notice]
  <2>1. /\ ui' = Refresh(u, TRUE) \/ ui' = Refresh(v, TRUE)
        /\ UNCHANGED <<steam, recovering>>
    BY <1>4 DEF UnsubscribeDone, Ends, Gtk
  <2>2. Plain(ui, u) /\ u \in Overlays BY ZenonT(60), <1>1, MoreUpdates DEF Plain, Derived
  <2> HIDE DEF u
  <2>3. Plain(u, v) BY <2>2, MoreUpdates, DialogIds
  <2>4. Plain(ui, v) BY <2>2, <2>3, PlainIsTransitive
  <2> HIDE DEF v
  <2>5. QED BY <1>2, <2>1, <2>2, <2>4
<1>5. CASE FinalizeRepair(i)
  <2>1. /\ ui' = Refresh(ui, TRUE) \/ ui' = [ui EXCEPT !.repaired = TRUE]
        /\ UNCHANGED <<steam, recovering>>
    BY <1>5 DEF FinalizeRepair, Ends, Gtk
  <2>2. Plain(ui, [ui EXCEPT !.repaired = TRUE]) BY <1>1, FieldUpdates
  <2>3. Plain(ui, ui) BY <1>1 DEF Plain, SameSession
  <2>4. QED BY <1>2, <2>1, <2>2, <2>3, PlainStep
<1>6. QED BY <1>3, <1>4, <1>5

(* The three handlers that give authority or add a callback. *)
Steady(u, v) == v \in Overlays /\ (Recent(u) => Recent(v)) /\ SameSession(u, v)

LEMMA SteadyStep ==
  ASSUME UiInv, Steady(ui, ui'), UNCHANGED <<steam, recovering>>
  PROVE  UiInv'
<1>1. Sound(ui', recovering)
  BY DEF UiInv, Steady, SameSession, Sound, Fresh, Reading, RefreshIsCurrent
<1>2. QED BY <1>1 DEF UiInv, Steady, SteamStates

LEMMA ClickCleanupUi ==
  ASSUME UiInv, NEW i \in Ops, NEW ids, ClickCleanup(i, ids)
  PROVE  /\ UiInv'
         /\ ui'.request = i /\ ui'.permit = None /\ ui'.callbacks = ui.callbacks
<1> DEFINE a == [ui EXCEPT !.request = i]
           b == [a EXCEPT !.permit = None]
<1>1. /\ ui \in Overlays /\ ui' = [b EXCEPT !.pending = TRUE]
      /\ UNCHANGED <<steam, recovering>>
  BY DEF UiInv, ClickCleanup, Clicked, Gtk
<1>2. i \in None..MaxOps /\ None \in None..MaxOps
  BY ModsManagerAssumption DEF Ops, None
<1>3. a \in Overlays /\ SameSession(ui, a) /\ (Recent(ui) => Recent(a))
      /\ a.request = i /\ a.callbacks = ui.callbacks
  BY <1>1, <1>2 DEF Overlays, SameSession, Recent
<1> HIDE DEF a
<1>4. b \in Overlays /\ SameSession(a, b) /\ (Recent(a) => Recent(b))
      /\ b.request = i /\ b.permit = None /\ b.callbacks = a.callbacks
  BY <1>2, <1>3 DEF Overlays, SameSession, Recent
<1> HIDE DEF b
<1>5. ui' \in Overlays /\ SameSession(b, ui') /\ (Recent(b) => Recent(ui'))
      /\ ui'.request = i /\ ui'.permit = None /\ ui'.callbacks = b.callbacks
  <2>1. ui' = [b EXCEPT !.pending = TRUE] BY <1>1
  <2>2. ui' \in Overlays BY ZenonT(60), <1>4, <2>1 DEF Overlays
  <2>3. SameSession(b, ui') /\ (Recent(b) => Recent(ui'))
    BY <1>4, <2>1 DEF Overlays, SameSession, Recent
  <2>4. ui'.request = i /\ ui'.permit = None /\ ui'.callbacks = b.callbacks
    BY <1>4, <2>1 DEF Overlays
  <2>5. QED BY <2>2, <2>3, <2>4
<1>6. Steady(ui, ui') BY <1>3, <1>4, <1>5 DEF Steady, SameSession
<1>7. QED BY <1>1, <1>3, <1>4, <1>5, <1>6, SteadyStep

LEMMA CleanupCheckedUi ==
  ASSUME UiInv, NEW i \in Ops, CleanupChecked(i)
  PROVE  /\ UiInv'
         /\ \/ Set(i, Over) /\ Derived(ui, ui') /\ Drops(i)
            \/ /\ Set(i, [op[i] EXCEPT !.at = "asking", !.close = steam = "native"])
               /\ ~op[i].failed /\ ui.request = i
               /\ ui'.request = None /\ ui'.permit = i /\ ui'.callbacks = ui.callbacks
<1>1. CASE Ends(i, Settled(DiscardOf(ui, i)))
  <2>1. /\ Set(i, Over) /\ ui' = Settled(DiscardOf(ui, i)) /\ UNCHANGED <<steam, recovering>>
        /\ ui \in Overlays
    BY <1>1 DEF Ends, Gtk, UiInv
  <2>2. Plain(ui, ui') /\ Drops(i) BY <2>1, GivesBack DEF Drops
  <2>3. QED BY <2>1, <2>2, PlainStep
<1> DEFINE a == [ui EXCEPT !.request = None]
           b == [a EXCEPT !.permit = i]
<1>2. CASE /\ ~op[i].failed /\ ui.request = i
           /\ Set(i, [op[i] EXCEPT !.at = "asking", !.close = steam = "native"])
           /\ Gtk(Ask(i, b)) /\ UNCHANGED <<recovering, offSince>>
  <2>1. ui \in Overlays /\ ui' = [b EXCEPT !.dialog = i] /\ UNCHANGED <<steam, recovering>>
    BY <1>2 DEF UiInv, Ask, Gtk
  <2>2. i \in None..MaxOps /\ None \in None..MaxOps /\ i \in None..Notice
    BY ModsManagerAssumption, DialogIds DEF Ops, None
  <2>3. a \in Overlays /\ SameSession(ui, a) /\ (Recent(ui) => Recent(a))
        /\ a.request = None /\ a.callbacks = ui.callbacks
    BY <2>1, <2>2 DEF Overlays, SameSession, Recent
  <2> HIDE DEF a
  <2>4. b \in Overlays /\ SameSession(a, b) /\ (Recent(a) => Recent(b))
        /\ b.request = None /\ b.permit = i /\ b.callbacks = a.callbacks
    BY <2>2, <2>3 DEF Overlays, SameSession, Recent
  <2> HIDE DEF b
  <2>5. ui' \in Overlays /\ SameSession(b, ui') /\ (Recent(b) => Recent(ui'))
        /\ ui'.request = None /\ ui'.permit = i /\ ui'.callbacks = b.callbacks
    BY <2>1, <2>2, <2>4 DEF Overlays, SameSession, Recent
  <2>6. Steady(ui, ui') BY <2>3, <2>4, <2>5 DEF Steady, SameSession
  <2>7. QED BY <1>2, <2>1, <2>3, <2>4, <2>5, <2>6, SteadyStep
<1>3. QED BY <1>1, <1>2 DEF CleanupChecked

LEMMA WaitedUi ==
  ASSUME UiInv, NEW i \in Ops, Waited(i)
  PROVE  /\ UiInv'
         /\ \/ Set(i, Over) /\ Derived(ui, ui')
            \/ /\ Set(i, [op[i] EXCEPT !.at = "refreshing"])
               /\ ui'.request \in {ui.request, None} /\ ui'.permit \in {ui.permit, None}
               /\ ui'.callbacks \subseteq ui.callbacks \cup {i}
<1>1. ui \in Overlays BY DEF UiInv
<1>2. CASE Ends(i, Settled(ui))
  <2>1. Set(i, Over) /\ ui' = Settled(ui) /\ UNCHANGED <<steam, recovering>>
    BY <1>2 DEF Ends, Gtk
  <2>2. Plain(ui, ui') BY <1>1, <2>1, SettledIsPlain
  <2>3. QED BY <2>1, <2>2, PlainStep
<1>3. CASE Ends(i, Refresh([ui EXCEPT !.pending = FALSE], TRUE))
  <2> DEFINE v == [ui EXCEPT !.pending = FALSE]
  <2>1. Set(i, Over) /\ ui' = Refresh(v, TRUE) /\ UNCHANGED <<steam, recovering>>
    BY <1>3 DEF Ends, Gtk
  <2>2. Plain(ui, v) BY <1>1, FieldUpdates
  <2> HIDE DEF v
  <2>3. /\ v \in Overlays /\ Derived(ui, v)
        /\ v.shown = ui.shown /\ v.handoff = ui.handoff /\ v.probe = ui.probe
    BY <2>2 DEF Plain, Derived, SameSession
  <2>4. UiInv' /\ Derived(ui, ui') BY <2>1, <2>3, RefreshStep
  <2>5. QED BY <2>1, <2>4
<1> DEFINE a == [ui EXCEPT !.running = FALSE]
           b == [a EXCEPT !.callbacks = @ \cup {i}]
<1>4. CASE Continues(i, "refreshing", Refresh(b, TRUE))
  <2>1. /\ Set(i, [op[i] EXCEPT !.at = "refreshing"]) /\ ui' = Refresh(b, TRUE)
        /\ UNCHANGED <<steam, recovering>>
    BY <1>4 DEF Continues, Goto, Gtk
  <2>2. Plain(ui, a) BY <1>1, FieldUpdates
  <2>3. /\ a \in Overlays /\ a.callbacks \subseteq ui.callbacks
        /\ a.request \in {ui.request, None} /\ a.permit \in {ui.permit, None}
        /\ a.shown = ui.shown /\ a.handoff = ui.handoff /\ a.probe = ui.probe
        /\ (Recent(ui) => Recent(a))
    BY <2>2 DEF Plain, Derived, SameSession
  <2> HIDE DEF a
  <2>4. /\ b \in Overlays /\ b.callbacks = a.callbacks \cup {i}
        /\ b.request = a.request /\ b.permit = a.permit
        /\ b.shown = a.shown /\ b.handoff = a.handoff /\ b.probe = a.probe
        /\ b.verified = a.verified /\ b.old = a.old
    BY <2>3 DEF Overlays
  <2> HIDE DEF b
  <2>5. Derived(b, ui') BY <2>1, <2>4, RefreshDerived
  <2>6. Recent(ui') BY <2>3, <2>4, <2>5 DEF UiInv, Derived, Recent
  <2>7. /\ recovering # "no" => ~b.shown
        /\ b.handoff # "none" => recovering = "reset"
        /\ recovering = "reset" => b.probe \in {"none", "outdated"}
    BY <2>3, <2>4 DEF UiInv, Sound
  <2>8. Sound(ui', recovering) BY <2>1, <2>4, <2>7, RefreshIsSound
  <2>9. UiInv' BY <2>1, <2>5, <2>6, <2>8 DEF UiInv, Derived, SteamStates
  <2>10. QED BY <2>1, <2>3, <2>4, <2>5, <2>9 DEF Derived
<1>5. QED BY <1>2, <1>3, <1>4 DEF Waited

-----------------------------------------------------------------------------
(* The operations.  A cleanup's authority is the overlay's request and then
   its permit, until its question is answered; from then on it holds a
   right that nothing withdraws.  It has that right because Steam said, at
   its check, that the mods were not subscribed: since the click, "off" has
   had every mod that was not.                                            *)
Undecided == {"checking", "checked", "asking"}
Authority(u) == {u.request, u.permit}

Sane(o, off, subscribed) ==
  /\ o.at \in {"closing", "deleting"} => o.kind = "cleanup"
  /\ o.kind = "cleanup" =>
       /\ o.at \in Undecided \cup {"closing", "deleting", "done"}
       /\ Mods \ subscribed \subseteq off
       /\ \/ o.at \in {"asking", "closing", "deleting"}
          \/ o.at = "checked" /\ ~o.failed
          => o.ids \subseteq off

OpTyped ==
  /\ account \subseteq Mods /\ op \in [Ops -> Operations]
  /\ offSince \in [Ops -> SUBSET Mods] /\ revoked \subseteq Ops

OpInv ==
  /\ OpTyped
  /\ \A i \in Ops :
       /\ Sane(op[i], offSince[i], account)
       /\ i \in Authority(ui) => op[i].kind = "cleanup" /\ op[i].at \in Undecided
       /\ i \in ui.callbacks => op[i].at = "refreshing"
       /\ i \in revoked => /\ i \notin Authority(ui)
                           /\ op[i].at \notin {"none", "closing", "deleting"}

(* What a step of the GTK thread may do to an operation. *)
Moves(j) ==
  /\ Sane(op'[j], offSince'[j], account)
  /\ op'[j].at \in {"none", "deleting"} => op[j].at = op'[j].at
  /\ op'[j].at = "closing" => op[j].at = "closing" \/ j \notin revoked
  /\ j \in ui'.callbacks => op'[j].at = "refreshing"
  /\ j \in Authority(ui') => /\ j \notin revoked
                             /\ op'[j].kind = "cleanup" /\ op'[j].at \in Undecided

Withdraws ==
  revoked' = {i \in Ops : /\ op'[i].at # "over"
                          /\ \/ i \in revoked
                             \/ /\ i \in Authority(ui) /\ i \notin Authority(ui')
                                /\ op'[i].at # "closing"}

LEMMA GtkWithdraws ==
  ASSUME NEW u, Gtk(u)
  PROVE  ui' = u /\ Withdraws /\ UNCHANGED <<steam, account, steps>>
BY DEF Gtk, Withdraws, Authority

LEMMA GtkMoves ==
  ASSUME OpInv, Withdraws, account' = account, op' \in [Ops -> Operations],
         offSince' \in [Ops -> SUBSET Mods], \A j \in Ops : Moves(j)
  PROVE  OpInv'
<1>1. OpTyped' BY DEF OpInv, OpTyped, Withdraws
<1>2. SUFFICES ASSUME NEW j \in Ops
               PROVE  /\ Sane(op'[j], offSince'[j], account')
                      /\ j \in Authority(ui') => op'[j].kind = "cleanup" /\ op'[j].at \in Undecided
                      /\ j \in ui'.callbacks => op'[j].at = "refreshing"
                      /\ j \in revoked' => /\ j \notin Authority(ui')
                                           /\ op'[j].at \notin {"none", "closing", "deleting"}
  BY <1>1 DEF OpInv, Sane, Authority
<1>3. Moves(j) OBVIOUS
<1>4. /\ Sane(op'[j], offSince'[j], account')
      /\ j \in Authority(ui') => op'[j].kind = "cleanup" /\ op'[j].at \in Undecided
      /\ j \in ui'.callbacks => op'[j].at = "refreshing"
  BY <1>3 DEF Moves
<1>5. /\ j \in Authority(ui) => op[j].at \in Undecided
      /\ j \in revoked => op[j].at \notin {"none", "closing", "deleting"}
  BY DEF OpInv
<1>6. ASSUME j \in revoked'
      PROVE  j \notin Authority(ui') /\ op'[j].at \notin {"none", "closing", "deleting"}
  <2>1. \/ j \in revoked
        \/ j \in Authority(ui) /\ j \notin Authority(ui') /\ op'[j].at # "closing"
    BY <1>6 DEF Withdraws
  <2>2. QED BY <1>3, <1>5, <2>1 DEF Moves, Undecided
<1>7. QED BY <1>4, <1>6

(* An operation the handler is not about. *)
LEMMA StaysPut ==
  ASSUME OpInv, NEW j \in Ops, op'[j] = op[j], offSince'[j] = offSince[j],
         j \in Authority(ui') => j \in Authority(ui),
         j \in ui'.callbacks => j \in ui.callbacks
  PROVE  Moves(j)
BY DEF OpInv, Moves

LEMMA NothingGained ==
  ASSUME NEW j \in Ops, Derived(ui, ui')
  PROVE  /\ j \in Authority(ui') => j \in Authority(ui)
         /\ j \in ui'.callbacks => j \in ui.callbacks
BY ModsManagerAssumption DEF Derived, Authority, Ops, None

LEMMA SetOne ==
  ASSUME OpInv, NEW i \in Ops, NEW o \in Operations, Set(i, o)
  PROVE  /\ op' \in [Ops -> Operations] /\ op'[i] = o
         /\ \A j \in Ops \ {i} : op'[j] = op[j]
BY DEF OpInv, OpTyped, Set

(* A handler that is about none ... *)
LEMMA RestsStep ==
  ASSUME OpInv, Derived(ui, ui'), Withdraws, UNCHANGED <<account, op, offSince>>
  PROVE  OpInv'
<1>1. op' \in [Ops -> Operations] /\ offSince' \in [Ops -> SUBSET Mods]
  BY DEF OpInv, OpTyped
<1>2. ASSUME NEW j \in Ops PROVE Moves(j)
  BY <1>2, NothingGained, StaysPut
<1>3. QED BY <1>1, <1>2, GtkMoves

(* ... and one that is about one and gives it nothing. *)
LEMMA OneStep ==
  ASSUME OpInv, Derived(ui, ui'), Withdraws, UNCHANGED <<account, offSince>>,
         NEW i \in Ops, NEW o \in Operations, Set(i, o),
         Sane(o, offSince[i], account),
         o.at \in {"none", "deleting"} => op[i].at = o.at,
         o.at = "closing" => op[i].at = "closing" \/ i \notin revoked,
         i \in ui'.callbacks => o.at = "refreshing",
         i \in Authority(ui') => o.kind = "cleanup" /\ o.at \in Undecided
  PROVE  OpInv'
<1>1. /\ op' \in [Ops -> Operations] /\ op'[i] = o
      /\ \A j \in Ops \ {i} : op'[j] = op[j]
  BY SetOne
<1>2. offSince' \in [Ops -> SUBSET Mods] BY DEF OpInv, OpTyped
<1>3. ASSUME NEW j \in Ops \ {i} PROVE Moves(j)
  BY <1>1, <1>3, NothingGained, StaysPut
<1>4. i \in Authority(ui') => i \notin revoked
  BY NothingGained DEF OpInv
<1>5. Moves(i) BY <1>1, <1>4 DEF Moves
<1>6. QED BY <1>1, <1>2, <1>3, <1>5, GtkMoves

(* The end of an operation, which leaves nothing behind. *)
LEMMA OverStep ==
  ASSUME OpInv, Derived(ui, ui'), Withdraws, UNCHANGED <<account, offSince>>,
         NEW i \in Ops, Set(i, Over), op[i].at # "refreshing",
         Drops(i) \/ op[i].kind # "cleanup" \/ op[i].at \notin Undecided
  PROVE  OpInv'
<1>1. Over \in Operations /\ Sane(Over, offSince[i], account) /\ Over.at = "over"
  BY NoOpIsOperation DEF Over, NoOp, Sane
<1>2. i \notin Authority(ui')
  BY NothingGained DEF OpInv, Drops, Authority
<1>3. i \notin ui'.callbacks
  BY NothingGained DEF OpInv
<1>4. QED BY <1>1, <1>2, <1>3, OneStep

(* The end of a refresh: operations that waited for it go on, and the
   reminder takes one nobody has used.                                    *)
LEMMA FinishRefreshOps ==
  ASSUME OpInv, Derived(ui, ui'), NEW u, NEW success, NEW reminder,
         Finishing(u, success, reminder)
  PROVE  OpInv'
<1> DEFINE again == u.again /\ u.shown
           prompted == IF reminder THEN Unused ELSE {}
<1>1. /\ op' = [j \in Ops |-> IF j \in prompted THEN Prompted(j)
                               ELSE IF ~again /\ j \in u.callbacks THEN Resumed(j, success, u)
                               ELSE op[j]]
      /\ Withdraws /\ UNCHANGED <<account, offSince>>
      /\ u.callbacks \subseteq ui.callbacks /\ (~again => ui'.callbacks = {})
  BY GtkWithdraws DEF Finishing, FinishRefresh
<1> HIDE DEF again
<1>2. ASSUME NEW j \in Ops, j \in prompted
      PROVE  Moves(j) /\ op'[j] \in Operations
  <2>1. op'[j] = Prompted(j) /\ op[j].at = "none" BY <1>1, <1>2 DEF Unused
  <2>2. Prompted(j) \in Operations /\ Prompted(j).kind = "steam" /\ Prompted(j).at = "offering"
    BY DEF Prompted, NoOp, Operations, Kinds, Stages
  <2>3. j \notin ui.callbacks /\ j \notin Authority(ui)
    BY <2>1 DEF OpInv, Undecided
  <2>4. j \notin ui'.callbacks /\ j \notin Authority(ui')
    BY <2>3, NothingGained
  <2>5. QED BY <2>1, <2>2, <2>4 DEF Moves, Sane
<1>3. ASSUME NEW j \in Ops, j \notin prompted, ~again, j \in u.callbacks
      PROVE  Moves(j) /\ op'[j] \in Operations
  <2>1. op'[j] = Resumed(j, success, u) BY <1>1, <1>3
  <2>2. op[j].at = "refreshing" /\ op[j].kind # "cleanup" /\ op[j] \in Operations
        /\ j \notin Authority(ui)
    BY <1>1, <1>3 DEF OpInv, OpTyped, Sane, Undecided
  <2>3. j \notin ui'.callbacks /\ j \notin Authority(ui')
    BY <1>1, <1>3, <2>2, NothingGained
  <2>4. CASE op'[j] = Over
    BY <2>3, <2>4, NoOpIsOperation DEF Moves, Sane, Over, NoOp
  <2>5. CASE op'[j] = [op[j] EXCEPT !.at = "asking", !.ids = @ \cap u.workshop]
    <3>1. /\ op'[j] \in Operations /\ op'[j].at = "asking" /\ op'[j].kind = op[j].kind
      BY <2>2, <2>5 DEF Operations, Stages
    <3>2. QED BY <2>2, <2>3, <3>1 DEF Moves, Sane
  <2>6. QED BY <2>1, <2>4, <2>5 DEF Resumed
<1>4. ASSUME NEW j \in Ops, j \notin prompted, again \/ j \notin u.callbacks
      PROVE  Moves(j) /\ op'[j] \in Operations
  <2>1. op'[j] = op[j] BY <1>1, <1>4
  <2>2. op[j] \in Operations BY DEF OpInv, OpTyped
  <2>3. QED BY <1>1, <2>1, <2>2, NothingGained, StaysPut
<1> HIDE DEF prompted
<1>5. \A j \in Ops : Moves(j) /\ op'[j] \in Operations BY <1>2, <1>3, <1>4
<1>6. op' \in [Ops -> Operations] BY <1>1, <1>5
<1>7. offSince' \in [Ops -> SUBSET Mods] BY <1>1 DEF OpInv, OpTyped
<1>8. QED BY <1>1, <1>5, <1>6, <1>7, GtkMoves

(* A click takes an unused operation, and starts its history. *)
LEMMA ClickOps ==
  ASSUME OpInv, NEW i \in Unused, NEW kind \in Kinds, NEW stage \in {"checking", "asking"},
         NEW ids \in SUBSET Mods, Clicked(i, kind, stage, ids), Withdraws, account' = account,
         kind = "cleanup" => stage = "checking",
         \A j \in Ops \ {i} : /\ j \in Authority(ui') => j \in Authority(ui)
                              /\ j \in ui'.callbacks => j \in ui.callbacks,
         i \in Authority(ui') => kind = "cleanup" \/ i \in Authority(ui),
         i \in ui'.callbacks => i \in ui.callbacks
  PROVE  OpInv'
<1> DEFINE o == [NoOp EXCEPT !.kind = kind, !.at = stage, !.ids = ids]
<1>1. i \in Ops /\ op[i].at = "none" BY DEF Unused
<1>2. o \in Operations /\ o.kind = kind /\ o.at = stage /\ o.ids = ids
  BY DEF NoOp, Operations, Kinds, Stages
<1>3. Set(i, o) /\ offSince' = [offSince EXCEPT ![i] = Mods \ account]
  BY DEF Clicked
<1> HIDE DEF o
<1>4. /\ op' \in [Ops -> Operations] /\ op'[i] = o
      /\ \A j \in Ops \ {i} : op'[j] = op[j]
  BY <1>1, <1>2, <1>3, SetOne
<1>5. /\ offSince' \in [Ops -> SUBSET Mods] /\ offSince'[i] = Mods \ account
      /\ \A j \in Ops \ {i} : offSince'[j] = offSince[j]
  BY <1>1, <1>3 DEF OpInv, OpTyped
<1>6. ASSUME NEW j \in Ops \ {i} PROVE Moves(j)
  BY <1>4, <1>5, <1>6, StaysPut
<1>7. i \notin revoked /\ i \notin ui.callbacks /\ i \notin Authority(ui)
  BY <1>1 DEF OpInv, Undecided
<1>8. Sane(op'[i], offSince'[i], account)
  BY <1>2, <1>4, <1>5 DEF Sane, Undecided
<1>9. Moves(i)
  BY <1>2, <1>4, <1>7, <1>8 DEF Moves, Undecided
<1>10. QED BY <1>4, <1>5, <1>6, <1>9, GtkMoves

LEMMA ClicksStep ==
  ASSUME UiInv, OpInv, NEW i \in Unused,
         \/ \E ids \in SUBSET Mods : ClickCleanup(i, ids) \/ ClickUnsubscribe(i, ids)
         \/ ClickRepair(i)
  PROVE  UiInv' /\ OpInv'
<1>1. i \in Ops /\ ui \in Overlays BY DEF Unused, UiInv
<1>2. ASSUME NEW ids \in SUBSET Mods, ClickCleanup(i, ids)
      PROVE  UiInv' /\ OpInv'
  <2>1. /\ UiInv'
        /\ ui'.request = i /\ ui'.permit = None /\ ui'.callbacks = ui.callbacks
    BY <1>1, <1>2, ClickCleanupUi
  <2>2. Clicked(i, "cleanup", "checking", ids) /\ Withdraws /\ account' = account
    BY <1>2, GtkWithdraws DEF ClickCleanup
  <2>3. \A j \in Ops \ {i} : /\ j \in Authority(ui') => j \in Authority(ui)
                             /\ j \in ui'.callbacks => j \in ui.callbacks
    BY <2>1, ModsManagerAssumption DEF Authority, Ops, None
  <2>4. "cleanup" \in Kinds BY DEF Kinds
  <2>5. OpInv' BY <2>1, <2>2, <2>3, <2>4, ClickOps
  <2>6. QED BY <2>1, <2>5
<1>3. ASSUME NEW ids \in SUBSET Mods, ClickUnsubscribe(i, ids)
      PROVE  UiInv' /\ OpInv'
  <2>1. Plain(ui, ui') /\ UNCHANGED <<steam, recovering>>
    BY <1>1, <1>3, UserPlain
  <2>2. UiInv' /\ Derived(ui, ui') BY <2>1, PlainStep
  <2>3. Clicked(i, "unsubscribe", "checking", ids) /\ Withdraws /\ account' = account
    BY <1>3, GtkWithdraws DEF ClickUnsubscribe
  <2>4. \A j \in Ops : /\ j \in Authority(ui') => j \in Authority(ui)
                       /\ j \in ui'.callbacks => j \in ui.callbacks
    BY <2>2, NothingGained
  <2>5. "unsubscribe" \in Kinds BY DEF Kinds
  <2>6. OpInv' BY <1>1, <2>3, <2>4, <2>5, ClickOps
  <2>7. QED BY <2>2, <2>6
<1>4. CASE ClickRepair(i)
  <2>1. Plain(ui, ui') /\ UNCHANGED <<steam, recovering>>
    BY <1>1, <1>4, UserPlain
  <2>2. UiInv' /\ Derived(ui, ui') BY <2>1, PlainStep
  <2>3. Clicked(i, "repair", "asking", {}) /\ Withdraws /\ account' = account
    BY <1>4, GtkWithdraws DEF ClickRepair
  <2>4. \A j \in Ops : /\ j \in Authority(ui') => j \in Authority(ui)
                       /\ j \in ui'.callbacks => j \in ui.callbacks
    BY <2>2, NothingGained
  <2>5. "repair" \in Kinds /\ {} \in SUBSET Mods BY DEF Kinds
  <2>6. OpInv' BY <1>1, <2>3, <2>4, <2>5, ClickOps
  <2>7. QED BY <2>2, <2>6
<1>5. QED BY <1>2, <1>3, <1>4

(* Answers. *)
LEMMA RefuseStep ==
  ASSUME UiInv, OpInv, NEW i \in Ops, Refuse(i)
  PROVE  UiInv' /\ OpInv'
<1>1. ui \in Overlays BY DEF UiInv
<1>2. Plain(ui, ui') /\ Drops(i) /\ UNCHANGED <<steam, recovering>>
  BY <1>1, RefusePlain
<1>3. UiInv' /\ Derived(ui, ui') BY <1>2, PlainStep
<1>4. /\ Set(i, Over) /\ Withdraws /\ UNCHANGED <<account, offSince>>
      /\ op[i].at \in {"asking", "offering"}
  BY GtkWithdraws DEF Refuse, Ends, Answered
<1>5. OpInv' BY <1>2, <1>3, <1>4, OverStep
<1>6. QED BY <1>3, <1>5

LEMMA ConfirmCleanupStep ==
  ASSUME UiInv, OpInv, NEW i \in Ops, ConfirmCleanup(i)
  PROVE  UiInv' /\ OpInv'
<1>1. ui \in Overlays /\ op[i] \in Operations BY DEF UiInv, OpInv, OpTyped
<1>2. Plain(ui, ui') /\ Drops(i) /\ UNCHANGED <<steam, recovering>>
  BY <1>1, ConfirmCleanupPlain
<1>3. UiInv' /\ Derived(ui, ui') BY <1>2, PlainStep
<1>4. op[i].at = "asking" /\ op[i].kind = "cleanup" BY DEF ConfirmCleanup, Answered
<1>5. CASE Ends(i, Settled(DiscardOf(Closed, i)))
  <2>1. Set(i, Over) /\ Withdraws /\ UNCHANGED <<account, offSince>>
    BY <1>5, GtkWithdraws DEF Ends
  <2>2. OpInv' BY <1>2, <1>3, <1>4, <2>1, OverStep
  <2>3. QED BY <1>3, <2>2
<1>6. CASE Consumes(i) /\ Continues(i, "closing", [DiscardOf(Closed, i) EXCEPT !.pending = FALSE,
                                                                              !.running = TRUE])
  <2> DEFINE o == [op[i] EXCEPT !.at = "closing"]
  <2>1. Set(i, o) /\ Withdraws /\ UNCHANGED <<account, offSince>>
    BY <1>6, GtkWithdraws DEF Continues, Goto
  <2>2. i \notin revoked BY <1>6 DEF OpInv, Consumes, Authority
  <2>3. /\ o \in Operations /\ o.at = "closing" /\ o.kind = "cleanup" /\ o.ids = op[i].ids
    BY <1>1, <1>4 DEF Operations, Stages
  <2>4. Sane(op[i], offSince[i], account) BY DEF OpInv
  <2> HIDE DEF o
  <2>5. Sane(o, offSince[i], account) BY <1>4, <2>3, <2>4 DEF Sane
  <2>6. i \notin Authority(ui') /\ i \notin ui'.callbacks
    BY <1>2, <1>3, <1>4, NothingGained DEF Drops, Authority, OpInv
  <2>7. OpInv' BY <1>3, <2>1, <2>2, <2>3, <2>5, <2>6, OneStep
  <2>8. QED BY <1>3, <2>7
<1>7. QED BY <1>5, <1>6 DEF ConfirmCleanup

(* Whatever is not a cleanup has no authority. *)
LEMMA OtherStep ==
  ASSUME OpInv, Derived(ui, ui'), Withdraws, UNCHANGED <<account, offSince>>,
         NEW i \in Ops, NEW o \in Operations, Set(i, o),
         op[i].kind # "cleanup", op[i].at # "refreshing", o.kind # "cleanup",
         o.at \notin {"none", "closing", "deleting"}
  PROVE  OpInv'
<1>1. Sane(o, offSince[i], account) BY DEF Sane
<1>2. i \notin Authority(ui') /\ i \notin ui'.callbacks
  BY NothingGained DEF OpInv
<1>3. QED BY <1>1, <1>2, OneStep

LEMMA AnswerStep ==
  ASSUME UiInv, OpInv, NEW i \in Ops,
         ConfirmUnsubscribe(i) \/ ConfirmRepair(i) \/ StartSteam(i)
  PROVE  UiInv' /\ OpInv'
<1>1. ui \in Overlays /\ op[i] \in Operations BY DEF UiInv, OpInv, OpTyped
<1>2. Plain(ui, ui') /\ UNCHANGED <<steam, recovering>>
  BY <1>1, AnswerPlain
<1>3. UiInv' /\ Derived(ui, ui') BY <1>2, PlainStep
<1>4. op[i].kind # "cleanup" /\ op[i].at # "refreshing"
  BY DEF ConfirmUnsubscribe, ConfirmRepair, StartSteam, Answered, OpInv, Sane, Undecided
<1>5. ASSUME Set(i, Over), Withdraws, UNCHANGED <<account, offSince>>
      PROVE  OpInv'
  BY <1>3, <1>4, <1>5, OverStep
<1>6. ASSUME NEW stage \in {"unsubscribing", "repairing", "waiting"}, Goto(i, stage),
             Withdraws, UNCHANGED <<account, offSince>>
      PROVE  OpInv'
  <2> DEFINE o == [op[i] EXCEPT !.at = stage]
  <2>1. /\ o \in Operations /\ o.at = stage /\ o.kind = op[i].kind
    BY <1>1 DEF Operations, Stages
  <2>2. Set(i, o) BY <1>6 DEF Goto
  <2> HIDE DEF o
  <2>3. QED BY <1>3, <1>4, <1>6, <2>1, <2>2, OtherStep
<1>7. ASSUME Set(i, Prompted(i)), Withdraws, UNCHANGED <<account, offSince>>
      PROVE  OpInv'
  <2>1. Prompted(i) \in Operations /\ Prompted(i).kind = "steam" /\ Prompted(i).at = "offering"
    BY DEF Prompted, NoOp, Operations, Kinds, Stages
  <2>2. QED BY <1>3, <1>4, <1>7, <2>1, OtherStep
<1>8. CASE ConfirmUnsubscribe(i)
  <2>1. /\ Withdraws /\ UNCHANGED <<account, offSince>>
        /\ Set(i, Over) \/ Goto(i, "unsubscribing")
    BY <1>8, GtkWithdraws DEF ConfirmUnsubscribe, Ends, Continues
  <2>2. QED BY <1>3, <1>5, <1>6, <2>1
<1>9. CASE ConfirmRepair(i)
  <2>1. /\ Withdraws /\ UNCHANGED <<account, offSince>>
        /\ Set(i, Over) \/ Set(i, Prompted(i)) \/ Goto(i, "repairing")
    BY <1>9, GtkWithdraws DEF ConfirmRepair, Ends, Continues
  <2>2. QED BY <1>3, <1>5, <1>6, <1>7, <2>1
<1>10. CASE StartSteam(i)
  <2>1. /\ Withdraws /\ UNCHANGED <<account, offSince>>
        /\ Set(i, Over) \/ Goto(i, "waiting")
    BY <1>10, GtkWithdraws DEF StartSteam, Ends, Continues
  <2>2. QED BY <1>3, <1>5, <1>6, <2>1
<1>11. QED BY <1>8, <1>9, <1>10

(* The callbacks of workers. *)
LEMMA UnsubscribeCheckedStep ==
  ASSUME UiInv, OpInv, NEW i \in Ops, UnsubscribeChecked(i)
  PROVE  UiInv' /\ OpInv'
<1>1. ui \in Overlays /\ op[i] \in Operations BY DEF UiInv, OpInv, OpTyped
<1>2. Plain(ui, ui') /\ UNCHANGED <<steam, recovering>>
  BY <1>1, CallbackPlain
<1>3. UiInv' /\ Derived(ui, ui') BY <1>2, PlainStep
<1> DEFINE stage == IF op[i].failed THEN "offering" ELSE "asking"
           o == [op[i] EXCEPT !.at = stage, !.failed = FALSE]
<1>4. /\ op[i].kind = "unsubscribe" /\ op[i].at = "checked"
      /\ Withdraws /\ UNCHANGED <<account, offSince>>
      /\ Set(i, Over) \/ Set(i, o)
  BY GtkWithdraws DEF UnsubscribeChecked, Ends
<1>5. o \in Operations /\ o.kind = op[i].kind /\ o.at \in {"offering", "asking"}
  BY <1>1 DEF Operations, Stages
<1> HIDE DEF o
<1>6. CASE Set(i, Over) BY <1>3, <1>4, <1>6, OverStep
<1>7. CASE Set(i, o) BY <1>3, <1>4, <1>5, <1>7, OtherStep
<1>8. QED BY <1>3, <1>4, <1>6, <1>7

LEMMA ProgressStep ==
  ASSUME UiInv, OpInv, NEW i \in Ops, Progress(i)
  PROVE  UiInv' /\ OpInv'
<1>1. ui \in Overlays /\ op[i] \in Operations BY DEF UiInv, OpInv, OpTyped
<1>2. Plain(ui, ui') /\ UNCHANGED <<steam, recovering>>
  BY <1>1, CallbackPlain
<1>3. UiInv' /\ Derived(ui, ui') BY <1>2, PlainStep
<1> DEFINE o == [op[i] EXCEPT !.told = FALSE]
<1>4. Set(i, o) /\ Withdraws /\ UNCHANGED <<account, offSince>>
  BY GtkWithdraws DEF Progress
<1>5. /\ o \in Operations /\ o.kind = op[i].kind /\ o.at = op[i].at
      /\ o.ids = op[i].ids /\ o.failed = op[i].failed
  BY <1>1 DEF Operations
<1> HIDE DEF o
<1>6. Sane(o, offSince[i], account) BY <1>5 DEF OpInv, Sane
<1>7. /\ i \in ui'.callbacks => o.at = "refreshing"
      /\ i \in Authority(ui') => o.kind = "cleanup" /\ o.at \in Undecided
  BY <1>3, <1>5, NothingGained DEF OpInv
<1>8. OpInv' BY <1>3, <1>4, <1>5, <1>6, <1>7, OneStep
<1>9. QED BY <1>3, <1>8

LEMMA RepairDoneStep ==
  ASSUME UiInv, OpInv, NEW i \in Ops, RepairDone(i)
  PROVE  UiInv' /\ OpInv'
<1>1. ui \in Overlays /\ op[i] \in Operations BY DEF UiInv, OpInv, OpTyped
<1>2. Plain(ui, ui') /\ UNCHANGED <<steam, recovering>>
  BY <1>1, CallbackPlain
<1>3. UiInv' /\ Derived(ui, ui') BY <1>2, PlainStep
<1> DEFINE o == [op[i] EXCEPT !.at = "finalizing"]
<1>4. /\ op[i].kind = "repair" /\ op[i].at = "done"
      /\ Withdraws /\ UNCHANGED <<account, offSince>>
      /\ Set(i, Over) \/ Set(i, o)
  BY GtkWithdraws DEF RepairDone, Finished, Goto
<1>5. o \in Operations /\ o.kind = op[i].kind /\ o.at = "finalizing"
  BY <1>1 DEF Operations, Stages
<1> HIDE DEF o
<1>6. CASE Set(i, Over) BY <1>3, <1>4, <1>6, OverStep
<1>7. CASE Set(i, o) BY <1>3, <1>4, <1>5, <1>7, OtherStep
<1>8. QED BY <1>3, <1>4, <1>6, <1>7

LEMMA EndStep ==
  ASSUME UiInv, OpInv, NEW i \in Ops,
         CleanupDone(i) \/ UnsubscribeDone(i) \/ FinalizeRepair(i)
  PROVE  UiInv' /\ OpInv'
<1>1. UiInv' /\ Derived(ui, ui') BY DoneStep
<1>2. /\ Set(i, Over) /\ Withdraws /\ UNCHANGED <<account, offSince>>
      /\ op[i].at \in {"done", "finalizing"}
  <2>1. CASE CleanupDone(i) BY <2>1, GtkWithdraws DEF CleanupDone, Finished, Ends
  <2>2. CASE UnsubscribeDone(i) BY <2>2, GtkWithdraws DEF UnsubscribeDone, Finished, Ends
  <2>3. CASE FinalizeRepair(i) BY <2>3, GtkWithdraws DEF FinalizeRepair, Ends
  <2>4. QED BY <2>1, <2>2, <2>3
<1>3. OpInv' BY <1>1, <1>2, OverStep DEF Undecided
<1>4. QED BY <1>1, <1>3

(* The two handlers that give something: the question of a cleanup its
   permit, and Steam that has come an operation its place in a refresh.   *)
LEMMA CleanupCheckedStep ==
  ASSUME UiInv, OpInv, NEW i \in Ops, CleanupChecked(i)
  PROVE  UiInv' /\ OpInv'
<1> DEFINE o == [op[i] EXCEPT !.at = "asking", !.close = steam = "native"]
<1>1. /\ UiInv'
      /\ \/ Set(i, Over) /\ Derived(ui, ui') /\ Drops(i)
         \/ /\ Set(i, o) /\ ~op[i].failed /\ ui.request = i
            /\ ui'.request = None /\ ui'.permit = i /\ ui'.callbacks = ui.callbacks
  BY CleanupCheckedUi
<1>2. /\ op[i].kind = "cleanup" /\ op[i].at = "checked" /\ op[i] \in Operations
      /\ Withdraws /\ UNCHANGED <<account, offSince>>
  BY GtkWithdraws DEF CleanupChecked, Ends, OpInv, OpTyped
<1>3. CASE Set(i, Over) /\ Derived(ui, ui') /\ Drops(i)
  <2>1. OpInv' BY <1>2, <1>3, OverStep
  <2>2. QED BY <1>1, <2>1
<1>4. CASE /\ Set(i, o) /\ ~op[i].failed /\ ui.request = i
           /\ ui'.request = None /\ ui'.permit = i /\ ui'.callbacks = ui.callbacks
  <2>1. o \in Operations /\ o.at = "asking" /\ o.kind = "cleanup" /\ o.ids = op[i].ids
    BY <1>2 DEF Operations, Stages
  <2> HIDE DEF o
  <2>2. /\ op' \in [Ops -> Operations] /\ op'[i] = o
        /\ \A j \in Ops \ {i} : op'[j] = op[j]
    BY <1>4, <2>1, SetOne
  <2>3. offSince' \in [Ops -> SUBSET Mods] BY <1>2 DEF OpInv, OpTyped
  <2>4. ASSUME NEW j \in Ops \ {i} PROVE Moves(j)
    <3>1. j \in Authority(ui') => j \in Authority(ui)
      BY <1>4, ModsManagerAssumption DEF Authority, Ops, None
    <3>2. QED BY <1>2, <1>4, <2>2, <3>1, StaysPut
  <2>5. i \notin revoked /\ i \notin ui.callbacks
    BY <1>2, <1>4 DEF OpInv, Authority
  <2>6. Sane(op[i], offSince[i], account) BY DEF OpInv
  <2>7. Sane(o, offSince[i], account)
    BY <1>2, <1>4, <2>1, <2>6 DEF Sane, Undecided
  <2>8. Moves(i)
    BY <1>2, <1>4, <2>1, <2>2, <2>5, <2>7 DEF Moves, Undecided
  <2>9. OpInv' BY <1>2, <2>2, <2>3, <2>4, <2>8, GtkMoves
  <2>10. QED BY <1>1, <2>9
<1>5. QED BY <1>1, <1>3, <1>4

LEMMA WaitedStep ==
  ASSUME UiInv, OpInv, NEW i \in Ops, Waited(i)
  PROVE  UiInv' /\ OpInv'
<1> DEFINE o == [op[i] EXCEPT !.at = "refreshing"]
<1>1. /\ UiInv'
      /\ \/ Set(i, Over) /\ Derived(ui, ui')
         \/ /\ Set(i, o)
            /\ ui'.request \in {ui.request, None} /\ ui'.permit \in {ui.permit, None}
            /\ ui'.callbacks \subseteq ui.callbacks \cup {i}
  BY WaitedUi
<1>2. /\ op[i].at = "waited" /\ op[i] \in Operations
      /\ Withdraws /\ UNCHANGED <<account, offSince>>
  BY GtkWithdraws DEF Waited, Ends, Continues, OpInv, OpTyped
<1>3. op[i].kind # "cleanup" BY <1>2 DEF OpInv, Sane, Undecided
<1>4. CASE Set(i, Over) /\ Derived(ui, ui')
  <2>1. OpInv' BY <1>2, <1>3, <1>4, OverStep
  <2>2. QED BY <1>1, <2>1
<1>5. CASE /\ Set(i, o)
           /\ ui'.request \in {ui.request, None} /\ ui'.permit \in {ui.permit, None}
           /\ ui'.callbacks \subseteq ui.callbacks \cup {i}
  <2>1. o \in Operations /\ o.at = "refreshing" /\ o.kind = op[i].kind
    BY <1>2 DEF Operations, Stages
  <2> HIDE DEF o
  <2>2. /\ op' \in [Ops -> Operations] /\ op'[i] = o
        /\ \A j \in Ops \ {i} : op'[j] = op[j]
    BY <1>5, <2>1, SetOne
  <2>3. offSince' \in [Ops -> SUBSET Mods] BY <1>2 DEF OpInv, OpTyped
  <2>4. ASSUME NEW j \in Ops
        PROVE  j \in Authority(ui') => j \in Authority(ui)
    BY <1>5, ModsManagerAssumption DEF Authority, Ops, None
  <2>5. ASSUME NEW j \in Ops \ {i} PROVE Moves(j)
    <3>1. j \in ui'.callbacks => j \in ui.callbacks BY <1>5
    <3>2. QED BY <1>2, <2>2, <2>4, <3>1, StaysPut
  <2>6. i \notin Authority(ui') BY <1>3, <2>4 DEF OpInv
  <2>7. Moves(i) BY <1>3, <2>1, <2>2, <2>6 DEF Moves, Sane
  <2>8. OpInv' BY <1>2, <2>2, <2>3, <2>5, <2>7, GtkMoves
  <2>9. QED BY <1>1, <2>8
<1>6. QED BY <1>1, <1>4, <1>5

-----------------------------------------------------------------------------
(* What a worker, Steam or its user may do to an operation. *)
Advances(j) ==
  /\ Sane(op'[j], offSince'[j], account')
  /\ op[j].kind = "cleanup" /\ op[j].at \in Undecided
       => op'[j].kind = "cleanup" /\ op'[j].at \in Undecided
  /\ op[j].at = "refreshing" => op'[j].at = "refreshing"
  /\ op'[j].at \in {"none", "closing"} => op[j].at = op'[j].at
  /\ op'[j].at = "deleting" => op[j].at \in {"closing", "deleting"}

LEMMA WorldMoves ==
  ASSUME UiInv, OpInv, UNCHANGED <<ui, recovering, revoked>>, steam' \in SteamStates,
         account' \subseteq Mods, op' \in [Ops -> Operations],
         offSince' \in [Ops -> SUBSET Mods], \A j \in Ops : Advances(j)
  PROVE  UiInv' /\ OpInv'
<1>1. UiInv' BY DEF UiInv, SteamStates
<1>2. OpTyped' BY DEF OpInv, OpTyped
<1>3. ASSUME NEW j \in Ops
      PROVE  /\ Sane(op'[j], offSince'[j], account')
             /\ j \in Authority(ui') => op'[j].kind = "cleanup" /\ op'[j].at \in Undecided
             /\ j \in ui'.callbacks => op'[j].at = "refreshing"
             /\ j \in revoked' => /\ j \notin Authority(ui')
                                  /\ op'[j].at \notin {"none", "closing", "deleting"}
  BY <1>3 DEF OpInv, Advances
<1>4. OpInv' BY <1>2, <1>3 DEF OpInv, Sane, Authority
<1>5. QED BY <1>1, <1>4

LEMMA OthersAdvance ==
  ASSUME OpInv, NEW j \in Ops, op'[j] = op[j], offSince'[j] = offSince[j], account' = account
  PROVE  Advances(j)
BY DEF OpInv, Advances

LEMMA MoreIsOff ==
  ASSUME OpInv, NEW m \in Mods, account' = account \ {m}, Off(m)
  PROVE  /\ account' \subseteq Mods /\ offSince' \in [Ops -> SUBSET Mods]
         /\ \A j \in Ops : op'[j] = op[j] => Advances(j)
<1>1. account' \subseteq Mods /\ offSince' \in [Ops -> SUBSET Mods]
  BY DEF OpInv, OpTyped, Off
<1>2. ASSUME NEW j \in Ops, op'[j] = op[j] PROVE Advances(j)
  <2>1. Sane(op[j], offSince[j], account) BY DEF OpInv
  <2>2. offSince'[j] = IF op[j].at \in {"none", "over"} THEN offSince[j]
                       ELSE offSince[j] \cup {m}
    BY DEF Off
  <2>3. Sane(op'[j], offSince'[j], account')
    <3>1. op[j].kind = "cleanup" => offSince'[j] = offSince[j] \cup {m}
      BY <2>1, <2>2 DEF Sane, Undecided
    <3>2. QED BY <1>2, <2>1, <3>1 DEF Sane
  <2>4. QED BY <1>2, <2>3 DEF Advances
<1>3. QED BY <1>1, <1>2

LEMMA WorldStep ==
  ASSUME UiInv, OpInv, World
  PROVE  UiInv' /\ OpInv'
<1>1. account \subseteq Mods /\ op \in [Ops -> Operations] /\ offSince \in [Ops -> SUBSET Mods]
  BY DEF OpInv, OpTyped
<1>2. ASSUME NEW state \in SteamStates, SteamChanges(state)
      PROVE  UiInv' /\ OpInv'
  <2>1. /\ steam' \in SteamStates /\ UNCHANGED <<account, recovering, ui, op, offSince, revoked>>
    BY <1>2 DEF SteamChanges, SteamStep
  <2>2. \A j \in Ops : Advances(j) BY <2>1, OthersAdvance
  <2>3. QED BY <1>1, <2>1, <2>2, WorldMoves
<1>3. ASSUME NEW m \in Mods, UserSubscribes(m)
      PROVE  UiInv' /\ OpInv'
  <2>1. /\ account' = account \cup {m} /\ steam' \in SteamStates
        /\ UNCHANGED <<recovering, ui, op, offSince, revoked>>
    BY <1>3 DEF UserSubscribes, SteamStep, UiInv
  <2>2. ASSUME NEW j \in Ops PROVE Advances(j)
    <3>1. Sane(op[j], offSince[j], account) BY DEF OpInv
    <3>2. Sane(op'[j], offSince'[j], account') BY <2>1, <3>1 DEF Sane
    <3>3. QED BY <2>1, <3>2 DEF Advances
  <2>3. QED BY <1>1, <2>1, <2>2, WorldMoves
<1>4. ASSUME NEW m \in Mods, UserUnsubscribes(m)
      PROVE  UiInv' /\ OpInv'
  <2>1. /\ account' = account \ {m} /\ Off(m) /\ steam' \in SteamStates
        /\ UNCHANGED <<recovering, ui, op, revoked>>
    BY <1>4 DEF UserUnsubscribes, SteamStep, UiInv
  <2>2. /\ account' \subseteq Mods /\ offSince' \in [Ops -> SUBSET Mods]
        /\ \A j \in Ops : Advances(j)
    BY <2>1, MoreIsOff
  <2>3. QED BY <1>1, <2>1, <2>2, WorldMoves
<1>5. QED BY <1>2, <1>3, <1>4 DEF World, SteamStates

(* The operations' threads. *)
LEMMA WorkStep ==
  ASSUME UiInv, OpInv, NEW i \in Ops, NEW o \in Operations, Set(i, o),
         UNCHANGED <<account, recovering, ui, offSince, revoked>>, steam' \in SteamStates,
         Sane(o, offSince[i], account),
         op[i].kind = "cleanup" /\ op[i].at \in Undecided
           => o.kind = "cleanup" /\ o.at \in Undecided,
         op[i].at # "refreshing",
         o.at \notin {"none", "closing"},
         o.at = "deleting" => op[i].at \in {"closing", "deleting"}
  PROVE  UiInv' /\ OpInv'
<1>1. /\ op' \in [Ops -> Operations] /\ op'[i] = o
      /\ \A j \in Ops \ {i} : op'[j] = op[j]
  BY SetOne
<1>2. Advances(i) BY <1>1 DEF Advances
<1>3. \A j \in Ops : Advances(j) BY <1>1, <1>2, OthersAdvance
<1>4. account' \subseteq Mods /\ offSince' \in [Ops -> SUBSET Mods] BY DEF OpInv, OpTyped
<1>5. QED BY <1>1, <1>3, <1>4, WorldMoves

LEMMA WorksStep ==
  ASSUME UiInv, OpInv, NEW i \in Ops,
         \/ CheckCleanup(i) \/ CheckUnsubscribe(i) \/ WaitForSteam(i)
         \/ CloseSteam(i) \/ CleanupEnds(i) \/ UnsubscribeStops(i) \/ RepairOne(i)
         \/ \E m \in Mods : DeleteOne(i, m)
  PROVE  UiInv' /\ OpInv'
<1> DEFINE Fits(o) ==
      /\ o \in Operations /\ Set(i, o)
      /\ UNCHANGED <<account, recovering, ui, offSince, revoked>> /\ steam' \in SteamStates
      /\ Sane(o, offSince[i], account)
      /\ op[i].kind = "cleanup" /\ op[i].at \in Undecided
           => o.kind = "cleanup" /\ o.at \in Undecided
      /\ op[i].at # "refreshing"
      /\ o.at \notin {"none", "closing"}
      /\ o.at = "deleting" => op[i].at \in {"closing", "deleting"}
<1>0. (\E o : Fits(o)) => UiInv' /\ OpInv'
  BY WorkStep
<1>t. /\ op[i] \in Operations /\ Sane(op[i], offSince[i], account) /\ steam \in SteamStates
      /\ account \subseteq Mods
  BY DEF OpInv, OpTyped, UiInv
<1>1. CASE CheckCleanup(i)
  <2>1. op[i].kind = "cleanup" /\ op[i].at = "checking" BY <1>1 DEF CheckCleanup
  <2>2. CASE Works(i, [op[i] EXCEPT !.at = "checked", !.ids = Safe(i)])
    <3> DEFINE o == [op[i] EXCEPT !.at = "checked", !.ids = Safe(i)]
    <3>1. /\ o \in Operations /\ o.at = "checked" /\ o.kind = "cleanup"
          /\ o.ids \subseteq Mods \ account
      BY <1>t, <2>1 DEF Operations, Stages, Safe
    <3>2. Set(i, o) /\ UNCHANGED <<steam, account, recovering, ui, offSince, revoked>>
      BY <2>2 DEF Works, history
    <3> HIDE DEF o
    <3>3. Sane(o, offSince[i], account) BY <1>t, <2>1, <3>1 DEF Sane, Undecided
    <3>4. Fits(o) BY <1>t, <2>1, <3>1, <3>2, <3>3 DEF Undecided
    <3>5. QED BY <1>0, <3>4
  <2>3. CASE Works(i, [op[i] EXCEPT !.at = "checked", !.failed = TRUE])
    <3> DEFINE o == [op[i] EXCEPT !.at = "checked", !.failed = TRUE]
    <3>1. /\ o \in Operations /\ o.at = "checked" /\ o.kind = "cleanup" /\ o.failed
      BY <1>t, <2>1 DEF Operations, Stages
    <3>2. Set(i, o) /\ UNCHANGED <<steam, account, recovering, ui, offSince, revoked>>
      BY <2>3 DEF Works, history
    <3> HIDE DEF o
    <3>3. Sane(o, offSince[i], account) BY <1>t, <2>1, <3>1 DEF Sane, Undecided
    <3>4. Fits(o) BY <1>t, <2>1, <3>1, <3>2, <3>3 DEF Undecided
    <3>5. QED BY <1>0, <3>4
  <2>4. QED BY <1>1, <2>2, <2>3 DEF CheckCleanup
(* An operation of another kind goes on. *)
<1>2. ASSUME NEW o \in Operations, Set(i, o), op[i].kind # "cleanup",
             op[i].at # "refreshing", o.kind = op[i].kind,
             o.at \notin {"none", "closing", "deleting"},
             UNCHANGED <<steam, account, recovering, ui, offSince, revoked>>
      PROVE  UiInv' /\ OpInv'
  <2>1. Sane(o, offSince[i], account) BY <1>2 DEF Sane
  <2>2. Fits(o) BY <1>2, <1>t, <2>1
  <2>3. QED BY <1>0, <2>2
<1>3. CASE CheckUnsubscribe(i)
  <2> DEFINE a == [op[i] EXCEPT !.at = "checked", !.ids = @ \cap account]
             b == [op[i] EXCEPT !.at = "checked", !.failed = TRUE]
  <2>1. /\ op[i].kind = "unsubscribe" /\ op[i].at = "checking"
        /\ Set(i, a) \/ Set(i, b)
        /\ UNCHANGED <<steam, account, recovering, ui, offSince, revoked>>
    BY <1>3 DEF CheckUnsubscribe, Works, history
  <2>2. /\ a \in Operations /\ a.at = "checked" /\ a.kind = op[i].kind
        /\ b \in Operations /\ b.at = "checked" /\ b.kind = op[i].kind
    BY <1>t DEF Operations, Stages
  <2> HIDE DEF a, b
  <2>3. QED BY <1>2, <2>1, <2>2
<1>4. CASE WaitForSteam(i)
  <2> DEFINE a == [op[i] EXCEPT !.at = "waited", !.failed = FALSE]
             b == [op[i] EXCEPT !.at = "waited", !.failed = TRUE]
  <2>1. /\ op[i].at = "waiting"
        /\ Set(i, a) \/ Set(i, b)
        /\ UNCHANGED <<steam, account, recovering, ui, offSince, revoked>>
    BY <1>4 DEF WaitForSteam, Works, history
  <2>2. /\ a \in Operations /\ a.at = "waited" /\ a.kind = op[i].kind
        /\ b \in Operations /\ b.at = "waited" /\ b.kind = op[i].kind
    BY <1>t DEF Operations, Stages
  <2>3. op[i].kind # "cleanup" BY <1>t, <2>1 DEF Sane, Undecided
  <2> HIDE DEF a, b
  <2>4. QED BY <1>2, <2>1, <2>2, <2>3
<1>5. ASSUME NEW failed \in BOOLEAN, Set(i, Finishes(i, failed)),
             op[i].at \in {"closing", "deleting", "unsubscribing", "repairing"},
             UNCHANGED <<account, recovering, ui, offSince, revoked>>, steam' \in SteamStates
      PROVE  UiInv' /\ OpInv'
  <2> DEFINE o == Finishes(i, failed)
  <2>1. o \in Operations /\ o.at = "done" /\ o.kind = op[i].kind
    BY <1>t, <1>5 DEF Finishes, Operations, Stages
  <2>2. Set(i, o) BY <1>5
  <2> HIDE DEF o
  <2>3. Sane(o, offSince[i], account) BY <1>t, <2>1 DEF Sane, Undecided
  <2>4. Fits(o) BY <1>5, <2>1, <2>2, <2>3 DEF Undecided
  <2>5. QED BY <1>0, <2>4
<1>6. ASSUME NEW o \in Operations, Set(i, o), op[i].at \in {"closing", "deleting"},
             o.at = "deleting", o.kind = op[i].kind, o.ids \subseteq op[i].ids,
             UNCHANGED <<account, recovering, ui, offSince, revoked>>, steam' \in SteamStates
      PROVE  UiInv' /\ OpInv'
  <2>1. Sane(o, offSince[i], account) BY <1>t, <1>6 DEF Sane, Undecided
  <2>2. Fits(o) BY <1>6, <2>1 DEF Undecided
  <2>3. QED BY <1>0, <2>2
<1> HIDE DEF Fits
<1>7. CASE CloseSteam(i)
  <2> DEFINE a == [op[i] EXCEPT !.at = "deleting", !.closed = TRUE]
             b == [op[i] EXCEPT !.at = "deleting"]
  <2>1. /\ op[i].at = "closing"
        /\ Set(i, a) \/ Set(i, b) \/ Set(i, Finishes(i, TRUE))
        /\ UNCHANGED <<account, recovering, ui, offSince, revoked>> /\ steam' \in SteamStates
    BY <1>7, <1>t DEF CloseSteam, WorksWith, SteamStates
  <2>2. /\ a \in Operations /\ a.at = "deleting" /\ a.kind = op[i].kind /\ a.ids = op[i].ids
        /\ b \in Operations /\ b.at = "deleting" /\ b.kind = op[i].kind /\ b.ids = op[i].ids
    BY <1>t DEF Operations, Stages
  <2> HIDE DEF a, b
  <2>3. QED BY <1>5, <1>6, <2>1, <2>2
<1>8. CASE CleanupEnds(i)
  <2>1. /\ op[i].at = "deleting" /\ Set(i, Finishes(i, FALSE))
        /\ UNCHANGED <<account, recovering, ui, offSince, revoked>> /\ steam' \in SteamStates
    BY <1>8, <1>t DEF CleanupEnds, WorksWith, SteamStates
  <2>2. QED BY <1>5, <2>1
<1>9. CASE UnsubscribeStops(i)
  <2>1. /\ op[i].at = "unsubscribing" /\ Set(i, Finishes(i, FALSE))
        /\ UNCHANGED <<steam, account, recovering, ui, offSince, revoked>>
    BY <1>9 DEF UnsubscribeStops, Works, history
  <2>2. QED BY <1>5, <1>t, <2>1
<1>10. CASE RepairOne(i)
  <2>1. PICK failed \in BOOLEAN : Works(i, Finishes(i, failed)) BY <1>10 DEF RepairOne
  <2>2. /\ op[i].at = "repairing" /\ Set(i, Finishes(i, failed))
        /\ UNCHANGED <<steam, account, recovering, ui, offSince, revoked>>
    BY <1>10, <2>1 DEF RepairOne, Works, history
  <2>3. QED BY <1>5, <1>t, <2>2
<1>11. ASSUME NEW m \in Mods, DeleteOne(i, m)
       PROVE  UiInv' /\ OpInv'
  <2> DEFINE o == [op[i] EXCEPT !.ids = @ \ {m}, !.told = TRUE]
  <2>1. /\ op[i].at = "deleting"
        /\ Set(i, o) \/ Set(i, Finishes(i, TRUE))
        /\ UNCHANGED <<steam, account, recovering, ui, offSince, revoked>>
    BY <1>11 DEF DeleteOne, WorksWith
  <2>2. /\ o \in Operations /\ o.at = op[i].at /\ o.kind = op[i].kind
        /\ o.ids \subseteq op[i].ids
    BY <1>t DEF Operations
  <2> HIDE DEF o
  <2>3. QED BY <1>5, <1>6, <1>t, <2>1, <2>2
<1>12. QED BY <1>1, <1>3, <1>4, <1>7, <1>8, <1>9, <1>10, <1>11

LEMMA UnsubscribeOneStep ==
  ASSUME UiInv, OpInv, NEW i \in Ops, NEW m \in Mods, UnsubscribeOne(i, m)
  PROVE  UiInv' /\ OpInv'
<1> DEFINE a == [op[i] EXCEPT !.ids = @ \ {m}, !.told = TRUE]
           b == [Finishes(i, TRUE) EXCEPT !.told = TRUE]
<1>1. /\ op[i].at = "unsubscribing" /\ UNCHANGED <<steam, recovering, ui, revoked>>
      /\ \/ Set(i, b) /\ UNCHANGED <<account, offSince>>
         \/ /\ Set(i, a)
            /\ \/ account' = account \ {m} /\ Off(m)
               \/ UNCHANGED <<account, offSince>>
  BY DEF UnsubscribeOne, WorksWith
<1>2. op[i] \in Operations /\ steam \in SteamStates /\ op[i].kind # "cleanup"
  BY <1>1 DEF OpInv, OpTyped, UiInv, Sane, Undecided
<1>3. /\ a \in Operations /\ a.at = "unsubscribing" /\ a.kind = op[i].kind
      /\ b \in Operations /\ b.at = "done" /\ b.kind = op[i].kind
  BY <1>1, <1>2 DEF Operations, Stages, Finishes
<1> HIDE DEF a, b
<1>4. PICK o \in {a, b} : Set(i, o) BY <1>1
<1>5. /\ op' \in [Ops -> Operations] /\ op'[i] = o
      /\ \A j \in Ops \ {i} : op'[j] = op[j]
  BY <1>3, <1>4, SetOne
<1>6. Advances(i)
  BY <1>1, <1>2, <1>3, <1>4, <1>5 DEF Advances, Sane
<1>7. CASE UNCHANGED <<account, offSince>>
  <2>1. \A j \in Ops : Advances(j) BY <1>5, <1>6, <1>7, OthersAdvance
  <2>2. account' \subseteq Mods /\ offSince' \in [Ops -> SUBSET Mods]
    BY <1>7 DEF OpInv, OpTyped
  <2>3. QED BY <1>1, <1>2, <1>5, <2>1, <2>2, WorldMoves
<1>8. CASE account' = account \ {m} /\ Off(m)
  <2>1. /\ account' \subseteq Mods /\ offSince' \in [Ops -> SUBSET Mods]
        /\ \A j \in Ops \ {i} : Advances(j)
    BY <1>5, <1>8, MoreIsOff
  <2>2. \A j \in Ops : Advances(j) BY <1>6, <2>1
  <2>3. QED BY <1>1, <1>2, <1>5, <2>1, <2>2, WorldMoves
<1>9. QED BY <1>1, <1>7, <1>8

-----------------------------------------------------------------------------
(* All steps together. *)
LEMMA ThreadsStep ==
  ASSUME UiInv, OpInv, Threads
  PROVE  UiInv' /\ OpInv'
<1>1. UiInv' BY ReadingStep DEF Threads, OpInv, OpTyped
<1>2. Derived(ui, ui') BY ReadingStep DEF Threads, OpInv, OpTyped
<1>3. UNCHANGED <<account, op, offSince, revoked>>
  BY DEF Threads, LoadItems, ObserveEnd, InventoryStep, history
<1>4. op' \in [Ops -> Operations] /\ offSince' \in [Ops -> SUBSET Mods] /\ OpTyped'
  BY <1>3 DEF OpInv, OpTyped
<1>5. ASSUME NEW j \in Ops
      PROVE  /\ Sane(op'[j], offSince'[j], account')
             /\ j \in Authority(ui') => op'[j].kind = "cleanup" /\ op'[j].at \in Undecided
             /\ j \in ui'.callbacks => op'[j].at = "refreshing"
             /\ j \in revoked' => /\ j \notin Authority(ui')
                                  /\ op'[j].at \notin {"none", "closing", "deleting"}
  <2>1. /\ j \in Authority(ui') => j \in Authority(ui)
        /\ j \in ui'.callbacks => j \in ui.callbacks
    BY <1>2, NothingGained
  <2>2. QED BY <1>3, <2>1 DEF OpInv
<1>6. OpInv' BY <1>4, <1>5 DEF OpInv, Sane, Authority
<1>7. QED BY <1>1, <1>6

LEMMA RecoveryStep ==
  ASSUME UiInv, OpInv,
         \/ ProbeDone \/ Tick \/ Open \/ Hide
         \/ RecoveryResets \/ BeginHandoff \/ ShowRecovered \/ CancelRecovery
  PROVE  UiInv' /\ OpInv'
<1>1. UiInv' /\ Derived(ui, ui')
  BY ProbeStep, TickStep, OpenStep, HideStep, RecoveryResetsStep, BeginHandoffStep,
     ShowRecoveredStep, CancelRecoveryStep
<1>2. Withdraws /\ UNCHANGED <<account, op, offSince>>
  <2>1. CASE ProbeDone BY <2>1, GtkWithdraws DEF ProbeDone
  <2>2. CASE Tick BY <2>2, GtkWithdraws DEF Tick, GtkOnly
  <2>3. CASE Open BY <2>3, GtkWithdraws DEF Open
  <2>4. CASE Hide BY <2>4, GtkWithdraws DEF Hide, GtkOnly
  <2>5. CASE RecoveryResets BY <2>5, GtkWithdraws DEF RecoveryResets
  <2>6. CASE BeginHandoff BY <2>6, GtkWithdraws DEF BeginHandoff, GtkOnly
  <2>7. CASE ShowRecovered BY <2>7, GtkWithdraws DEF ShowRecovered, Recovered
  <2>8. CASE CancelRecovery BY <2>8, GtkWithdraws DEF CancelRecovery, Recovered
  <2>9. QED BY <2>1, <2>2, <2>3, <2>4, <2>5, <2>6, <2>7, <2>8
<1>3. QED BY <1>1, <1>2, RestsStep

LEMMA ButtonsStep ==
  ASSUME UiInv, OpInv, RepairRefused \/ StopUnsubscribe \/ Dismiss
  PROVE  UiInv' /\ OpInv'
<1>1. ui \in Overlays BY DEF UiInv
<1>2. Plain(ui, ui') /\ UNCHANGED <<steam, recovering>> BY <1>1, UserPlain
<1>3. UiInv' /\ Derived(ui, ui') BY <1>2, PlainStep
<1>4. Withdraws /\ UNCHANGED <<account, op, offSince>>
  <2>1. CASE RepairRefused BY <2>1, GtkWithdraws DEF RepairRefused, GtkOnly
  <2>2. CASE StopUnsubscribe BY <2>2, GtkWithdraws DEF StopUnsubscribe, GtkOnly
  <2>3. CASE Dismiss BY <2>3, GtkWithdraws DEF Dismiss, GtkOnly
  <2>4. QED BY <2>1, <2>2, <2>3
<1>5. QED BY <1>3, <1>4, RestsStep

LEMMA UserStep ==
  ASSUME UiInv, OpInv, User
  PROVE  UiInv' /\ OpInv'
<1>1. CASE Open \/ Hide BY <1>1, RecoveryStep
<1>2. CASE RepairRefused \/ StopUnsubscribe \/ Dismiss BY <1>2, ButtonsStep
<1>3. ASSUME NEW i \in Unused,
             \/ \E ids \in SUBSET Mods : ClickCleanup(i, ids) \/ ClickUnsubscribe(i, ids)
             \/ ClickRepair(i)
      PROVE  UiInv' /\ OpInv'
  BY <1>3, ClicksStep
<1>4. ASSUME NEW i \in Ops,
             \/ Refuse(i) \/ ConfirmCleanup(i) \/ ConfirmUnsubscribe(i)
             \/ ConfirmRepair(i) \/ StartSteam(i)
      PROVE  UiInv' /\ OpInv'
  BY <1>4, RefuseStep, ConfirmCleanupStep, AnswerStep
<1>5. QED BY <1>1, <1>2, <1>3, <1>4 DEF User

LEMMA OpCallbackStep ==
  ASSUME UiInv, OpInv, NEW i \in Ops, OpCallback(i)
  PROVE  UiInv' /\ OpInv'
BY CleanupCheckedStep, UnsubscribeCheckedStep, WaitedStep, ProgressStep, EndStep,
   RepairDoneStep DEF OpCallback

LEMMA NextStep ==
  ASSUME UiInv, OpInv, Next
  PROVE  UiInv' /\ OpInv'
<1>1. CASE World BY <1>1, WorldStep
<1>2. CASE Threads BY <1>2, ThreadsStep
<1>3. CASE Callbacks
  <2>1. CASE ApplyRefresh
    <3>1. UiInv' /\ Derived(ui, ui') /\ \E u, success, reminder : Finishing(u, success, reminder)
      BY <2>1, ApplyRefreshStep
    <3>2. OpInv' BY <3>1, FinishRefreshOps
    <3>3. QED BY <3>1, <3>2
  <2>2. QED BY <1>3, <2>1, RecoveryStep DEF Callbacks
<1>4. CASE User BY <1>4, UserStep
<1>5. CASE Recovery BY <1>5, RecoveryStep DEF Recovery
<1>6. ASSUME NEW i \in Ops, OpThread(i)
      PROVE  UiInv' /\ OpInv'
  <2>1. \/ CheckCleanup(i) \/ CheckUnsubscribe(i) \/ WaitForSteam(i)
        \/ CloseSteam(i) \/ CleanupEnds(i) \/ UnsubscribeStops(i) \/ RepairOne(i)
        \/ \E m \in Mods : DeleteOne(i, m)
        \/ \E m \in Mods : UnsubscribeOne(i, m)
    BY <1>6 DEF OpThread
  <2>2. QED BY <2>1, WorksStep, UnsubscribeOneStep
<1>7. ASSUME NEW i \in Ops, OpCallback(i)
      PROVE  UiInv' /\ OpInv'
  BY <1>7, OpCallbackStep
<1>8. QED BY <1>1, <1>2, <1>3, <1>4, <1>5, <1>6, <1>7 DEF Next

LEMMA BuiltIsOverlay == Built \in Overlays
<1>1. NoRefresh \in Refreshes BY DEF NoRefresh, Refreshes, States
<1>2. None \in None..Notice /\ None \in None..MaxOps
  BY ModsManagerAssumption DEF None, Notice
<1>3. QED BY <1>1, <1>2 DEF Built, Overlays, States, Probes

LEMMA InitHolds ==
  ASSUME Init
  PROVE  UiInv /\ OpInv
<1> DEFINE r == [NoRefresh EXCEPT !.step = "load"]
           v == [Built EXCEPT !.refresh = r]
<1>1. /\ Built \in Overlays /\ Built.request = None /\ Built.permit = None
      /\ Built.callbacks = {} /\ ~Built.verified /\ ~Built.shown /\ Built.handoff = "none"
  BY BuiltIsOverlay DEF Built
<1>2. r \in Refreshes BY DEF NoRefresh, Refreshes, States
<1>3. Built.refresh = NoRefresh BY DEF Built
<1>4. ui = [v EXCEPT !.validity = "loading"]
  BY <1>1, <1>3 DEF Init, Overlays
<1> HIDE DEF r
<1>5. /\ v \in Overlays /\ v.request = None /\ v.permit = None
      /\ v.callbacks = {} /\ ~v.verified /\ ~v.shown /\ v.handoff = "none"
  BY <1>1, <1>2 DEF Overlays
<1> HIDE DEF v
<1>6. /\ ui \in Overlays /\ ui.request = None /\ ui.permit = None
      /\ ui.callbacks = {} /\ ~ui.verified /\ ~ui.shown /\ ui.handoff = "none"
  BY <1>4, <1>5 DEF Overlays
<1>7. /\ steam \in {"native", "offline"} /\ account \subseteq Mods /\ recovering = "no"
      /\ op = [i \in Ops |-> NoOp] /\ offSince = [i \in Ops |-> {}] /\ revoked = {}
  BY DEF Init
<1>8. UiInv BY <1>6, <1>7 DEF UiInv, SteamStates, Recent, Sound
<1>9. OpTyped BY <1>7, NoOpIsOperation DEF OpTyped
<1>10. ASSUME NEW i \in Ops
       PROVE  Sane(op[i], offSince[i], account) /\ i \notin Authority(ui)
  <2>1. op[i].kind = "none" /\ op[i].at = "none" BY <1>7 DEF NoOp
  <2>2. i # None BY ModsManagerAssumption DEF Ops, None
  <2>3. QED BY <1>6, <2>1, <2>2 DEF Sane, Authority
<1>11. OpInv BY <1>6, <1>7, <1>9, <1>10 DEF OpInv
<1>12. QED BY <1>8, <1>11

LEMMA Stutter ==
  ASSUME UiInv, OpInv, UNCHANGED vars
  PROVE  UiInv' /\ OpInv'
<1>1. UNCHANGED <<steam, account, recovering, ui, op, offSince, revoked, steps>>
  BY DEF vars
<1>2. UiInv' BY <1>1 DEF UiInv
<1>3. op' \in [Ops -> Operations] /\ offSince' \in [Ops -> SUBSET Mods] /\ account' \subseteq Mods
      /\ steam' \in SteamStates
  BY <1>1 DEF OpInv, OpTyped, UiInv
<1>4. \A j \in Ops : Advances(j) BY <1>1, OthersAdvance
<1>5. QED BY <1>1, <1>3, <1>4, WorldMoves

(* What the overlay believes, the authority of cleanups and the history of
   the account belong together at every step.                             *)
THEOREM ManagerInvariant == Spec => [](UiInv /\ OpInv)
<1>1. Init => UiInv /\ OpInv BY InitHolds
<1>2. UiInv /\ OpInv /\ [Next]_vars => UiInv' /\ OpInv' BY NextStep, Stutter
<1>3. QED BY <1>1, <1>2, PTL DEF Spec

-----------------------------------------------------------------------------
(* The manager offers operations only on an inventory read in the session of
   Steam it believes in.                                                  *)
THEOREM InventoryIsOfTheSession == Spec => []VerifiedInventoryIsCurrent
<1>1. UiInv => VerifiedInventoryIsCurrent
  BY DEF UiInv, Recent, VerifiedInventoryIsCurrent, Verified
<1>2. QED BY <1>1, ManagerInvariant, PTL

(* While the manager is shown, an inventory that is not up to date is being
   read by a refresh that counts or that is run again.                    *)
THEOREM ShownIsReading == Spec => []StaleIsBeingRead
<1>1. UiInv => StaleIsBeingRead
  BY DEF UiInv, Sound, Fresh, Reading, StaleIsBeingRead
<1>2. QED BY <1>1, ManagerInvariant, PTL

(* A cleanup whose authority was withdrawn never deletes, and one that does
   removes only mods that were unsubscribed at some moment since its click. *)
LEMMA EntitledStep ==
  ASSUME OpInv, OpInv', NEW i \in Ops
  PROVE  /\ i \in revoked' => op'[i].at \notin {"closing", "deleting"}
         /\ op[i].at = "deleting" => op[i].ids \ op'[i].ids \subseteq offSince[i]
<1>1. i \in revoked' => op'[i].at \notin {"closing", "deleting"} BY DEF OpInv
<1>2. op[i].at = "deleting" => op[i].ids \subseteq offSince[i] BY DEF OpInv, Sane
<1>3. QED BY <1>1, <1>2

THEOREM EntitledCleanups == Spec => CleanupsAreEntitled
<1> DEFINE Entitled ==
      \A i \in Ops :
        /\ i \in revoked' => op'[i].at \notin {"closing", "deleting"}
        /\ op[i].at = "deleting" => op[i].ids \ op'[i].ids \subseteq offSince[i]
<1>1. OpInv /\ OpInv' => Entitled BY EntitledStep
<1> HIDE DEF Entitled
<1>2. Spec => [][Entitled]_vars BY <1>1, ManagerInvariant, PTL
<1>3. QED BY <1>2 DEF CleanupsAreEntitled, Entitled
=============================================================================
