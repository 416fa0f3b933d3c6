------------------------------- MODULE ModsManager -------------------------------
(***************************************************************************)
(* The Mod Manager (mods_ui.py) with the part of settings_ui.py that opens *)
(* it, takes it down for a Flatpak Steam and brings it back: what it       *)
(* believes of Steam, the inventory it has read, and the four operations   *)
(* that need both, each a click, a worker, a confirmation, a second worker *)
(* and a last callback.                                                    *)
(*                                                                         *)
(* "ui" is what the GTK thread owns; each handler is one step that turns   *)
(* it into another.  Inventory reads, probes and the operations' workers   *)
(* run on threads of their own and look at Steam when they please.  The    *)
(* generation counters of the code are reduced to the question asked of    *)
(* them: whether one was raised since a worker started.                    *)
(***************************************************************************)
EXTENDS Integers

CONSTANTS
  Mods,      \* installed Workshop mods
  MaxOps,    \* bound: operations the user begins
  MaxSteam   \* bound: steps of Steam and of its user

ASSUME ModsManagerAssumption == MaxOps \in Nat /\ MaxSteam \in Nat

Ops == 1..MaxOps
None == 0                  \* no operation, no dialog
Notice == MaxOps + 1       \* a dialog with nothing to decide

VARIABLES
  steam,      \* native, offline, or a Flatpak Steam
  account,    \* the mods it is subscribed to, besides one that is not modelled
  recovering, \* how far the recovery from a Flatpak Steam is, behind its warning
  ui,         \* the overlay's attributes
  op,         \* the operations
  offSince,   \* history: mods unsubscribed at some moment since the click
  revoked,    \* history: cleanups whose authority was withdrawn
  steps       \* steps of Steam so far

vars == <<steam, account, recovering, ui, op, offSince, revoked, steps>>
history == <<offSince, revoked>>

States == {"native", "offline", "unknown"}
NoRefresh == [step |-> "none", start |-> "unknown", end |-> "unknown", status |-> FALSE,
              stale |-> FALSE, result |-> "failed", workshop |-> {}]
Refreshes == [step: {"none", "load", "end", "posted"}, start: States, end: States,
              status: BOOLEAN, stale: BOOLEAN,
              result: {"valid", "failed", "error"}, workshop: SUBSET Mods]
Probes == {"none", "native", "offline", "flatpak", "outdated"}
NoOp == [kind |-> "none", at |-> "none", ids |-> {}, failed |-> FALSE,
         close |-> FALSE, told |-> FALSE, closed |-> FALSE]
Over == [NoOp EXCEPT !.at = "over"]
Kinds == {"none", "cleanup", "unsubscribe", "repair", "steam"}
Stages == {"none", "checking", "checked", "asking", "offering", "waiting", "waited",
           "refreshing", "closing", "deleting", "unsubscribing", "repairing",
           "done", "finalizing", "over"}

Operations == [kind: Kinds, at: Stages, ids: SUBSET Mods, failed: BOOLEAN,
               close: BOOLEAN, told: BOOLEAN, closed: BOOLEAN]
Overlays == [shown: BOOLEAN, belief: States, validity: {"stale", "loading", "valid", "failed"},
             verified: BOOLEAN, old: BOOLEAN, workshop: SUBSET Mods,
             refresh: Refreshes, again: BOOLEAN, againStatus: BOOLEAN,
             callbacks: SUBSET Ops, handoff: {"none", "waiting", "ready", "failed"},
             probe: Probes, dialog: None..Notice, reminded: BOOLEAN,
             running: BOOLEAN, pending: BOOLEAN, batch: BOOLEAN, stop: BOOLEAN,
             request: None..MaxOps, permit: None..MaxOps, repaired: BOOLEAN]

TypeOK ==
  /\ steam \in {"native", "offline", "flatpak"} /\ account \subseteq Mods
  /\ recovering \in {"no", "warned", "reset"}
  /\ ui \in Overlays /\ op \in [Ops -> Operations]
  /\ offSince \in [Ops -> SUBSET Mods] /\ revoked \subseteq Ops
  /\ steps \in 0..MaxSteam

(* An overlay that has just been built; building it reads the inventory. *)
Built == [shown |-> FALSE, belief |-> "unknown", validity |-> "stale", verified |-> FALSE,
          old |-> TRUE, workshop |-> {}, refresh |-> NoRefresh,
          again |-> FALSE, againStatus |-> FALSE, callbacks |-> {}, handoff |-> "none",
          probe |-> "none", dialog |-> None, reminded |-> FALSE,
          running |-> FALSE, pending |-> FALSE, batch |-> FALSE, stop |-> FALSE,
          request |-> None, permit |-> None, repaired |-> FALSE]

Init ==
  /\ steam \in {"native", "offline"} /\ account \in SUBSET Mods /\ recovering = "no"
  /\ ui = [Built EXCEPT !.refresh.step = "load", !.validity = "loading"]
  /\ op = [i \in Ops |-> NoOp]
  /\ offSince = [i \in Ops |-> {}] /\ revoked = {} /\ steps = 0

-----------------------------------------------------------------------------
(* Steam and its user. _mod_manager_steam_state tells a Flatpak Steam from
   nothing.                                                               *)
Observed == IF steam = "flatpak" THEN "unknown" ELSE steam

SteamStep == steps < MaxSteam /\ steps' = steps + 1 /\ UNCHANGED <<recovering, ui, op, revoked>>
SteamChanges(state) ==
  /\ state # steam /\ steam' = state /\ SteamStep /\ UNCHANGED <<account, offSince>>
UserSubscribes(m) ==
  /\ m \notin account /\ account' = account \cup {m} /\ SteamStep
  /\ UNCHANGED <<steam, offSince>>
Off(m) == offSince' = [i \in Ops |-> IF op[i].at \in {"none", "over"} THEN offSince[i]
                                     ELSE offSince[i] \cup {m}]
UserUnsubscribes(m) ==
  /\ m \in account /\ account' = account \ {m} /\ Off(m) /\ SteamStep /\ UNCHANGED steam

-----------------------------------------------------------------------------
(* The parts handlers are made of, as functions of the overlay. *)
Verified(u) == u.verified /\ u.belief = "native" /\ u.validity = "valid"

Discard(u) == [u EXCEPT !.request = None, !.permit = None]
DiscardOf(u, i) == [u EXCEPT !.request = IF @ = i THEN None ELSE @,
                             !.permit = IF @ = i THEN None ELSE @]

NewSession(u) ==
  [u EXCEPT !.verified = FALSE, !.validity = "stale", !.old = TRUE, !.workshop = {},
            !.refresh.stale = u.refresh.step # "none",
            !.probe = IF @ = "none" THEN @ ELSE "outdated"]

SetBelief(u, state) ==
  IF u.belief = state THEN u
  ELSE LET v == [NewSession(u) EXCEPT !.belief = state]
       IN IF state = "offline" THEN v ELSE Discard(v)

Accept(u) == [SetBelief(u, "native") EXCEPT !.verified = FALSE, !.validity = "stale",
                                            !.workshop = {}]

Refresh(u, status) ==
  IF u.refresh.step # "none"
    THEN [u EXCEPT !.again = TRUE, !.againStatus = @ \/ status]
    ELSE [u EXCEPT !.refresh = [NoRefresh EXCEPT !.step = "load", !.start = u.belief,
                                                 !.status = status],
                   !.verified = FALSE, !.validity = "loading"]

(* A probe and what it sees: one that looks later is one that starts later. *)
Probe(u) ==
  IF u.probe = "none" THEN [u EXCEPT !.probe = steam] ELSE u

Reset(u) ==
  [Discard(NewSession(u)) EXCEPT
     !.belief = "unknown", !.callbacks = {},
     !.again = FALSE, !.againStatus = FALSE, !.handoff = "none", !.running = FALSE]

HideNow(u) == [Discard(u) EXCEPT !.shown = FALSE]

(* The box is hidden, but its callback is not called. *)
BlockForFlatpak(u) == HideNow([Reset(u) EXCEPT !.dialog = None])

Show(u) ==
  LET v == Probe([u EXCEPT !.shown = TRUE])
  IN IF u.repaired THEN Refresh([v EXCEPT !.repaired = FALSE], TRUE) ELSE v

(* Every step of the GTK thread: a cleanup that loses its authority before
   its dialog is answered never gets it back.                             *)
Gtk(u) ==
  /\ ui' = u
  /\ revoked' = {i \in Ops : /\ op'[i].at # "over"
                             /\ \/ i \in revoked
                                \/ /\ i \in {ui.request, ui.permit}
                                   /\ i \notin {u.request, u.permit}
                                   /\ op'[i].at # "closing"}
  /\ UNCHANGED <<steam, account, steps>>
GtkOnly(u) == UNCHANGED <<recovering, op, offSince>> /\ Gtk(u)

-----------------------------------------------------------------------------
(* Reading the inventory: two matching snapshots of a native Steam, or none;
   at the end the worker looks at Steam once more.                        *)
InventoryStep(r) ==
  ui' = [ui EXCEPT !.refresh = r]
  /\ UNCHANGED <<steam, account, recovering, op, history, steps>>

LoadItems ==
  LET r == ui.refresh
  IN /\ r.step = "load"
     /\ \/ /\ r.start = "native" /\ steam = "native"
           /\ InventoryStep([r EXCEPT !.step = "end", !.result = "valid",
                                      !.workshop = account])
        \/ InventoryStep([r EXCEPT !.step = "end"])
        \/ InventoryStep([r EXCEPT !.step = "posted", !.result = "error", !.end = r.start])

ObserveEnd ==
  /\ ui.refresh.step = "end"
  /\ InventoryStep([ui.refresh EXCEPT !.step = "posted", !.end = Observed])

(* Mutation: the same belief is taken for the same session. *)
SameBelief(u) == u.belief = u.refresh.start
RefreshIsCurrent(u) == ~u.refresh.stale /\ u.belief = u.refresh.start

(* The start-Steam reminder takes an operation of its own. *)
Unused == {i \in Ops : op[i].at = "none" /\ \A j \in 1..(i - 1) : op[j].at # "none"}
Reminds(u) ==
  /\ u.belief = "offline" /\ u.shown /\ ~Verified(u) /\ ~u.pending /\ ~u.reminded
  /\ u.handoff = "none"

ApplyItems(u) ==
  LET r == u.refresh
  IN [u EXCEPT !.validity = r.result, !.workshop = r.workshop,
               !.verified = u.belief = "native" /\ r.result = "valid",
               !.old = r.stale, !.running = @ /\ ~r.status]

ApplyLoadError(u) ==
  [u EXCEPT !.validity = "failed", !.workshop = {}, !.verified = FALSE,
            !.running = @ /\ ~u.refresh.status, !.dialog = Notice]

(* _finish_inventory_refresh: once more if asked for meanwhile, else whoever
   waited for it goes on.                                                 *)
Prompted(i) == [NoOp EXCEPT !.kind = "steam", !.at = "offering"]
Resumed(i, success, u) ==
  IF success /\ op[i].ids \cap u.workshop # {}
    THEN [op[i] EXCEPT !.at = "asking", !.ids = @ \cap u.workshop]
    ELSE Over

Asked(u, success) == {i \in u.callbacks : Resumed(i, success, u).at = "asking"}

Rested(u) == [u EXCEPT !.refresh = NoRefresh, !.again = FALSE, !.againStatus = FALSE]

CallBack(u, success) ==
  LET asked == Asked(u, success)
  IN [Rested(u) EXCEPT !.callbacks = {},
                       !.pending = @ /\ u.callbacks \subseteq asked,
                       !.dialog = IF asked # {} THEN CHOOSE i \in asked : TRUE ELSE @,
                       !.handoff = IF @ # "waiting" THEN @
                                   ELSE IF success THEN "ready" ELSE "failed"]

Prompt(u, prompted) ==
  IF prompted = {} THEN u
  ELSE [u EXCEPT !.pending = TRUE, !.reminded = TRUE,
                 !.dialog = CHOOSE i \in prompted : TRUE]

FinishRefresh(u, success, reminder) ==
  LET again == u.again /\ u.shown
      prompted == IF reminder THEN Unused ELSE {}
  IN /\ op' = [i \in Ops |-> IF i \in prompted THEN Prompted(i)
                             ELSE IF ~again /\ i \in u.callbacks THEN Resumed(i, success, u)
                             ELSE op[i]]
     /\ Gtk(Prompt(IF again THEN Refresh(Rested(u), u.againStatus) ELSE CallBack(u, success),
                   prompted))
     /\ UNCHANGED <<recovering, offSince>>

ApplyRefresh ==
  LET r == ui.refresh
      believed == IF r.end = r.start THEN ui ELSE SetBelief(ui, r.end)
      u == [believed EXCEPT !.again = @ \/ (ui.shown /\ r.end \notin {r.start, ui.belief})]
  IN /\ r.step = "posted"
     /\ ui.handoff # "ready"     \* its show was posted first
     /\ IF ~RefreshIsCurrent(u) THEN FinishRefresh(u, FALSE, FALSE)
        ELSE IF r.result = "error" THEN FinishRefresh(ApplyLoadError(u), FALSE, FALSE)
        ELSE \E reminder \in BOOLEAN :
               /\ reminder => Reminds(ApplyItems(u)) /\ Unused # {}
               /\ FinishRefresh(ApplyItems(u), r.result = "valid" /\ ~u.again, reminder)

-----------------------------------------------------------------------------
(* Looking for Steam: a probe every few seconds while the manager is shown. *)
Tick == ui.shown /\ ui.probe = "none" /\ GtkOnly(Probe(ui))

(* Mutation: a change of Steam waits for the next opening. *)
RefreshLater(u) == u
RefreshIfShown(u) == IF u.shown THEN Refresh(u, FALSE) ELSE u

ProbeDone ==
  LET u == [ui EXCEPT !.probe = "none"]
      v == SetBelief(u, ui.probe)
  IN /\ ui.probe # "none" /\ UNCHANGED <<op, offSince>>
     /\ recovering' = IF ui.probe = "flatpak" THEN "warned" ELSE recovering
     /\ Gtk(CASE ui.probe = "outdated" -> u
              [] ui.probe = "flatpak" -> BlockForFlatpak(SetBelief(u, "unknown"))
              [] OTHER -> IF v.belief # u.belief THEN RefreshIfShown(v) ELSE v)

-----------------------------------------------------------------------------
(* settings_ui.py: the check before opening, the recovery from a Flatpak
   Steam with its hand-over of an inventory, and the scrim that hides the
   manager.                                                               *)
Open ==
  /\ ~ui.shown /\ ui.handoff = "none"
  /\ UNCHANGED <<op, offSince>>
  /\ recovering' = IF steam = "flatpak" THEN "warned" ELSE "no"
  /\ \E ready \in BOOLEAN :
       LET u == IF steam = "native" /\ ready THEN Accept(ui) ELSE ui
       IN Gtk(IF steam = "flatpak" THEN ui ELSE Show(Refresh(u, FALSE)))

Hide == ui.shown /\ ui.dialog = None /\ GtkOnly(HideNow(ui))

RecoveryResets ==
  /\ recovering # "no" /\ ui.handoff \in {"none", "failed"}
  /\ recovering' = "reset" /\ UNCHANGED <<op, offSince>> /\ Gtk(Reset(ui))

BeginHandoff ==
  /\ recovering = "reset" /\ ui.handoff \in {"none", "failed"} /\ steam = "native"
  /\ GtkOnly(Refresh([Accept(ui) EXCEPT !.handoff = "waiting"], FALSE))

Recovered(u) == recovering' = "no" /\ UNCHANGED <<op, offSince>> /\ Gtk(u)
ShowRecovered ==
  /\ ui.handoff = "ready"
  /\ Recovered(Show([ui EXCEPT !.handoff = "none", !.repaired = FALSE]))

CancelRecovery ==
  recovering # "no" /\ Recovered(IF ui.handoff = "none" THEN ui ELSE Reset(ui))

-----------------------------------------------------------------------------
(* Clicks. A dialog covers the manager; the buttons of a manager that is not
   verified are insensitive.                                              *)
Set(i, o) == op' = [op EXCEPT ![i] = o]
Goto(i, stage) == Set(i, [op[i] EXCEPT !.at = stage])
Clicked(i, kind, stage, ids) ==
  /\ Set(i, [NoOp EXCEPT !.kind = kind, !.at = stage, !.ids = ids])
  /\ offSince' = [offSince EXCEPT ![i] = Mods \ account]
  /\ UNCHANGED recovering
Clickable == ui.shown /\ ui.dialog = None /\ Verified(ui)
Repairing == \E i \in Ops : op[i].at = "repairing"
Busy == ui.running \/ ui.pending \/ ui.batch

ClickCleanup(i, ids) ==
  /\ Clickable /\ ~Busy /\ ids # {} /\ ids \cap ui.workshop = {}
  /\ Clicked(i, "cleanup", "checking", ids)
  /\ Gtk([ui EXCEPT !.request = i, !.permit = None, !.pending = TRUE])

ClickUnsubscribe(i, ids) ==
  /\ Clickable /\ ~Busy /\ ids # {} /\ ids \subseteq ui.workshop
  /\ Clicked(i, "unsubscribe", "checking", ids)
  /\ Gtk([ui EXCEPT !.pending = TRUE])

ClickRepair(i) ==
  /\ Clickable /\ ~Busy /\ ~Repairing
  /\ Clicked(i, "repair", "asking", {})
  /\ Gtk([ui EXCEPT !.pending = TRUE, !.dialog = i])

(* "Another mod operation is already running", shown with running=False. *)
RepairRefused == Clickable /\ Busy /\ ~Repairing /\ GtkOnly([ui EXCEPT !.running = FALSE])

StopUnsubscribe ==
  /\ ui.shown /\ ui.batch /\ ui.dialog = None
  /\ GtkOnly([ui EXCEPT !.stop = TRUE, !.running = TRUE])

Dismiss == ui.dialog = Notice /\ GtkOnly([ui EXCEPT !.dialog = None])

-----------------------------------------------------------------------------
(* Checking with Steam before the question is put. *)
Works(i, o) == Set(i, o) /\ UNCHANGED <<steam, account, recovering, ui, history, steps>>

(* Mutation: what the inventory said is good enough. *)
SafeByInventory(i) == op[i].ids \ ui.workshop
Safe(i) == op[i].ids \ account

CheckCleanup(i) ==
  /\ op[i].kind = "cleanup" /\ op[i].at = "checking"
  /\ \/ steam = "native" /\ Works(i, [op[i] EXCEPT !.at = "checked", !.ids = Safe(i)])
     \/ Works(i, [op[i] EXCEPT !.at = "checked", !.failed = TRUE])

Ask(i, u) == [u EXCEPT !.dialog = i]
Settled(u) == [u EXCEPT !.pending = FALSE, !.running = FALSE]
Ends(i, u) == Set(i, Over) /\ Gtk(u) /\ UNCHANGED <<recovering, offSince>>

(* _mint_local_cleanup_transaction, and the choice of the question. *)
CleanupChecked(i) ==
  /\ op[i].kind = "cleanup" /\ op[i].at = "checked"
  /\ IF op[i].failed \/ op[i].ids = {} \/ ui.request # i \/ steam = "flatpak"
       THEN Ends(i, Settled(DiscardOf(ui, i)))
       ELSE /\ Set(i, [op[i] EXCEPT !.at = "asking", !.close = steam = "native"])
            /\ Gtk(Ask(i, [ui EXCEPT !.request = None, !.permit = i]))
            /\ UNCHANGED <<recovering, offSince>>

CheckUnsubscribe(i) ==
  /\ op[i].kind = "unsubscribe" /\ op[i].at = "checking"
  /\ \/ steam = "native" /\ Works(i, [op[i] EXCEPT !.at = "checked", !.ids = @ \cap account])
     \/ Works(i, [op[i] EXCEPT !.at = "checked", !.failed = TRUE])

UnsubscribeChecked(i) ==
  /\ op[i].kind = "unsubscribe" /\ op[i].at = "checked"
  /\ IF ~op[i].failed /\ op[i].ids = {} THEN Ends(i, Settled(ui))
     ELSE /\ Set(i, [op[i] EXCEPT !.at = IF op[i].failed THEN "offering" ELSE "asking",
                                  !.failed = FALSE])
          /\ Gtk(Ask(i, ui)) /\ UNCHANGED <<recovering, offSince>>

-----------------------------------------------------------------------------
(* Answers. *)
Answered(i, stage, kind) ==
  ui.dialog = i /\ op[i].at = stage /\ op[i].kind \in kind
Closed == [ui EXCEPT !.dialog = None]
Continues(i, stage, u) == Goto(i, stage) /\ Gtk(u) /\ UNCHANGED <<recovering, offSince>>

Refuse(i) ==
  /\ Answered(i, "asking", Kinds) \/ Answered(i, "offering", Kinds)
  /\ Ends(i, Settled(DiscardOf(Closed, i)))

Consumes(i) == ui.permit = i

ConfirmCleanup(i) ==
  /\ Answered(i, "asking", {"cleanup"})
  /\ \E fresh \in BOOLEAN :
       IF fresh /\ Consumes(i)
         THEN /\ Continues(i, "closing", [DiscardOf(Closed, i) EXCEPT !.pending = FALSE,
                                                                     !.running = TRUE])
         ELSE Ends(i, Settled(DiscardOf(Closed, i)))

ConfirmUnsubscribe(i) ==
  /\ Answered(i, "asking", {"unsubscribe"})
  /\ IF ui.batch THEN Ends(i, [Closed EXCEPT !.pending = FALSE])
     ELSE IF ~Verified(ui) THEN Ends(i, [Settled(Closed) EXCEPT !.verified = FALSE])
     ELSE /\ Continues(i, "unsubscribing",
                       [Closed EXCEPT !.pending = FALSE, !.running = TRUE,
                                      !.batch = TRUE, !.stop = FALSE])

ConfirmRepair(i) ==
  /\ Answered(i, "asking", {"repair"})
  /\ IF ~Verified(ui)
       THEN IF ui.reminded THEN Ends(i, Settled(Closed))
            ELSE /\ Set(i, Prompted(i)) /\ UNCHANGED <<recovering, offSince>>
                 /\ Gtk([ui EXCEPT !.pending = TRUE, !.reminded = TRUE])
     ELSE \/ Ends(i, Settled(Closed))     \* another holds the preparation gate
          \/ Continues(i, "repairing", [Closed EXCEPT !.pending = FALSE, !.running = TRUE])

StartSteam(i) ==
  /\ Answered(i, "offering", Kinds)
  /\ \/ Continues(i, "waiting", [Closed EXCEPT !.running = FALSE])
     \/ Ends(i, Settled(Closed))

WaitForSteam(i) ==
  /\ op[i].at = "waiting"
  /\ \/ steam = "native" /\ Works(i, [op[i] EXCEPT !.at = "waited", !.failed = FALSE])
     \/ Works(i, [op[i] EXCEPT !.at = "waited", !.failed = TRUE])

Waited(i) ==
  /\ op[i].at = "waited"
  /\ IF op[i].failed THEN Ends(i, Settled(ui))
     ELSE IF op[i].kind = "steam" THEN Ends(i, Refresh([ui EXCEPT !.pending = FALSE], TRUE))
     ELSE /\ Continues(i, "refreshing",
                 Refresh([ui EXCEPT !.running = FALSE, !.callbacks = @ \cup {i}], TRUE))

-----------------------------------------------------------------------------
(* The operations' workers. A message of progress that GTK has not handled
   yet is "told"; what the worker posts last is handled after it.         *)
WorksWith(i, o) == Set(i, o) /\ UNCHANGED <<recovering, ui, revoked, steps>>
Finishes(i, failed) == [op[i] EXCEPT !.at = "done", !.failed = failed]

(* _run_batch_local_cleanup: Steam is told to close, if that was the
   question, and must be seen gone.                                       *)
CloseSteam(i) ==
  /\ op[i].at = "closing" /\ UNCHANGED <<account, offSince>>
  /\ \/ /\ steam = "native" /\ op[i].close /\ steam' = "offline"
        /\ WorksWith(i, [op[i] EXCEPT !.at = "deleting", !.closed = TRUE])
     \/ /\ steam = "offline" /\ UNCHANGED steam
        /\ WorksWith(i, [op[i] EXCEPT !.at = "deleting"])
     \/ UNCHANGED steam /\ WorksWith(i, Finishes(i, TRUE))

DeleteOne(i, m) ==
  /\ op[i].at = "deleting" /\ m \in op[i].ids
  /\ WorksWith(i, IF steam = "offline" THEN [op[i] EXCEPT !.ids = @ \ {m}, !.told = TRUE]
                  ELSE Finishes(i, TRUE))
  /\ UNCHANGED <<steam, account, offSince>>

CleanupEnds(i) ==
  /\ op[i].at = "deleting" /\ op[i].ids = {}
  /\ steam' \in IF op[i].closed THEN {steam, "native"} ELSE {steam}
  /\ WorksWith(i, Finishes(i, FALSE)) /\ UNCHANGED <<account, offSince>>

(* _attempt_batch_unsubscribe_one: Steam closed, an answer that does not
   come, a mod that takes too long, or a mod that is gone.                *)
UnsubscribeOne(i, m) ==
  /\ op[i].at = "unsubscribing" /\ m \in op[i].ids /\ ~ui.stop /\ UNCHANGED steam
  /\ \/ /\ WorksWith(i, [Finishes(i, TRUE) EXCEPT !.told = TRUE])
        /\ UNCHANGED <<account, offSince>>
     \/ /\ steam = "native"
        /\ WorksWith(i, [op[i] EXCEPT !.ids = @ \ {m}, !.told = TRUE])
        /\ \/ account' = account \ {m} /\ Off(m)
           \/ UNCHANGED <<account, offSince>>

UnsubscribeStops(i) ==
  /\ op[i].at = "unsubscribing" /\ (op[i].ids = {} \/ ui.stop)
  /\ Works(i, Finishes(i, FALSE))

RepairOne(i) ==
  op[i].at = "repairing" /\ \E failed \in BOOLEAN : Works(i, Finishes(i, failed))

-----------------------------------------------------------------------------
(* Their callbacks. *)
Progress(i) ==
  /\ op[i].told /\ Set(i, [op[i] EXCEPT !.told = FALSE])
  /\ Gtk([ui EXCEPT !.running = TRUE]) /\ UNCHANGED <<recovering, offSince>>

Finished(i, kind) == op[i].at = "done" /\ op[i].kind = kind /\ ~op[i].told

CleanupDone(i) ==
  Finished(i, "cleanup") /\ Ends(i, Refresh([ui EXCEPT !.running = FALSE], TRUE))

(* Nothing lowers "running" here: the refresh does, with its status. *)
UnsubscribeDone(i) ==
  /\ Finished(i, "unsubscribe")
  /\ LET u == [ui EXCEPT !.batch = FALSE, !.stop = FALSE]
     IN Ends(i, Refresh(IF op[i].failed THEN [u EXCEPT !.verified = FALSE, !.dialog = Notice]
                        ELSE u, TRUE))

RepairDone(i) ==
  /\ Finished(i, "repair")
  /\ IF op[i].failed THEN Set(i, Over) ELSE Goto(i, "finalizing")
  /\ Gtk([ui EXCEPT !.running = FALSE,
                    !.dialog = IF op[i].failed /\ ui.shown THEN Notice ELSE @])
  /\ UNCHANGED <<recovering, offSince>>

FinalizeRepair(i) ==
  /\ op[i].at = "finalizing"
  /\ Ends(i, IF ui.shown THEN Refresh(ui, TRUE) ELSE [ui EXCEPT !.repaired = TRUE])

-----------------------------------------------------------------------------
World ==
  \/ \E state \in {"native", "offline", "flatpak"} : SteamChanges(state)
  \/ \E m \in Mods : UserSubscribes(m) \/ UserUnsubscribes(m)

Threads == LoadItems \/ ObserveEnd
Callbacks == ApplyRefresh \/ ProbeDone \/ Tick

User ==
  \/ Open \/ Hide \/ RepairRefused \/ StopUnsubscribe \/ Dismiss
  \/ \E i \in Unused : \/ \E ids \in SUBSET Mods : ClickCleanup(i, ids) \/ ClickUnsubscribe(i, ids)
                        \/ ClickRepair(i)
  \/ \E i \in Ops : \/ Refuse(i) \/ ConfirmCleanup(i) \/ ConfirmUnsubscribe(i)
                     \/ ConfirmRepair(i) \/ StartSteam(i)

Recovery == RecoveryResets \/ BeginHandoff \/ ShowRecovered \/ CancelRecovery

OpThread(i) ==
  \/ CheckCleanup(i) \/ CheckUnsubscribe(i) \/ WaitForSteam(i)
  \/ CloseSteam(i) \/ CleanupEnds(i) \/ UnsubscribeStops(i) \/ RepairOne(i)
  \/ \E m \in Mods : DeleteOne(i, m) \/ UnsubscribeOne(i, m)
OpCallback(i) ==
  \/ CleanupChecked(i) \/ UnsubscribeChecked(i) \/ Waited(i) \/ Progress(i)
  \/ CleanupDone(i) \/ UnsubscribeDone(i) \/ RepairDone(i) \/ FinalizeRepair(i)

Next ==
  \/ World \/ Threads \/ Callbacks \/ User \/ Recovery
  \/ \E i \in Ops : OpThread(i) \/ OpCallback(i)

Spec == Init /\ [][Next]_vars

-----------------------------------------------------------------------------
(* The manager offers operations only on an inventory read in the session
   of Steam it believes in, not on one of before Steam was closed and
   started again, a recovery or a Flatpak.                                *)
VerifiedInventoryIsCurrent == Verified(ui) => ~ui.old

(* A cleanup whose authority was withdrawn before its question was answered,
   by hiding the manager, by a reset or by Steam, never deletes; and another
   one removes the files of mods only that Steam has had unsubscribed at some
   moment since the click.                                                *)
CleanupsAreEntitled ==
  [][\A i \in Ops :
       /\ i \in revoked' => op'[i].at \notin {"closing", "deleting"}
       /\ op[i].at = "deleting" => op[i].ids \ op'[i].ids \subseteq offSince[i]]_vars

(* While the manager is shown, an inventory that is not up to date is being
   read: by a refresh the result of which will still count, or by one that
   will be run again after it.  There is no button that reads it.         *)
StaleIsBeingRead ==
  ui.shown /\ ui.validity \in {"stale", "loading"}
    => ui.refresh.step # "none" /\ (RefreshIsCurrent(ui) \/ ui.again)

=============================================================================
