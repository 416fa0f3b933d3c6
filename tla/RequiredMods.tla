------------------------------ MODULE RequiredMods ------------------------------
(***************************************************************************)
(* What a preparation asks of Steam (prepare_required_mods of              *)
(* join_prepare.py and run_ugc_install of steam_ugc_backend.py, with the   *)
(* helper's commands) and what a repair asks (repair_ugc_item): which      *)
(* items it subscribes, how it learns that they are ready, what it undoes  *)
(* when it is cancelled or fails, and what it reports.                     *)
(*                                                                         *)
(* One operation runs at a time (PreparationGate).  Steam carries a call   *)
(* out some time after accepting it; it and its user act between any two   *)
(* steps, and the cancel event may be set there.  The protocol with the    *)
(* helper is UGCSession's; here a command is its effects on Steam, and the *)
(* session may die in any of them.                                         *)
(***************************************************************************)
EXTENDS Integers, FiniteSets

CONSTANTS
  Mods,      \* the required Workshop items
  MaxSteam,  \* bound: what Steam and its user do of their own accord
  MaxFaults  \* bound: sessions that die, helpers that fail, full disks

VARIABLES
  native,    \* a native Steam runs
  item,      \* item[m]: the subscription and Steam's copy
  asked,     \* asked[m]: the call Steam accepted and has not carried out
  cancelled, \* the operation's cancel event
  prep,      \* the operation
  session,   \* the cooperative session of a preparation
  handoff,   \* cancel_cleanup_ids
  ours,      \* history: items subscribed by the operation, found unsubscribed
  since,     \* history: items that changed after the last validation
  excused,   \* history: items whose clean-up cannot be demanded
  moves,     \* what Steam and its user did of their own accord
  losses     \* what failed

outside == <<native, item, asked>>
history == <<ours, since, excused>>
spent == <<moves, losses>>
prepVars == <<outside, cancelled, prep, session, handoff, history, spent>>

\* hollow: installed for Steam, its folder gone
Contents == {"absent", "fetching", "old", "current", "hollow"}
Kinds == {"prepare", "unmanaged", "repair"}
Places == {"idle", "preflight", "refresh", "refreshing", "work", "state", "asking",
           "asked", "waiting", "result", "recheck", "undo", "undoing", "validate",
           "folders", "close", "cleanup", "cleaning", "finish", "unsubscribe",
           "removal", "verify", "done"}
Outcomes == {"none", "ready", "cancelled", "failed", "raised"}

TypeOK ==
  /\ native \in BOOLEAN /\ cancelled \in BOOLEAN
  /\ item \in [Mods -> [subscribed: BOOLEAN, content: Contents]]
  /\ asked \in [Mods -> {"nothing", "subscribe", "unsubscribe"}]
  /\ prep \in [kind: Kinds, at: Places, starts: BOOLEAN, auto: BOOLEAN, round: 0..2,
               required: SUBSET Mods, ids: SUBSET Mods, off: SUBSET Mods,
               todo: SUBSET Mods, tried: SUBSET Mods, reported: SUBSET Mods,
               installed: SUBSET Mods, result: {"none", "ok", "failed", "handoff"},
               ok: BOOLEAN, outcome: Outcomes]
  /\ session \in {"none", "open", "failed", "closed"}
  /\ handoff \subseteq Mods /\ ours \subseteq Mods
  /\ since \subseteq Mods /\ excused \subseteq Mods
  /\ moves \in 0..MaxSteam /\ losses \in 0..MaxFaults

\* the helper believes Steam's flags; the launcher looks for the folder too
HelperInstalled(m) == item[m].content \in {"old", "current", "hollow"}
HelperReady(m) == item[m].content \in {"current", "hollow"}
Installed(m) == item[m].content \in {"old", "current"}
ItemReady(m) == item[m].content = "current"
Subscribed(m) == item[m].subscribed

NoPrep == [kind |-> "prepare", at |-> "idle", starts |-> FALSE, auto |-> FALSE, round |-> 0,
           required |-> {}, ids |-> {}, off |-> {}, todo |-> {}, tried |-> {},
           reported |-> {}, installed |-> {}, result |-> "none", ok |-> TRUE,
           outcome |-> "none"]

Init ==
  /\ native \in BOOLEAN
  /\ item \in [Mods -> {[subscribed |-> FALSE, content |-> "absent"],
                        [subscribed |-> TRUE, content |-> "old"],
                        [subscribed |-> TRUE, content |-> "current"]}]
  /\ asked = [m \in Mods |-> "nothing"]
  /\ cancelled = FALSE /\ prep = NoPrep /\ session = "none" /\ handoff = {}
  /\ ours = {} /\ since = {} /\ excused = {}
  /\ moves = 0 /\ losses = 0

-----------------------------------------------------------------------------
(* Steam and its user. *)
SteamActs == UNCHANGED <<cancelled, prep, session, handoff, ours, losses>>
OfItsOwn == moves < MaxSteam /\ moves' = moves + 1

CarriesOut(m) ==
  /\ native /\ asked[m] # "nothing" /\ asked' = [asked EXCEPT ![m] = "nothing"]
  /\ LET c == item[m].content
     IN item' = [item EXCEPT ![m] =
          IF asked[m] = "subscribe"
            THEN [subscribed |-> TRUE, content |-> IF c = "absent" THEN "fetching" ELSE c]
            ELSE [subscribed |-> FALSE, content |-> IF c = "fetching" THEN "absent" ELSE c]]
  /\ UNCHANGED <<native, since, excused, moves>> /\ SteamActs

Delivers(m) ==
  /\ native /\ Subscribed(m) /\ item[m].content \in {"fetching", "old", "hollow"}
  /\ item' = [item EXCEPT ![m].content = "current"]
  /\ UNCHANGED <<native, asked, since, excused, moves>> /\ SteamActs

Removes(m) ==
  /\ native /\ ~Subscribed(m) /\ HelperInstalled(m)
  /\ item' = [item EXCEPT ![m].content = "absent"] /\ since' = since \cup {m}
  /\ UNCHANGED <<native, asked, excused, moves>> /\ SteamActs

Outdates(m) ==
  /\ OfItsOwn /\ ItemReady(m) /\ item' = [item EXCEPT ![m].content = "old"]
  /\ since' = since \cup {m} /\ UNCHANGED <<native, asked, excused>> /\ SteamActs

FolderGoes(m) ==
  /\ OfItsOwn /\ Installed(m) /\ item' = [item EXCEPT ![m].content = "hollow"]
  /\ since' = since \cup {m} /\ UNCHANGED <<native, asked, excused>> /\ SteamActs

UserToggles(m) ==
  /\ OfItsOwn /\ native
  /\ LET c == item[m].content
     IN item' = [item EXCEPT ![m] =
          IF Subscribed(m)
            THEN [subscribed |-> FALSE, content |-> IF c = "fetching" THEN "absent" ELSE c]
            ELSE [subscribed |-> TRUE, content |-> IF c = "absent" THEN "fetching" ELSE c]]
  /\ since' = since \cup {m} /\ excused' = excused \cup {m}
  /\ UNCHANGED <<native, asked>> /\ SteamActs

SteamToggles ==
  /\ OfItsOwn /\ native' = ~native
  /\ UNCHANGED <<item, asked, since, excused>> /\ SteamActs

-----------------------------------------------------------------------------
At(place) == prep.at = place
Running == ~At("idle") /\ ~At("done")
Goes(p) == prep' = p
Same == UNCHANGED <<native, cancelled, moves>>
(* Most steps of the operation leave these alone. *)
Quiet == Same /\ UNCHANGED <<item, asked, session, handoff, history, losses>>
Loss == losses < MaxFaults /\ losses' = losses + 1

(* The operation is over but for closing the session. *)
Ending(ok) == [prep EXCEPT !.at = "close", !.ok = ok]
(* run_ugc_install returns. *)
Returned(ok) ==
  IF prep.kind = "repair" THEN [prep EXCEPT !.at = "verify", !.ok = ok]
  ELSE IF ok THEN [prep EXCEPT !.at = "validate"] ELSE Ending(FALSE)
Installing(ids, round) == [prep EXCEPT !.at = "preflight", !.ids = ids, !.round = round]

Start(kind, required, starts, auto) ==
  /\ At("idle")
  /\ Goes([NoPrep EXCEPT !.kind = kind, !.required = required, !.starts = starts,
                         !.auto = auto,
                         !.at = CASE kind = "prepare" -> "preflight"
                                  [] kind = "unmanaged" -> "folders"
                                  [] kind = "repair" -> "unsubscribe"])
  /\ Quiet

Cancel ==
  /\ Running /\ prep.kind # "repair" /\ ~cancelled /\ cancelled' = TRUE
  /\ UNCHANGED <<outside, prep, session, handoff, history, spent>>

(* _run_ugc_native_steam_preflight: a preparation starts Steam or waits for
   it, a repair requires it.  The probe opens the session.                *)
PreflightPasses ==
  /\ At("preflight") /\ session # "failed" /\ (prep.kind = "repair" => native)
  /\ native' = TRUE
  /\ session' = IF prep.kind = "repair" THEN session ELSE "open"
  /\ Goes([prep EXCEPT !.at = IF prep.round = 0 THEN "refresh" ELSE "state"])
  /\ UNCHANGED <<item, asked, cancelled, handoff, history, spent>>

PreflightFails ==
  /\ At("preflight") /\ (cancelled \/ ~native)
  /\ Goes(IF prep.round = 0 THEN Ending(FALSE) ELSE Returned(FALSE))
  /\ Quiet

(* _refresh_subscribed_batch subscribes again to what is subscribed. *)
RefreshAsks ==
  /\ At("refresh") /\ Goes([prep EXCEPT !.at = "refreshing"])
  /\ asked' = [m \in Mods |-> IF m \in prep.required /\ Subscribed(m)
                                THEN "subscribe" ELSE asked[m]]
  /\ Same /\ UNCHANGED <<item, session, handoff, history, losses>>

RefreshCancelled ==
  /\ At("refreshing") /\ cancelled /\ \E m \in prep.required : Subscribed(m)
  /\ Goes(Ending(FALSE)) /\ Quiet

RefreshEnds ==
  /\ At("refreshing")
  /\ LET work == {m \in prep.required : ~ItemReady(m)}
     IN Goes(IF ~prep.auto /\ \E m \in work : ~Installed(m) THEN Ending(FALSE)
             ELSE IF work = {} THEN [prep EXCEPT !.at = "validate"]
             ELSE [prep EXCEPT !.at = "work", !.ids = work])
  /\ Quiet

WorkBegins == At("work") /\ Goes(Installing(prep.ids, 1)) /\ Quiet

LowDisk ==
  /\ At("work") /\ Loss /\ Goes(Ending(FALSE))
  /\ Same /\ UNCHANGED <<item, asked, session, handoff, history>>

-----------------------------------------------------------------------------
(* run_ugc_install. The allowlist is what the state query saw unsubscribed. *)
InstallState ==
  /\ At("state")
  /\ LET waiting == {m \in prep.ids : ~ItemReady(m)}
     IN Goes(IF waiting = {} THEN Returned(TRUE)
             ELSE [prep EXCEPT !.at = "asking", !.ids = waiting, !.todo = waiting,
                               !.off = {m \in waiting : ~Subscribed(m)},
                               !.tried = {}, !.reported = {}, !.installed = {}])
  /\ Quiet

(* The helper asks item by item; the parent learns of a subscription from
   the request event, sent once the download has been asked for too.     *)
AskSubscribe(m) ==
  /\ At("asking") /\ m \in prep.todo
  /\ Goes([prep EXCEPT !.at = "asked", !.todo = @ \ {m},
                       !.tried = IF Subscribed(m) THEN @ ELSE @ \cup {m}])
  /\ asked' = IF Subscribed(m) THEN asked ELSE [asked EXCEPT ![m] = "subscribe"]
  /\ ours' = IF Subscribed(m) THEN ours ELSE ours \cup {m}
  /\ Same /\ UNCHANGED <<item, session, handoff, since, excused, losses>>

AskDownload ==
  /\ At("asked")
  /\ Goes([prep EXCEPT !.at = IF prep.todo = {} THEN "waiting" ELSE "asking",
                       !.reported = prep.tried])
  /\ Quiet

(* The parent's view of what is installed when the command ends; a one-shot
   helper's "done" overrides what the launcher saw of the folders.        *)
Ended(result) ==
  [prep EXCEPT !.at = "result", !.result = result,
     !.installed = IF result = "ok" /\ prep.kind = "repair" THEN prep.ids
                   ELSE {m \in prep.ids : Installed(m)}]

WaitReady ==
  /\ At("waiting") /\ \A m \in prep.ids : HelperReady(m)
  /\ Goes(Ended("ok")) /\ Quiet

(* Mutation: every item the parent allowed is cleaned up. *)
AllowlistOnly(allowlist, attempted) == allowlist

CleanupCandidates(allowlist, attempted) == allowlist \cap attempted

(* The helper's deadline, or in a session the parent's, which cancels the
   command and gets the handoff with its result.                          *)
WaitTimesOut ==
  /\ At("waiting")
  /\ \/ Goes(Ended("failed")) /\ UNCHANGED handoff
     \/ /\ prep.kind = "prepare" /\ Goes(Ended("handoff"))
        /\ handoff' = handoff \cup CleanupCandidates(prep.off, prep.tried)
  /\ Same /\ UNCHANGED <<item, asked, session, history, losses>>

HandsOver ==
  /\ prep.kind = "prepare" /\ cancelled /\ prep.at \in {"asking", "asked", "waiting"}
  /\ Goes(Ended("handoff"))
  /\ handoff' = handoff \cup CleanupCandidates(prep.off, prep.tried)
  /\ Same /\ UNCHANGED <<item, asked, session, history, losses>>

(* Mutation: a cancel that meets a command's own failure exports nothing. *)
ResultCheckedWithoutFallback ==
  /\ At("result")
  /\ Goes(IF cancelled THEN Returned(FALSE)
          ELSE IF prep.result = "ok" /\ prep.ids \subseteq prep.installed THEN Returned(TRUE)
          ELSE [prep EXCEPT !.at = "recheck"])
  /\ Quiet

ResultChecked ==
  /\ At("result")
  /\ Goes(IF cancelled THEN Returned(FALSE)
          ELSE IF prep.result = "ok" /\ prep.ids \subseteq prep.installed THEN Returned(TRUE)
          ELSE [prep EXCEPT !.at = "recheck"])
  /\ handoff' = IF cancelled /\ prep.result = "failed"
                  THEN handoff \cup (CleanupCandidates(prep.off, prep.reported)
                                       \ prep.installed)
                  ELSE handoff
  /\ Same /\ UNCHANGED <<item, asked, session, history, losses>>

(* _refresh_current_state, then _cleanup_subscriptions. *)
Recheck ==
  /\ At("recheck")
  /\ LET undo == {m \in CleanupCandidates(prep.off, prep.reported) : ~Installed(m)}
     IN Goes(IF undo = {} THEN Returned(FALSE)
             ELSE [prep EXCEPT !.at = "undo", !.todo = undo])
  /\ Quiet

(* Unsubscribing looks at the subscription Steam reports: one it has not
   carried out yet is missed.                                             *)
Unsubscribing(ids) ==
  /\ asked' = [m \in Mods |-> IF m \in ids /\ Subscribed(m) THEN "unsubscribe" ELSE asked[m]]
  /\ excused' = excused \cup {m \in ids : ~Subscribed(m)}

Undo ==
  /\ At("undo") /\ Unsubscribing(prep.todo)
  /\ Goes([prep EXCEPT !.at = "undoing"])
  /\ Same /\ UNCHANGED <<item, session, handoff, ours, since, losses>>

UndoEnds == At("undoing") /\ Goes([Returned(FALSE) EXCEPT !.todo = {}]) /\ Quiet

-----------------------------------------------------------------------------
(* Mutation: an installed item passes the terminal validation. *)
InstalledPasses(m) == ~Installed(m)

Unresolved(m) == ~ItemReady(m)

(* validate_terminal_ugc, with one retry of what it leaves unresolved. *)
Validate ==
  /\ At("validate")
  /\ LET unresolved == {m \in prep.required : Unresolved(m)}
     IN Goes(IF unresolved = {} THEN [prep EXCEPT !.at = "folders"]
             ELSE IF prep.round < 2 THEN Installing(unresolved, 2)
             ELSE Ending(FALSE))
  /\ since' = {}
  /\ Same /\ UNCHANGED <<item, asked, session, handoff, ours, excused, losses>>

Folders ==
  /\ At("folders") /\ Goes(Ending(\A m \in prep.required : Installed(m)))
  /\ since' = IF prep.kind = "unmanaged" THEN {} ELSE since
  /\ Same /\ UNCHANGED <<item, asked, session, handoff, ours, excused, losses>>

(* Any command of the session can be its last; every later one raises. *)
SessionDies ==
  /\ session = "open" /\ Loss /\ session' = "failed"
  /\ prep.at \in {"preflight", "refresh", "refreshing", "state", "asking", "asked",
                  "waiting", "recheck", "undo", "undoing", "validate"}
  /\ Goes(Ending(FALSE)) /\ excused' = Mods
  /\ Same /\ UNCHANGED <<item, asked, handoff, ours, since>>

(* A one-shot helper of a repair fails. *)
HelperFails ==
  /\ prep.kind = "repair" /\ Loss
  /\ \/ At("state") /\ Goes(Returned(FALSE))
     \/ prep.at \in {"asking", "asked", "waiting"} /\ Goes(Ended("failed"))
     \/ prep.at \in {"undo", "undoing"} /\ Goes(Returned(FALSE))
     \/ prep.at \in {"unsubscribe", "verify"}
          /\ Goes([prep EXCEPT !.at = "done", !.outcome = "failed"])
  /\ excused' = Mods
  /\ Same /\ UNCHANGED <<item, asked, session, handoff, ours, since>>

(* Closing: clean, with a diagnostic, or with a helper that is not reaped. *)
Close ==
  /\ At("close") /\ session' = (IF session = "none" THEN "none" ELSE "closed")
  /\ Goes([prep EXCEPT !.at = IF cancelled /\ handoff # {} THEN "cleanup" ELSE "finish"])
  /\ Same /\ UNCHANGED <<item, asked, handoff, history, losses>>

CloseFails ==
  /\ At("close") /\ session \in {"open", "failed"} /\ Loss /\ session' = "closed"
  /\ Goes([prep EXCEPT !.at = "finish"]) \/ Goes([prep EXCEPT !.at = "done", !.outcome = "raised"])
  /\ excused' = Mods
  /\ Same /\ UNCHANGED <<item, asked, handoff, ours, since>>

(* cleanup_cancelled_ugc_subscriptions, in a helper of its own. *)
CancelCleanup ==
  /\ At("cleanup")
  /\ IF native
       THEN /\ Unsubscribing({m \in handoff : ~HelperInstalled(m)})
            /\ Goes([prep EXCEPT !.at = "cleaning"])
       ELSE /\ excused' = Mods /\ UNCHANGED asked
            /\ Goes([prep EXCEPT !.at = "finish"])
  /\ Same /\ UNCHANGED <<item, session, handoff, ours, since, losses>>

CancelCleanupEnds == At("cleaning") /\ Goes([prep EXCEPT !.at = "finish"]) /\ Quiet

Finish ==
  /\ At("finish")
  /\ Goes([prep EXCEPT !.at = "done",
             !.outcome = IF prep.ok THEN "ready"
                         ELSE IF cancelled THEN "cancelled" ELSE "failed"])
  /\ Quiet

-----------------------------------------------------------------------------
(* repair_ugc_item. *)
RepairUnsubscribes ==
  /\ At("unsubscribe")
  /\ IF native
       THEN /\ asked' = [m \in Mods |-> IF m \in prep.required /\ Subscribed(m)
                                          THEN "unsubscribe" ELSE asked[m]]
            /\ Goes([prep EXCEPT !.at = "removal"])
       ELSE UNCHANGED asked /\ Goes([prep EXCEPT !.at = "done", !.outcome = "failed"])
  /\ Same /\ UNCHANGED <<item, session, handoff, history, losses>>

RepairRemoved ==
  /\ At("removal") /\ \A m \in prep.required : ~Subscribed(m) /\ ~Installed(m)
  /\ Goes(IF native THEN Installing(prep.required, 1)
          ELSE [prep EXCEPT !.at = "done", !.outcome = "failed"])
  /\ Quiet

RepairGivesUp ==
  /\ At("removal") /\ Goes([prep EXCEPT !.at = "done", !.outcome = "failed"]) /\ Quiet

RepairVerifies ==
  /\ At("verify") /\ since' = {}
  /\ Goes([prep EXCEPT !.at = "done",
             !.outcome = IF prep.ok /\ \A m \in prep.required : Subscribed(m) /\ ItemReady(m)
                           THEN "ready" ELSE "failed"])
  /\ Same /\ UNCHANGED <<item, asked, session, handoff, ours, excused, losses>>

-----------------------------------------------------------------------------
Environment ==
  \/ SteamToggles
  \/ \E m \in Mods : \/ CarriesOut(m) \/ Delivers(m) \/ Removes(m)
                     \/ Outdates(m) \/ FolderGoes(m) \/ UserToggles(m)

Preparation ==
  \/ \E starts, auto \in BOOLEAN : Start("prepare", Mods, starts, auto)
  \/ Start("unmanaged", Mods, FALSE, FALSE)
  \/ Cancel \/ PreflightPasses \/ PreflightFails
  \/ RefreshAsks \/ RefreshCancelled \/ RefreshEnds \/ WorkBegins \/ LowDisk
  \/ InstallState \/ (\E m \in Mods : AskSubscribe(m)) \/ AskDownload
  \/ WaitReady \/ WaitTimesOut \/ HandsOver \/ ResultChecked
  \/ Recheck \/ Undo \/ UndoEnds \/ Validate \/ Folders
  \/ SessionDies \/ Close \/ CloseFails \/ CancelCleanup \/ CancelCleanupEnds \/ Finish

Repair ==
  \/ \E m \in Mods : Start("repair", {m}, FALSE, TRUE)
  \/ RepairUnsubscribes \/ RepairRemoved \/ RepairGivesUp \/ RepairVerifies \/ HelperFails

Next == Environment \/ Preparation \/ Repair

Spec == Init /\ [][Next]_prepVars

-----------------------------------------------------------------------------
(* A preparation, or the installing half of a repair, unsubscribes only from
   an item it subscribed itself, having found it unsubscribed: what the user
   subscribes in Steam while it runs is kept.                              *)
OnlyOursAreUndone ==
  [][\A m \in Mods :
       asked'[m] = "unsubscribe" /\ asked[m] # "unsubscribe" /\ ~At("unsubscribe")
         => m \in ours]_prepVars

(* What is reported ready is: every required item current in Steam (or, with
   the mod management off, its folder there) when it was last looked at.   *)
ReadyIsReady ==
  prep.outcome = "ready" =>
    \A m \in prep.required \ since :
      IF prep.kind = "unmanaged" THEN Installed(m) ELSE ItemReady(m)

(* A cancelled or failed preparation leaves no subscription of its own to an
   item that never arrived, wherever the cancel, a timeout and the helper's
   answer met; unless the helper or Steam failed it.                       *)
NothingIsLeftBehind ==
  At("done") /\ prep.kind # "repair" /\ prep.outcome \in {"cancelled", "failed"} =>
    \A m \in ours \ excused :
      Subscribed(m) => HelperInstalled(m) \/ asked[m] = "unsubscribe"

-----------------------------------------------------------------------------
(* Why they hold: the parts of the inductive invariant (WorkshopProofs).
   Which operation can be where.                                           *)
PlacesInv ==
  /\ prep.kind = "repair" =>
       /\ prep.at \notin {"idle", "refresh", "refreshing", "work", "validate", "folders",
                          "close", "cleanup", "cleaning", "finish"}
       /\ At("preflight") => prep.round # 0
  /\ prep.kind = "repair" \/ At("idle") => session = "none"
  /\ prep.at \in {"unsubscribe", "removal", "verify"} => prep.kind = "repair"
  /\ prep.kind = "unmanaged" =>
       prep.at \in {"folders", "close", "cleanup", "cleaning", "finish", "done"}
  /\ prep.outcome # "none" => At("done")

(* Only what the operation subscribed is ever a candidate for undoing. *)
OursInv ==
  /\ prep.tried \cup prep.reported \cup handoff \subseteq ours
  /\ At("undo") => prep.todo \subseteq ours

(* Once the terminal validation has passed, its items stay as it saw them,
   save those that changed since.                                         *)
Good(m) == IF prep.kind = "unmanaged" THEN Installed(m) ELSE ItemReady(m)
Validated ==
  \/ At("folders") /\ prep.kind = "prepare"
  \/ prep.at \in {"close", "cleanup", "cleaning", "finish"} /\ prep.ok
  \/ prep.outcome = "ready"
ReadyInv == Validated => \A m \in prep.required \ since : Good(m)

(* Until it begins to undo, a preparation unsubscribes nothing. *)
Early == {"idle", "preflight", "refresh", "refreshing", "work", "state", "asking", "asked",
          "waiting", "result", "recheck", "undo", "validate", "folders"}
Pending(m) == asked[m] = "subscribe" /\ ~Subscribed(m)
QuietInv ==
  /\ prep.at \in Early =>
       \A m \in Mods :
         /\ asked[m] # "unsubscribe"
         /\ m \notin excused /\ ~Subscribed(m) => item[m].content = "absent"
  /\ \A m \in Mods \ excused : Pending(m) => item[m].content = "absent"

(* An item is owed when its subscription would be left behind; then somebody
   still knows that it has to be undone.                                   *)
Owed(m) ==
  Pending(m) \/ (Subscribed(m) /\ ~HelperInstalled(m) /\ asked[m] # "unsubscribe")
Reported(m) == m \in prep.off /\ m \in prep.reported
Known(m) ==
  \/ prep.at \in {"asking", "asked", "waiting"} /\ m \in prep.off /\ m \in prep.tried
  \/ /\ At("result") /\ m \notin prep.installed
     /\ \/ prep.result = "failed" /\ Reported(m)
        \/ prep.result = "handoff" /\ m \in handoff /\ (cancelled \/ Reported(m))
  \/ At("recheck") /\ Reported(m)
  \/ At("undo") /\ m \in prep.todo
  \/ At("close") /\ cancelled /\ m \in handoff
  \/ At("cleanup") /\ m \in handoff
OwedInv ==
  /\ prep.at \in {"asking", "asked"} =>
       /\ prep.todo \subseteq prep.ids
       /\ \A m \in prep.ids \ (prep.off \cup excused) : Subscribed(m)
  /\ prep.at \in {"asking", "asked", "waiting"} => prep.off \subseteq prep.ids
  /\ At("waiting") => prep.reported = prep.tried
  /\ \A m \in ours \ excused : Owed(m) => Known(m)

PrepInv ==
  /\ TypeOK /\ PlacesInv /\ OursInv /\ ReadyInv
  /\ prep.kind # "repair" => QuietInv /\ OwedInv

=============================================================================
