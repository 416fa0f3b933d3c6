-------------------------------- MODULE Workshop --------------------------------
(***************************************************************************)
(* The two ways the launcher changes the Workshop: it prepares and repairs *)
(* items through Steam (RequiredMods), and it deletes their files and      *)
(* records (WorkshopCleanup).  They take turns: the window starts one only *)
(* when the other has ended (ModsManager, PreparationGate), so a behaviour *)
(* is of one side, and the other stays as it began.                        *)
(***************************************************************************)
EXTENDS WorkshopCleanup

VARIABLES
  native, item, asked, cancelled, prep, session, handoff, ours, since, excused,
  moves, losses,
  side  \* which of the two this behaviour is about

preparation == <<native, item, asked, cancelled, prep, session, handoff, ours, since,
                 excused, moves, losses>>

Prep == INSTANCE RequiredMods

WorkshopInit ==
  /\ side \in {"cleanup", "preparation"}
  /\ IF side = "cleanup"
       THEN Init /\ Prep!Init /\ native /\ item = [m \in Mods |->
              [subscribed |-> FALSE, content |-> "absent"]]
       ELSE Init /\ Prep!Init /\ subscribed = {}

WorkshopNext ==
  /\ \/ side = "cleanup" /\ Next /\ UNCHANGED preparation
     \/ side = "preparation" /\ Prep!Next /\ UNCHANGED vars
  /\ UNCHANGED side

WorkshopSpec == WorkshopInit /\ [][WorkshopNext]_<<vars, preparation, side>>

(* See RequiredMods, whose properties these are. *)
OnlyOursAreUndone == Prep!OnlyOursAreUndone
ReadyIsReady == Prep!ReadyIsReady
NothingIsLeftBehind == Prep!NothingIsLeftBehind

=============================================================================
