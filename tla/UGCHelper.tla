------------------------------ MODULE UGCHelper ------------------------------
(***************************************************************************)
(* The Steam UGC helper process (steam_ugc_helper.py, command_session): it *)
(* initialises SteamAPI under a temporary AppID directory, serves one      *)
(* command after another from its stdin, and announces every step of them  *)
(* on its stdout.  A command that talks to Steam for long looks at stdin   *)
(* between two calls, so that it can be cancelled; query_state never does. *)
(*                                                                         *)
(* stdin is commands: the pipe and the helper's own reader thread are one  *)
(* unbounded FIFO.  stdout is pipe.  The launcher sends nothing but        *)
(* shutdown before session_ready, so what command_session does with other  *)
(* messages while SteamAPI is not ready (pending_messages) is left out.    *)
(***************************************************************************)
EXTENDS Naturals, Sequences

CONSTANTS MaxId,     \* bound: request ids the launcher hands out
          Scenarios  \* sets of faults, one of which may happen in a session

AllFaults == {"deadline",   \* a launcher's timer runs out before its event
              "failure",    \* a Steam call raises in the helper
              "death",      \* the helper dies by itself
              "cleanup"}    \* a temporary directory resists its removal

ASSUME HelperAssumption == MaxId \in Nat /\ Scenarios \subseteq SUBSET AllFaults

VARIABLES helper,    \* the process: where it is and the request it serves
          tempDir,   \* its temporary AppID directory exists
          commands,  \* launcher to helper
          pipe,      \* helper to launcher
          faults     \* what may go wrong, chosen once

helperVars == <<helper, tempDir, commands, pipe, faults>>

NoId == 0                      \* request_id None
Ids == NoId..MaxId
Kinds == {"query_state", "subscribe_download"}  \* the latter stands for all that look at stdin

Message == [cmd: Kinds \cup {"cancel", "shutdown", "eof"}, id: Ids, target: Ids]
Event == [type: {"starting", "waiting", "ready", "accepted", "item", "result", "ack",
                 "recoverable", "fatal", "complete", "error", "eof"}, id: Ids, ok: BOOLEAN]

HelperSteps == {"none", "starting", "init", "idle", "busy", "cancelled",
                "ending", "leaving", "exited"}

HelperTypeOK ==
  /\ helper \in [at: HelperSteps, id: Ids, kind: Kinds, items: 0..1,
                 stop: Ids, raised: BOOLEAN, clean: BOOLEAN]
  /\ tempDir \in BOOLEAN
  /\ commands \in Seq(Message)
  /\ pipe \in Seq(Event) /\ faults \subseteq AllFaults

HelperInit ==
  /\ helper = [at |-> "none", id |-> NoId, kind |-> "query_state", items |-> 1,
               stop |-> NoId, raised |-> FALSE, clean |-> TRUE]
  /\ tempDir = FALSE /\ commands = <<>> /\ pipe = <<>> /\ faults \in Scenarios

Alive == helper.at \notin {"none", "exited"}
Dead == helper.at = "exited"

Ev(type, id, ok) == [type |-> type, id |-> id, ok |-> ok]
Emit(events) == pipe' = pipe \o events
Read(cmd) == commands # <<>> /\ Head(commands).cmd = cmd /\ commands' = Tail(commands)

-----------------------------------------------------------------------------
(* setup_temp_appid and session_starting *)
Announce ==
  /\ helper.at = "starting"
  /\ helper' = [helper EXCEPT !.at = "init"]
  /\ tempDir' = TRUE
  /\ Emit(<<Ev("starting", NoId, TRUE)>>)
  /\ UNCHANGED <<commands, faults>>

(* detect_steam_paths() raised, before there is a session; SteamUGC() raised,
   after session_starting.                                                 *)
FailStart ==
  /\ "failure" \in faults
  /\ helper.at \in {"starting", "init"}
  /\ helper' = [helper EXCEPT !.at = IF @ = "init" THEN "ending" ELSE "leaving",
                              !.raised = TRUE, !.clean = FALSE]
  /\ UNCHANGED <<tempDir, commands, pipe, faults>>

(* steam.init() raised SteamInitError and stdin stayed silent.  The model
   lets it say so once: session_waiting changes nothing for the launcher.  *)
KeepWaiting ==
  /\ helper.at = "init" /\ commands = <<>> /\ helper.items > 0
  /\ helper' = [helper EXCEPT !.items = 0]
  /\ Emit(<<Ev("waiting", NoId, TRUE)>>)
  /\ UNCHANGED <<tempDir, commands, faults>>

SteamReady ==
  /\ helper.at = "init"
  /\ helper' = [helper EXCEPT !.at = "idle"]
  /\ Emit(<<Ev("ready", NoId, TRUE)>>)
  /\ UNCHANGED <<tempDir, commands, faults>>

(* The next command of the main loop. *)
Accept ==
  /\ helper.at = "idle"
  /\ \E kind \in Kinds :
       /\ Read(kind)
       /\ helper' = [helper EXCEPT !.at = "busy", !.id = Head(commands).id,
                                   !.kind = kind, !.items = 1]
  /\ Emit(<<Ev("accepted", Head(commands).id, TRUE)>>)
  /\ UNCHANGED <<tempDir, faults>>

(* A cancellation that arrives when its command has already ended. *)
CancelNothing ==
  /\ helper.at = "idle" /\ Read("cancel")
  /\ Emit(<<Ev("ack", Head(commands).id, TRUE)>>)
  /\ UNCHANGED <<helper, tempDir, faults>>

(* One item of the running command; the model reports at most one. *)
ReportItem ==
  /\ helper.at = "busy" /\ helper.items > 0
  /\ helper' = [helper EXCEPT !.items = @ - 1]
  /\ Emit(<<Ev("item", helper.id, TRUE)>>)
  /\ UNCHANGED <<tempDir, commands, faults>>

Complete(ok) ==
  /\ helper.at = "busy"
  /\ helper' = [helper EXCEPT !.at = "idle", !.id = NoId]
  /\ Emit(<<Ev("result", helper.id, ok)>>)
  /\ UNCHANGED <<tempDir, commands, faults>>

Listening == helper.at = "busy" /\ helper.kind # "query_state"

(* _session_check_control while a command runs: only a cancellation of that
   very command is obeyed ...                                              *)
Control ==
  /\ Listening
  /\ \E cmd \in Kinds \cup {"cancel"} : Read(cmd)
  /\ LET m == Head(commands)
     IN IF m.cmd = "cancel" /\ m.target = helper.id
        THEN /\ helper' = [helper EXCEPT !.at = "cancelled"]
             /\ Emit(<<Ev("ack", m.id, TRUE)>>)
        ELSE Emit(<<Ev("recoverable", m.id, FALSE)>>) /\ UNCHANGED helper
  /\ UNCHANGED <<tempDir, faults>>

(* ... and the result that follows the acknowledgement. *)
CancelledResult ==
  /\ helper.at = "cancelled"
  /\ helper' = [helper EXCEPT !.at = "idle", !.id = NoId]
  /\ Emit(<<Ev("result", helper.id, FALSE)>>)
  /\ UNCHANGED <<tempDir, commands, faults>>

(* shutdown, waiting for SteamAPI, between commands or inside one *)
TakeShutdown ==
  /\ helper.at \in {"init", "idle"} \/ Listening
  /\ Read("shutdown")
  /\ helper' = [helper EXCEPT !.at = "ending", !.stop = Head(commands).id]
  /\ Emit(<<Ev("accepted", Head(commands).id, TRUE)>>)
  /\ UNCHANGED <<tempDir, faults>>

(* parent_eof *)
TakeEof ==
  /\ helper.at \in {"init", "idle"} \/ Listening
  /\ Read("eof")
  /\ helper' = [helper EXCEPT !.at = "ending"]
  /\ UNCHANGED <<tempDir, pipe, faults>>

FailCommand ==
  /\ "failure" \in faults
  /\ helper.at = "busy"
  /\ helper' = [helper EXCEPT !.at = "ending", !.clean = FALSE]
  /\ Emit(<<Ev("fatal", helper.id, FALSE)>>)
  /\ UNCHANGED <<tempDir, commands, faults>>

(* The finally block: SteamAPI shut down, directory removed, both reported. *)
ShutDown(steamDown, removed) ==
  /\ helper.at = "ending"
  /\ steamDown \/ "failure" \in faults
  /\ removed \/ "cleanup" \in faults
  /\ helper' = [helper EXCEPT !.at = "leaving",
                              !.raised = @ \/ ~steamDown \/ ~removed,
                              !.clean = @ /\ steamDown /\ removed]
  /\ tempDir' = ~removed
  /\ Emit(<<Ev("complete", helper.stop, steamDown /\ removed)>>)
  /\ UNCHANGED <<commands, faults>>

(* main() reports the exception that left command_session. *)
ReportError ==
  /\ helper.at = "leaving" /\ helper.raised
  /\ helper' = [helper EXCEPT !.raised = FALSE]
  /\ Emit(<<Ev("error", NoId, FALSE)>>)
  /\ UNCHANGED <<tempDir, commands, faults>>

Exit ==
  /\ helper.at = "leaving" /\ ~helper.raised
  /\ helper' = [helper EXCEPT !.at = "exited"]
  /\ UNCHANGED <<tempDir, commands, pipe, faults>>

(* It crashes, or a signal ends it: its finally block does not run. *)
Die ==
  /\ Alive
  /\ helper' = [helper EXCEPT !.at = "exited", !.clean = FALSE]
  /\ UNCHANGED <<tempDir, commands, pipe, faults>>

HelperStep ==
  \/ Announce \/ FailStart \/ KeepWaiting \/ SteamReady \/ Accept \/ CancelNothing
  \/ ReportItem \/ (\E ok \in BOOLEAN : Complete(ok))
  \/ Control \/ CancelledResult
  \/ TakeShutdown \/ TakeEof \/ FailCommand
  \/ (\E steamDown, removed \in BOOLEAN : ShutDown(steamDown, removed))
  \/ ReportError \/ Exit
  \/ "death" \in faults /\ Die

=============================================================================
