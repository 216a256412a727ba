------------------------------- MODULE Daemon -------------------------------
(***************************************************************************)
(* The bot's process as Telegram sees it: what it fetches, what it has     *)
(* handled, and when.  It says nothing of how the process is put together  *)
(* (Lifecycle) or of what handling an update does (Bot); both implement    *)
(* it.  Updates are numbered by Telegram and counted here.                 *)
(***************************************************************************)
EXTENDS Naturals

VARIABLES
  phase,    \* "running", "stopping" once polling has ended, "down"
  sent,     \* updates sent so far
  acked,    \* Telegram has forgotten the updates up to here
  fetched,  \* the process has got the updates up to here
  done      \* and has handled, or dropped, the updates up to here

daemonVars == <<phase, sent, acked, fetched, done>>

DaemonInit ==
  /\ phase \in {"running", "down"}
  /\ sent = 0 /\ acked = 0 /\ fetched = 0 /\ done = 0

Send == sent' = sent + 1 /\ UNCHANGED <<phase, acked, fetched, done>>

\* Asking for the next batch acknowledges the last one.
Fetch ==
  /\ phase = "running" /\ acked < sent
  /\ acked' = fetched /\ fetched' = sent
  /\ UNCHANGED <<phase, sent, done>>

\* In Telegram's order, one at a time.
Handle ==
  /\ phase # "down" /\ done < fetched
  /\ done' = done + 1
  /\ UNCHANGED <<phase, sent, acked, fetched>>

\* Polling ends; the acknowledgement of the last batch may fail.
Quit ==
  /\ phase = "running" /\ phase' = "stopping"
  /\ acked' \in {acked, fetched}
  /\ UNCHANGED <<sent, fetched, done>>

Finish ==
  /\ phase = "stopping" /\ done = fetched
  /\ phase' = "down"
  /\ UNCHANGED <<sent, acked, fetched, done>>

Die ==
  /\ phase # "down" /\ phase' = "down"
  /\ UNCHANGED <<sent, acked, fetched, done>>

\* A process that starts begins with what is sent from then on.
Launch ==
  /\ phase = "down" /\ phase' = "running"
  /\ acked' = sent /\ fetched' = sent /\ done' = sent
  /\ UNCHANGED sent

DaemonNext == Send \/ Fetch \/ Handle \/ Quit \/ Finish \/ Die \/ Launch

DaemonSpec == DaemonInit /\ [][DaemonNext]_daemonVars
=============================================================================
