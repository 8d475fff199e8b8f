----------------------------- MODULE MCDesktops -----------------------------
(***************************************************************************)
(* Model-checks the lives of the two kinds of remote desktop in one run:   *)
(* the RDP session of RdpSessionWorker, and the SPICE session in the Linux *)
(* helper of SpiceHelper.  They share no state, so Init chooses whose      *)
(* steps are taken, and the variables of the other keep their values.      *)
(***************************************************************************)
EXTENDS RdpSessionWorker, SpiceHelper

VARIABLE session  \* "rdp" or "spice"

desktopVars == <<session, vars, spiceVars>>

DesktopInit == session \in {"rdp", "spice"} /\ Init /\ SpiceInit

RdpStep == session = "rdp" /\ Next /\ UNCHANGED <<session, spiceVars>>
SpiceStep == session = "spice" /\ SpiceNext /\ UNCHANGED <<session, vars>>

DesktopNext == RdpStep \/ SpiceStep

\* The fairness of RdpSessionWorker, in the behaviours of that session ...
RdpFairness ==
  /\ WF_vars(session = "rdp" /\ SessionThread)
  /\ WF_vars(session = "rdp" /\ IntervalPasses)
  /\ WF_vars(session = "rdp" /\ (FlagFrame \/ WakeForFrame))
  /\ WF_vars(session = "rdp" /\ SetWake)
  /\ WF_vars(session = "rdp" /\ DeliverSignal)
  /\ WF_vars(session = "rdp" /\ PaintEvent)
  /\ WF_vars(session = "rdp" /\ Dismiss)
  /\ WF_vars(session = "rdp" /\ JoinEnds)

\* ... and that of SpiceHelper in the others.
SpiceFairness ==
  /\ WF_spiceVars(session = "spice" /\ WorkerStep)
  /\ WF_spiceVars(session = "spice" /\ WidgetStep)
  /\ WF_spiceVars(session = "spice" /\ Boot)
  /\ WF_spiceVars(session = "spice" /\ PumpInputEnds)
  /\ WF_spiceVars(session = "spice" /\ CleanUp)
  /\ WF_spiceVars(session = "spice" /\ WatcherStep)

DesktopSpec ==
  DesktopInit /\ [][DesktopNext]_desktopVars /\ RdpFairness /\ SpiceFairness

=============================================================================
