------------------------------- MODULE Dialogs -------------------------------
(***************************************************************************)
(* The dialogs of woincqt that work on a host.  Each is modal and has its  *)
(* own requests, so a behaviour is one of the settings' dialogs or one of  *)
(* the wizard: which one is chosen at the start, where the menus of        *)
(* ui/qt/gui.cc connect them.                                              *)
(***************************************************************************)
EXTENDS Settings, AddProjectWizard

VARIABLE session    \* the dialogs the user works with

dialogVars == <<session, settingsVars, wizardVars>>

DialogsInit ==
  /\ session \in {"settings", "wizard"}
  /\ SettingsInit
  /\ WizardInit
  /\ session = "wizard" => Group = {}

DialogsNext ==
  /\ UNCHANGED session
  /\ \/ session = "settings" /\ SettingsNext /\ UNCHANGED wizardVars
     \/ session = "wizard" /\ WizardNext /\ UNCHANGED settingsVars

DialogsSpec == DialogsInit /\ [][DialogsNext]_dialogVars
=============================================================================
