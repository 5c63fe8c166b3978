------------------------------ MODULE MCDialogs ------------------------------
EXTENDS Dialogs

\* One preference of every kind of widget, the ones that share a widget together.
MCGroups ==
  {{}, {"max_ncpus_pct"}, {"dont_verify_images"}, {"max_bytes_sec_down"},
   {"daily_xfer_limit_mb", "daily_xfer_period_days"}, {"disk_max_used_gb"},
   {"general_cpu_times"}, {"daily_cpu_times"}, InUse}

\* With more than one preference there is no override file at first.
MCInit == DialogsInit /\ (Cardinality(Group) > 1 => override = <<>>)

\* No property speaks of the preferences once an answer is out of step, nor of the log
\* flags once the user was impatient as well, nor of the wizard once a page was left
\* hastily; late, impatient and hasty stay as they are then.
MCNext == (late => Group = {} /\ ~impatient) /\ hasty = {} /\ DialogsNext

MCSpec == MCInit /\ [][MCNext]_dialogVars
=============================================================================
