----------------------------- MODULE MCEventLog -----------------------------
(* A log that holds two events and is overrun several times.  Streams share *)
(* nothing but the log and the notification, so one stream stands for all.  *)
EXTENDS EventLog
=============================================================================
