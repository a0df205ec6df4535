----------------------------- MODULE MCIndevolt -----------------------------
(***************************************************************************)
(* Small instances of Indevolt for TLC: a hub with two lists of one and    *)
(* two batches, a hub with numbers and a select that is not identified     *)
(* yet, and a hub with outputs and the fast list only.                     *)
(***************************************************************************)
EXTENDS Indevolt

MCConfigs ==
  {[lists |-> <<1, 2, 0>>, entities |-> {"online"}, identified |-> TRUE, changes |-> 1],
   [lists |-> <<1, 0, 0>>, entities |-> {"numbers", "select"}, identified |-> FALSE, changes |-> 1],
   [lists |-> <<1, 0, 0>>, entities |-> {"outputs"}, identified |-> TRUE, changes |-> 2]}

\* Without the online sensor nothing depends on the number of failed polls.
View ==
  <<config, main, job_queue_, result_queue_, workVars, pollVars, infoVars, work_mode_,
    powerVars, request, IF "online" \in config.entities THEN onlineVars ELSE <<>>,
    device, up, changes>>
=============================================================================
