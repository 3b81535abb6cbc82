---------------------------- MODULE MCClassSlots ----------------------------
(* Small instances of ClassSlots for TLC.                                  *)
EXTENDS ClassSlots

\* The services ask for these: the Zoom and Local Dominance writes, and the
\* Front rematch and reprocess of the integrations console.
ServiceRequests == {<<"ingestion", "user_manual">>,
                    <<"ingestion", "scheduled_background">>,
                    <<"interactive_repair", "user_manual">>}
=============================================================================
